------------------------------- MODULE BsvProofs -------------------------------
(***************************************************************************)
(* Proofs about the two clients of the BSV network, for every value of the *)
(* constants.                                                              *)
(*                                                                         *)
(* Teranode: for every threshold, delay and sequence of outages there is   *)
(* one listener at most, and none while the breaker is open, although      *)
(* disconnect() lifts the guard of a tick that awaits; and no listener     *)
(* restarts in vain more often than the threshold allows.                  *)
(*                                                                         *)
(* NodePool: for every set of hosts, and whatever they do, the pool keeps  *)
(* to its size, every entry has a peer object, and states, heights and     *)
(* cooldowns are what the code counts on.                                  *)
(***************************************************************************)
EXTENDS Teranode, NodePool, FiniteSetTheorems, TLAPS

\* The smaller of two numbers.
LEMMA MinOfTwo ==
  ASSUME NEW a \in Nat, NEW b \in Nat
  PROVE  Min({a, b}) \in {a, b} /\ Min({a, b}) <= a /\ Min({a, b}) <= b
<1>1. \E x \in {a, b} : \A y \in {a, b} : x <= y
  <2>1. CASE a <= b
    BY <2>1
  <2>2. CASE b <= a
    BY <2>2
  <2> QED
    BY <2>1, <2>2
<1> QED
  BY <1>1 DEF Min

------------------------------------------------------------------------------
(* Teranode: the invariant.                                                *)

Breaker == [open : BOOLEAN, busy : BOOLEAN, delay : 0 .. BackoffMax, wait : 0 .. BackoffMax,
            baseline : 0 .. MaxRestarts]

\* The types the argument needs.
Types ==
  /\ listener \in {"none", "running", "stopped"} /\ orphans \in Nat
  /\ package \in [peers : BOOLEAN, restarts : 0 .. MaxRestarts, restarted : BOOLEAN]
  /\ cb \in Breaker
  /\ run \in [Run -> {"idle", "stops", "makes", "trips"}]
  /\ stopping \in {"no", "stops", "done"}

\* A run holds the guard until disconnect() lifts it, and nothing starts after that.
OneRun ==
  /\ \A j, k \in Run : run[j] # "idle" /\ run[k] # "idle" => j = k
  /\ cb.busy => \E k \in Run : run[k] # "idle"
  /\ stopping = "no" /\ ~cb.busy => \A k \in Run : run[k] = "idle"
  /\ timer \/ due => stopping = "no" /\ ~starting

NoneRuns == orphans = 0 /\ listener # "running"

\* Nothing runs while a run of the watchdog stops or builds a listener, nor while the
\* breaker is open; an orphan is what disconnect() forgets, after which nothing starts.
NoneRunning ==
  /\ orphans \in {0, 1} /\ (orphans = 1 => stopping = "done" /\ listener # "running")
  /\ cb.open => NoneRuns
  /\ \A k \in Run : run[k] # "idle" => NoneRuns
  /\ starting => listener = "none" /\ ~cb.open /\ ~cb.busy /\ stopping = "no"

\* The inductive invariant.
BreakerInv == Types /\ OneRun /\ NoneRunning

\* The invariant holds at the start.
LEMMA BreakerInit == Init => BreakerInv
<1> SUFFICES ASSUME Init PROVE BreakerInv
  OBVIOUS
<1>1. 0 \in 0 .. BackoffMax /\ 0 \in 0 .. MaxRestarts
  BY BreakerAssumption
<1>2. cb \in Breaker
  BY <1>1 DEF Init, Breaker
<1>3. package \in [peers : BOOLEAN, restarts : 0 .. MaxRestarts, restarted : BOOLEAN]
  BY <1>1 DEF Init, Fresh
<1>4. Types
  BY <1>2, <1>3 DEF Init, Types
<1>5. OneRun /\ NoneRunning
  BY DEF Init, OneRun, NoneRunning, NoneRuns
<1> QED
  BY <1>4, <1>5 DEF BreakerInv

\* A delay doubles up to its maximum.
LEMMA BackoffType ==
  ASSUME NEW c \in Breaker
  PROVE  /\ Backoff(c) \in Breaker
         /\ Backoff(c).open = c.open /\ Backoff(c).busy = c.busy
<1>1. \A a, b \in Nat : Min({a, b}) \in Nat /\ (b <= BackoffMax => Min({a, b}) <= BackoffMax)
  BY MinOfTwo, BreakerAssumption
<1>2. c.delay \in Nat /\ BackoffBase \in Nat /\ BackoffMax \in Nat
  BY BreakerAssumption DEF Breaker
<1>3. /\ Min({BackoffBase, BackoffMax}) \in 0 .. BackoffMax
      /\ Min({2 * c.delay, BackoffMax}) \in 0 .. BackoffMax
  BY <1>1, <1>2
<1> DEFINE d == IF c.delay = 0 THEN Min({BackoffBase, BackoffMax}) ELSE Min({2 * c.delay, BackoffMax})
<1>4. d \in 0 .. BackoffMax
  BY <1>3
<1>5. Backoff(c) = [c EXCEPT !.delay = d, !.wait = d]
  BY DEF Backoff
<1> HIDE DEF d
<1> QED
  BY <1>4, <1>5 DEF Breaker

\* A listener that has just been named has no restarts.
LEMMA FreshType == Fresh \in [peers : BOOLEAN, restarts : 0 .. MaxRestarts, restarted : BOOLEAN]
<1>1. 0 \in 0 .. MaxRestarts
  BY BreakerAssumption
<1> QED
  BY <1>1 DEF Fresh

\* connect() builds the first listener before any run starts.
LEMMA ConnectStep == BreakerInv /\ Connect => BreakerInv'
<1> SUFFICES ASSUME BreakerInv, Connect PROVE BreakerInv'
  OBVIOUS
<1> USE DEF BreakerInv
<1>1. Types'
  BY FreshType DEF Connect, Types, Names, Listeners
<1>2. OneRun' /\ NoneRunning'
  BY DEF Connect, Types, OneRun, NoneRunning, NoneRuns, Names, Listeners
<1> QED
  BY <1>1, <1>2

\* A tick of the watchdog takes the guard when it starts a run, and only then stops
\* the listener.
LEMMA WatchdogStep == BreakerInv /\ WatchdogTick => BreakerInv'
<1> SUFFICES ASSUME BreakerInv, WatchdogTick PROVE BreakerInv'
  OBVIOUS
<1> USE DEF BreakerInv
<1>1. /\ due /\ due' = FALSE /\ timer' = timer /\ starting' = starting
      /\ stopping' = stopping /\ stopping = "no" /\ ~starting
  BY DEF WatchdogTick, Life, OneRun
<1>2. CASE UNCHANGED <<listener, orphans, package, run>> /\ cb' \in Breaker
           /\ cb'.open = cb.open /\ cb'.busy = cb.busy
  BY <1>1, <1>2 DEF Types, OneRun, NoneRunning, NoneRuns
<1>3. CASE /\ Idle /\ ~cb.busy /\ Stopped /\ cb' \in Breaker /\ cb'.busy
           /\ \E what \in {"stops", "makes", "trips"} : Awaits(NextRun, what)
  <2>1. NextRun \in Run
    BY <1>3 DEF Idle, NextRun
  <2>2. \A k \in Run : run[k] = "idle"
    BY <1>1, <1>3 DEF OneRun
  <2>3. PICK what \in {"stops", "makes", "trips"} : run' = [run EXCEPT ![NextRun] = what]
    BY <1>3 DEF Awaits
  <2>4. \A k \in Run : run'[k] # "idle" <=> k = NextRun
    BY <2>1, <2>2, <2>3 DEF Types
  <2>5. Types'
    BY <1>1, <1>3, <2>1, <2>3, FreshType DEF Types, Stopped
  <2>6. OneRun'
    BY <1>1, <1>3, <2>1, <2>4 DEF OneRun
  <2>7. orphans' = 0 /\ listener' # "running"
    BY <1>1, <1>3 DEF Stopped, NoneRunning, Types
  <2> QED
    BY <1>1, <2>5, <2>6, <2>7 DEF NoneRunning, NoneRuns
<1>4. cb \in Breaker
  BY DEF Types
<1>5. CASE cb.busy
  BY <1>2, <1>4, <1>5 DEF WatchdogTick, Busy, Listeners
<1>6. CASE ~cb.busy /\ cb.open
  <2>1. Idle /\ Probe
    BY <1>6 DEF WatchdogTick, Busy
  <2>2. CASE cb.wait > 0
    BY <1>2, <1>4, <2>1, <2>2 DEF Probe, Listeners
  <2>3. CASE ~(cb.wait > 0)
    <3>1. cb' = [cb EXCEPT !.busy = TRUE] /\ Stopped
          /\ \E what \in {"stops", "makes", "trips"} : Awaits(NextRun, what)
      BY <2>1, <2>3 DEF Probe
    <3>2. cb' \in Breaker /\ cb'.busy
      BY <1>4, <3>1 DEF Breaker
    <3> QED
      BY <1>3, <1>6, <2>1, <3>1, <3>2
  <2> QED
    BY <2>2, <2>3
<1>7. CASE ~cb.busy /\ ~cb.open
  <2>1. Idle /\ Poll
    BY <1>7 DEF WatchdogTick, Busy
  <2>2. CASE listener = "none"
    BY <1>2, <1>4, <2>1, <2>2 DEF Poll, Listeners
  <2>3. CASE listener # "none" /\ package.peers
    <3>1. /\ cb' = [cb EXCEPT !.baseline = package.restarts, !.delay = 0]
          /\ UNCHANGED <<listener, orphans, package, run>>
      BY <2>1, <2>3 DEF Poll, Listeners
    <3>2. package.restarts \in 0 .. MaxRestarts /\ 0 \in 0 .. BackoffMax
      BY BreakerAssumption DEF Types
    <3>3. cb' \in Breaker /\ cb'.open = cb.open /\ cb'.busy = cb.busy
      BY <1>4, <3>1, <3>2 DEF Breaker
    <3> QED
      BY <1>2, <3>1, <3>3
  <2>4. CASE listener # "none" /\ ~package.peers /\ Trips
    <3>1. /\ cb' = [Backoff(cb) EXCEPT !.open = TRUE, !.busy = TRUE] /\ Stopped
          /\ Awaits(NextRun, "trips")
      BY <2>1, <2>4 DEF Poll
    <3>2. cb' \in Breaker /\ cb'.busy
      BY <1>4, <3>1, BackoffType DEF Breaker
    <3> QED
      BY <1>3, <1>7, <2>1, <3>1, <3>2
  <2>5. CASE listener # "none" /\ ~package.peers /\ ~Trips
    BY <1>2, <1>4, <2>1, <2>5 DEF Poll, Listeners
  <2> QED
    BY <2>2, <2>3, <2>4, <2>5
<1> QED
  BY <1>5, <1>6, <1>7

\* A run's next step: only the one run that is under way builds a listener, or it finds
\* that disconnect() lifted the guard, and then nothing else runs or will be started.
LEMMA RunStep ==
  ASSUME NEW k \in Run, BreakerInv, ProbeStops(k) \/ ProbeMade(k) \/ Tripped(k)
  PROVE  BreakerInv'
<1> USE DEF BreakerInv
<1>1. /\ timer' = timer /\ due' = due /\ starting' = starting /\ stopping' = stopping
      /\ run[k] # "idle"
  BY DEF ProbeStops, ProbeMade, Tripped, Life
<1>2. \A j \in Run : j # k => run[j] = "idle"
  BY <1>1 DEF OneRun
<1>3. NoneRuns /\ ~starting
  BY <1>1 DEF NoneRunning, OneRun
<1>4. cb \in Breaker
  BY DEF Types
<1>5. CASE ProbeStops(k)
  <2>1. Types'
    BY <1>1, <1>5, FreshType DEF ProbeStops, Names, Awaits, Types
  <2>2. run' = [run EXCEPT ![k] = "makes"] /\ run \in [Run -> {"idle", "stops", "makes", "trips"}]
        /\ cb' = cb
    BY <1>5 DEF ProbeStops, Awaits, Types
  <2>3. \A j \in Run : run'[j] # "idle" <=> run[j] # "idle"
    BY <1>1, <2>2
  <2>4. OneRun'
    BY <1>1, <1>2, <2>2, <2>3 DEF OneRun
  <2>5. orphans' = 0 /\ listener' = "none"
    BY <1>3, <1>5 DEF ProbeStops, Names, NoneRuns
  <2> QED
    BY <1>1, <1>3, <2>1, <2>4, <2>5 DEF NoneRunning, NoneRuns
<1>6. CASE ProbeMade(k) \/ Tripped(k)
  <2>1. run' = [run EXCEPT ![k] = "idle"] /\ run \in [Run -> {"idle", "stops", "makes", "trips"}]
    BY <1>6 DEF ProbeMade, Tripped, Awaits, Types
  <2>2. \A j \in Run : run'[j] = "idle"
    BY <1>2, <2>1
  <2>3. cb' \in Breaker /\ ~cb'.busy
    <3>1. CASE cb' = Closed(cb)
      <4>1. 0 \in 0 .. MaxRestarts
        BY BreakerAssumption
      <4> QED
        BY <1>4, <3>1, <4>1 DEF Closed, Breaker
    <3>2. CASE cb' = [Backoff(cb) EXCEPT !.busy = FALSE]
      BY <1>4, <3>2, BackoffType DEF Breaker
    <3>3. CASE cb' = [cb EXCEPT !.busy = FALSE]
      BY <1>4, <3>3 DEF Breaker
    <3> QED
      BY <1>6, <3>1, <3>2, <3>3 DEF ProbeMade, Tripped
  <2>4. OneRun'
    BY <1>1, <2>2, <2>3 DEF OneRun
  <2>5. CASE Names("running") /\ cb' = Closed(cb)
    <3>1. orphans' = 0 /\ listener' = "running" /\ ~cb'.open
      BY <1>3, <1>4, <2>5 DEF Names, NoneRuns, Closed, Breaker
    <3>2. Types'
      BY <1>1, <2>1, <2>2, <2>3, <2>5, <3>1, FreshType DEF Names, Types
    <3> QED
      BY <1>1, <1>3, <2>2, <2>4, <3>1, <3>2 DEF NoneRunning, NoneRuns
  <2>6. CASE Listeners
    <3>1. Types'
      BY <1>1, <2>1, <2>2, <2>3, <2>6 DEF Listeners, Types
    <3> QED
      BY <1>1, <1>3, <2>2, <2>4, <2>6, <3>1 DEF NoneRunning, NoneRuns, Listeners
  <2> QED
    BY <1>6, <2>5, <2>6 DEF ProbeMade, Tripped
<1> QED
  BY <1>5, <1>6

\* disconnect() stops the listener and lifts the guard in the end, whatever a run awaits.
LEMMA DisconnectStep == BreakerInv /\ (Disconnect \/ Disconnected) => BreakerInv'
<1> SUFFICES ASSUME BreakerInv, Disconnect \/ Disconnected PROVE BreakerInv'
  OBVIOUS
<1> USE DEF BreakerInv
<1>1. cb \in Breaker /\ Reset(cb) \in Breaker /\ ~Reset(cb).open /\ ~Reset(cb).busy
  BY DEF Types, Reset, Breaker
<1>2. Types'
  BY <1>1, FreshType DEF Disconnect, Disconnected, Types, Stopped, Names
<1>3. OneRun'
  BY <1>1 DEF Disconnect, Disconnected, OneRun
<1>4. NoneRunning'
  BY <1>1 DEF Disconnect, Disconnected, Types, OneRun, NoneRunning, NoneRuns, Stopped, Names
<1> QED
  BY <1>2, <1>3, <1>4

\* What the package, the network and the clock do names no listener and starts no run.
LEMMA OtherSteps ==
  ASSUME BreakerInv,
         PeersFound \/ PeersLost \/ Restart \/ OnMessage \/ FeedChanges \/ Tick
         \/ UNCHANGED vars
  PROVE  BreakerInv'
<1> USE DEF BreakerInv
<1>1. /\ UNCHANGED <<listener, orphans, run, starting, stopping, timer>>
      /\ due' \in {due, timer}
  BY DEF PeersFound, PeersLost, Restart, OnMessage, FeedChanges, Tick, Client, Life, vars
<1>2. package' \in [peers : BOOLEAN, restarts : 0 .. MaxRestarts, restarted : BOOLEAN]
  <2>1. CASE Restart
    <3>1. package.restarts + 1 \in 0 .. MaxRestarts
      BY <2>1, BreakerAssumption DEF Restart, Types
    <3> QED
      BY <2>1, <3>1 DEF Restart, Types
  <2>2. CASE ~Restart
    BY <2>2 DEF PeersFound, PeersLost, OnMessage, FeedChanges, Tick, Client, vars, Types
  <2> QED
    BY <2>1, <2>2
<1>3. cb' \in Breaker /\ cb'.open = cb.open /\ cb'.busy = cb.busy
  <2>1. CASE Tick
    <3>1. cb.wait \in 0 .. BackoffMax /\ cb \in Breaker
      BY DEF Types, Breaker
    <3>2. (IF cb.wait = 0 THEN 0 ELSE cb.wait - 1) \in 0 .. BackoffMax
      BY <3>1, BreakerAssumption
    <3> QED
      BY <2>1, <3>1, <3>2 DEF Tick, Breaker
  <2>2. CASE ~Tick
    BY <2>2 DEF PeersFound, PeersLost, Restart, OnMessage, FeedChanges, Client, vars, Types
  <2> QED
    BY <2>1, <2>2
<1>4. Types'
  BY <1>1, <1>2, <1>3 DEF Types
<1>5. OneRun'
  BY <1>1, <1>3 DEF OneRun
<1>6. NoneRunning'
  BY <1>1, <1>3 DEF NoneRunning, NoneRuns
<1> QED
  BY <1>4, <1>5, <1>6

\* The invariant is inductive.
LEMMA BreakerStep == BreakerInv /\ [Next]_vars => BreakerInv'
<1> SUFFICES ASSUME BreakerInv, [Next]_vars PROVE BreakerInv'
  OBVIOUS
<1> QED
  BY ConnectStep, WatchdogStep, RunStep, DisconnectStep, OtherSteps DEF Next

\* One listener at most, and none while the breaker is open, which no mixture of polls,
\* probes, failures and a disconnect can break (teranode-client.js).
THEOREM TeranodeOneListener == Spec => []OneListener
<1>1. BreakerInv => OneListener
  BY DEF BreakerInv, Types, NoneRunning, NoneRuns, OneListener
<1> QED
  BY BreakerInit, BreakerStep, <1>1, PTL DEF Spec

------------------------------------------------------------------------------
(* Teranode: the churn.                                                    *)

Flags ==
  /\ enabled \in BOOLEAN /\ connected \in BOOLEAN /\ timer \in BOOLEAN
  /\ due \in BOOLEAN /\ starting \in BOOLEAN /\ feed \in BOOLEAN

\* Nothing runs that the timer does not watch.
Watched ==
  /\ due => timer
  /\ stopping = "no" /\ (listener = "running" \/ \E k \in Run : run[k] # "idle") => timer
  /\ package.peers => listener = "running"

\* The breaker counts what the listener restarted in vain; between two polls there is one
\* restart in a tick, before the poll that is due or after it.
Churn ==
  /\ barren \in Nat
  /\ starting => barren = 0 /\ cb.baseline = 0
  /\ stopping = "no" =>
       /\ barren <= TripReconnects + 1
       /\ listener = "running" =>
            /\ barren = package.restarts - cb.baseline
            /\ ~due => barren <= TripReconnects
            /\ ~package.restarted => barren <= TripReconnects
            /\ ~due /\ ~package.restarted => barren < TripReconnects

ChurnInv == Flags /\ Watched /\ Churn

\* The invariant holds at the start.
LEMMA ChurnInit == Init => ChurnInv
<1>1. Init => Flags
  BY DEF Init, Flags
<1>2. Init => Watched
  BY DEF Init, Watched, Fresh
<1>3. Init => Churn
  BY BreakerAssumption DEF Init, Churn
<1> QED
  BY <1>1, <1>2, <1>3 DEF ChurnInv

\* A poll or a probe: the poll that finds the threshold reached stops the listener.
LEMMA ChurnWatchdog == BreakerInv /\ ChurnInv /\ WatchdogTick => ChurnInv'
<1> SUFFICES ASSUME BreakerInv, ChurnInv, WatchdogTick PROVE ChurnInv'
  OBVIOUS
<1>1. /\ due /\ due' = FALSE /\ timer /\ stopping' = "no" /\ stopping = "no"
      /\ ~starting /\ UNCHANGED <<enabled, timer, starting, feed>>
  BY DEF WatchdogTick, Life, ChurnInv, Watched, BreakerInv, OneRun
<1>2. TripReconnects \in Nat \ {0}
  BY BreakerAssumption
<1>3. CASE /\ Listeners /\ UNCHANGED <<cb, connected, barren>>
           /\ listener # "running"
  <2>1. Flags'
    BY <1>1, <1>3 DEF ChurnInv, Listeners, Flags
  <2>2. Watched'
    BY <1>1, <1>3 DEF ChurnInv, Listeners, Watched
  <2>3. Churn'
    BY <1>1, <1>3 DEF ChurnInv, Listeners, Churn
  <2> QED
    BY <2>1, <2>2, <2>3 DEF ChurnInv
<1>4. CASE Stopped /\ barren' = barren /\ connected' \in BOOLEAN
  <2>1. Flags'
    BY <1>1, <1>4 DEF ChurnInv, Stopped, Fresh, Flags
  <2>2. Watched'
    BY <1>1, <1>4 DEF ChurnInv, Stopped, Fresh, Watched
  <2>3. Churn'
    BY <1>1, <1>4 DEF ChurnInv, Stopped, Fresh, Churn
  <2> QED
    BY <2>1, <2>2, <2>3 DEF ChurnInv
<1>5. CASE cb.busy
  <2>1. Listeners /\ UNCHANGED <<cb, connected, barren>>
    BY <1>5 DEF WatchdogTick, Busy
  <2>2. listener # "running"
    BY <1>5 DEF BreakerInv, OneRun, NoneRunning, NoneRuns
  <2> QED
    BY <1>3, <2>1, <2>2
<1>6. CASE ~cb.busy /\ cb.open
  <2>1. Probe
    BY <1>6 DEF WatchdogTick, Busy
  <2>2. listener # "running" /\ connected \in BOOLEAN
    BY <1>6 DEF BreakerInv, NoneRunning, NoneRuns, ChurnInv, Flags
  <2>3. CASE cb.wait > 0
    BY <1>3, <2>1, <2>2, <2>3 DEF Probe
  <2>4. CASE ~(cb.wait > 0)
    BY <1>4, <2>1, <2>2, <2>4 DEF Probe
  <2> QED
    BY <2>3, <2>4
<1>7. CASE ~cb.busy /\ ~cb.open
  <2>1. Poll
    BY <1>7 DEF WatchdogTick, Busy
  <2>2. CASE listener = "none"
    BY <1>3, <2>1, <2>2 DEF Poll
  <2>3. /\ package.peers \in BOOLEAN /\ package.restarts \in Nat /\ cb.baseline \in Nat
        /\ cb \in Breaker
    BY BreakerAssumption DEF BreakerInv, Types, Breaker
  <2>4. CASE listener # "none" /\ package.peers
    <3>1. /\ cb' = [cb EXCEPT !.baseline = package.restarts, !.delay = 0]
          /\ Listeners /\ barren' = 0 /\ connected' \in BOOLEAN
      BY <2>1, <2>3, <2>4 DEF Poll
    <3>2. cb'.baseline = package.restarts
      BY <2>3, <3>1 DEF Breaker
    <3> QED
      <4>1. Flags'
        BY <1>1, <1>2, <2>3, <3>1, <3>2 DEF ChurnInv, Listeners, Flags
      <4>2. Watched'
        BY <1>1, <1>2, <2>3, <3>1, <3>2 DEF ChurnInv, Listeners, Watched
      <4>3. Churn'
        BY <1>1, <1>2, <2>3, <3>1, <3>2 DEF ChurnInv, Listeners, Churn
      <4> QED
        BY <4>1, <4>2, <4>3 DEF ChurnInv
  <2>5. CASE listener # "none" /\ ~package.peers /\ Trips
    BY <1>4, <2>1, <2>3, <2>5 DEF Poll
  <2>6. CASE listener # "none" /\ ~package.peers /\ ~Trips
    <3>1. UNCHANGED <<cb, run>> /\ Listeners /\ barren' = barren /\ connected' \in BOOLEAN
      BY <2>1, <2>3, <2>6 DEF Poll
    <3>2. package.restarts - cb.baseline < TripReconnects
      BY <1>2, <2>3, <2>6 DEF Trips
    <3> QED
      <4>1. Flags'
        BY <1>1, <1>2, <3>1, <3>2 DEF ChurnInv, Listeners, Flags
      <4>2. Watched'
        BY <1>1, <1>2, <3>1, <3>2 DEF ChurnInv, Listeners, Watched
      <4>3. Churn'
        BY <1>1, <1>2, <3>1, <3>2 DEF ChurnInv, Listeners, Churn
      <4> QED
        BY <4>1, <4>2, <4>3 DEF ChurnInv
  <2> QED
    BY <2>2, <2>4, <2>5, <2>6
<1> QED
  BY <1>5, <1>6, <1>7

\* Building a listener starts a new count, whether connect() builds it or a probe.
LEMMA ChurnBuilds ==
  ASSUME BreakerInv, ChurnInv,
         Connect \/ \E k \in Run : ProbeStops(k) \/ ProbeMade(k) \/ Tripped(k)
  PROVE  ChurnInv'
<1>1. TripReconnects \in Nat \ {0} /\ cb \in Breaker
  BY BreakerAssumption DEF BreakerInv, Types
<1>2. CASE Connect
  <2>1. Flags'
    BY <1>2 DEF Connect, ChurnInv, Flags
  <2>2. listener = "none"
    BY <1>2 DEF Connect, BreakerInv, NoneRunning
  <2> QED
    <3>1. Flags'
      BY <1>1, <1>2, <2>1, <2>2 DEF Connect, ChurnInv, Names, Listeners, Fresh, Flags
    <3>2. Watched'
      BY <1>1, <1>2, <2>1, <2>2 DEF Connect, ChurnInv, Names, Listeners, Fresh, Watched
    <3>3. Churn'
      BY <1>1, <1>2, <2>1, <2>2 DEF Connect, ChurnInv, Names, Listeners, Fresh, Churn
    <3> QED
      BY <3>1, <3>2, <3>3 DEF ChurnInv
<1>3. ASSUME NEW k \in Run, ProbeStops(k) \/ ProbeMade(k) \/ Tripped(k) PROVE ChurnInv'
  <2>1. /\ run[k] # "idle" /\ UNCHANGED <<enabled, timer, starting, stopping, due, feed>>
        /\ connected' \in {connected, FALSE}
    BY <1>3 DEF ProbeStops, ProbeMade, Tripped, Life
  <2>2. (stopping = "no" => timer) /\ listener # "running" /\ ~starting /\ Flags'
    BY <2>1 DEF ChurnInv, Watched, Flags, BreakerInv, OneRun, NoneRunning, NoneRuns
  <2>3. CASE listener' # "running" /\ package'.peers \in {package.peers, FALSE} /\ barren' = barren
    BY <2>1, <2>2, <2>3 DEF ChurnInv, Watched, Churn
  <2>4. CASE Names("running") /\ cb' = Closed(cb) /\ barren' = 0
    <3>1. cb'.baseline = 0
      BY <1>1, <2>4 DEF Closed, Breaker
    <3> QED
      BY <1>1, <2>1, <2>2, <2>4, <3>1 DEF ChurnInv, Watched, Churn, Names, Fresh
  <2>5. CASE ProbeStops(k)
    BY <2>3, <2>5 DEF ProbeStops, Names, Fresh
  <2>6. CASE Tripped(k)
    BY <2>2, <2>3, <2>6 DEF Tripped, Listeners
  <2>7. CASE ProbeMade(k)
    BY <2>2, <2>3, <2>4, <2>7 DEF ProbeMade, Listeners
  <2> QED
    BY <1>3, <2>5, <2>6, <2>7
<1> QED
  BY <1>2, <1>3

\* The package restarts once in a tick at most, and a tick in which it did is followed by
\* a poll that is due.
LEMMA ChurnAround ==
  ASSUME BreakerInv, ChurnInv,
         \/ Disconnect \/ Disconnected \/ PeersFound \/ PeersLost \/ Restart
         \/ OnMessage \/ FeedChanges \/ Tick \/ UNCHANGED vars
  PROVE  ChurnInv'
<1>1. /\ TripReconnects \in Nat \ {0} /\ cb \in Breaker
      /\ package \in [peers : BOOLEAN, restarts : 0 .. MaxRestarts, restarted : BOOLEAN]
      /\ MaxRestarts \in Nat
  BY BreakerAssumption DEF BreakerInv, Types
<1>2. CASE Disconnect \/ Disconnected
  <2>1. /\ stopping' # "no" /\ ~package'.peers /\ barren' = barren
        /\ ~due' \/ UNCHANGED <<due, timer>>
        /\ ~starting'
    <3>1. CASE Disconnect
      BY <3>1 DEF Disconnect, Stopped, Fresh
    <3>2. CASE Disconnected
      BY <3>2 DEF Disconnected, Names, Fresh, BreakerInv, NoneRunning
    <3> QED
      BY <1>2, <3>1, <3>2
  <2>2. Flags'
    BY <1>2 DEF Disconnect, Disconnected, ChurnInv, Flags
  <2> QED
    <3>1. Flags'
      BY <2>1, <2>2 DEF ChurnInv, Flags
    <3>2. Watched'
      BY <2>1, <2>2 DEF ChurnInv, Watched
    <3>3. Churn'
      BY <2>1, <2>2 DEF ChurnInv, Churn
    <3> QED
      BY <3>1, <3>2, <3>3 DEF ChurnInv
<1>3. CASE Restart
  <2>1. /\ listener = "running" /\ ~package.peers /\ ~package.restarted
        /\ package'.restarts = package.restarts + 1 /\ package'.restarted
        /\ ~package'.peers /\ barren' = barren + 1
        /\ UNCHANGED <<enabled, listener, cb, timer, run, starting, stopping, connected, due, feed>>
    BY <1>1, <1>3 DEF Restart, Client
  <2>2. cb.baseline \in Nat /\ package.restarts \in Nat /\ ~starting
    BY <1>1, <2>1 DEF Breaker, BreakerInv, NoneRunning
  <2>3. Flags' /\ Watched'
    BY <2>1 DEF ChurnInv, Flags, Watched
  <2>4. Churn'
    BY <1>1, <2>1, <2>2 DEF ChurnInv, Churn
  <2> QED
    BY <2>3, <2>4 DEF ChurnInv
<1>4. CASE Tick
  <2>1. /\ ~due /\ due' = timer /\ package'.restarts = package.restarts /\ ~package'.restarted
        /\ package'.peers = package.peers /\ cb'.baseline = cb.baseline
        /\ UNCHANGED <<enabled, listener, timer, run, starting, stopping, connected, barren, feed>>
    BY <1>1, <1>4 DEF Tick, Life, Breaker
  <2> QED
    BY <1>1, <2>1 DEF ChurnInv, Flags, Watched, Churn
<1>5. CASE PeersFound \/ PeersLost
  <2>1. /\ package'.restarts = package.restarts /\ package'.restarted = package.restarted
        /\ package'.peers => listener = "running"
        /\ UNCHANGED <<enabled, listener, cb, timer, run, starting, stopping, connected, due,
                       barren, feed>>
    BY <1>1, <1>5 DEF PeersFound, PeersLost, Client
  <2> QED
    BY <1>1, <2>1 DEF ChurnInv, Flags, Watched, Churn
<1>6. CASE OnMessage \/ FeedChanges \/ UNCHANGED vars
  <2>1. /\ UNCHANGED <<enabled, listener, package, cb, timer, run, starting, stopping, due, barren>>
        /\ connected' \in {connected, TRUE} /\ feed' \in {feed, ~feed}
    BY <1>6 DEF OnMessage, FeedChanges, Client, vars
  <2> QED
    BY <1>1, <2>1 DEF ChurnInv, Flags, Watched, Churn
<1> QED
  BY <1>2, <1>3, <1>4, <1>5, <1>6

\* The invariants together imply the property.
LEMMA Consistent == BreakerInv /\ ChurnInv => WatchdogConsistent
<1> SUFFICES ASSUME BreakerInv, ChurnInv PROVE WatchdogConsistent
  OBVIOUS
<1>1. cb.busy => Cardinality({k \in Run : run[k] # "idle"}) = 1
  <2> SUFFICES ASSUME cb.busy PROVE Cardinality({k \in Run : run[k] # "idle"}) = 1
    OBVIOUS
  <2>1. PICK k \in Run : run[k] # "idle"
    BY DEF BreakerInv, OneRun
  <2>2. {j \in Run : run[j] # "idle"} = {k}
    BY <2>1 DEF BreakerInv, OneRun
  <2> QED
    BY <2>2, FS_Singleton
<1>2. TypeOK
  BY <1>1 DEF BreakerInv, Types, Breaker, ChurnInv, Flags, Watched, Churn, TypeOK
<1>3. ChurnBounded
  BY DEF ChurnInv, Churn, ChurnBounded
<1> QED
  BY <1>2, <1>3 DEF WatchdogConsistent

\* While the bridge is up no listener, also none that a probe has built, restarts in vain
\* more often than the threshold and once more (teranode-client.js:34).
THEOREM TeranodeChurnBounded == Spec => []WatchdogConsistent
<1>1. Init => BreakerInv /\ ChurnInv
  BY BreakerInit, ChurnInit
<1>2. BreakerInv /\ ChurnInv /\ [Next]_vars => (BreakerInv /\ ChurnInv)'
  <2> SUFFICES ASSUME BreakerInv, ChurnInv, [Next]_vars PROVE BreakerInv' /\ ChurnInv'
    OBVIOUS
  <2>1. ChurnInv'
    BY ChurnWatchdog, ChurnBuilds, ChurnAround DEF Next
  <2> QED
    BY <2>1, BreakerStep
<1> QED
  BY <1>1, <1>2, Consistent, PTL DEF Spec

------------------------------------------------------------------------------
(* NodePool: the invariant.                                                *)

Cooldown == [left : 0 .. MaxCooldown + 1, delay : 0 .. MaxCooldown]

PeerObject(n) ==
  [st : {"none", "dialing", "open", "ready", "closing", "closed"},
   timer : BOOLEAN, aged : BOOLEAN, inbound : BOOLEAN, foreign : BOOLEAN,
   syncing : BOOLEAN, asked : BOOLEAN, best : 0 .. n,
   pending : SUBSET Call, offers : SUBSET Call]

\* The pool keeps its size, and an entry has an object.
Entries ==
  /\ peers \in [Host -> Slot \cup {0}]
  /\ \A h \in Host : InPool(h) => peer[<<h, peers[h]>>].st # "none"
  /\ Cardinality({h \in Host : InPool(h)}) <= MaxPeers

\* The promise of connect() is kept by the handshake.
Objects ==
  /\ peer \in [Peer -> PeerObject(tip)]
  /\ \A p \in Peer : peer[p].timer => peer[p].st \notin {"none", "ready"}

Heights ==
  /\ plan \in Plan /\ bestHeight \in 0 .. tip /\ tip \in 0 .. plan.tip
  /\ call \in [Call -> {"idle", "waiting", "done", "failed"}] /\ target \in [Call -> 0 .. tip]

\* One maintenance at most is skipped for one under way: it takes less than
\* two intervals.
Timers ==
  /\ cooldown \in [Host -> Cooldown] /\ blacklist \subseteq Host /\ addrPool \subseteq Host
  /\ maintaining \in 0 .. 2 /\ fired \in BOOLEAN /\ half \in BOOLEAN /\ running \in BOOLEAN
  /\ fired => maintaining < 2

NodePoolInv == Entries /\ Objects /\ Heights /\ Timers

LEMMA NodePoolTypes == NodePoolInv => PoolTypeOK
BY DEF NodePoolInv, Entries, Objects, Heights, Timers, Cooldown, PeerObject, PoolTypeOK

\* What is Gone is an object like others.
LEMMA GoneIsObject == \A n \in Nat : Gone \in PeerObject(n)
BY DEF Gone, PeerObject

LEMMA NoCooldownType == NoCooldown \in Cooldown
BY PoolAssumption DEF NoCooldown, Cooldown

LEMMA NodePoolStart == PoolInit => NodePoolInv
<1> SUFFICES ASSUME PoolInit PROVE NodePoolInv
  OBVIOUS
<1>1. Entries
  <2>1. {h \in Host : InPool(h)} = {}
    BY DEF PoolInit, InPool
  <2>2. Cardinality({h \in Host : InPool(h)}) = 0
    BY <2>1, FS_EmptySet
  <2> QED
    BY <2>1, <2>2, PoolAssumption DEF PoolInit, Entries
<1>2. tip = 0 /\ plan \in Plan /\ plan.tip \in Nat
  BY PoolAssumption DEF PoolInit
<1>3. Objects
  <2>1. Gone.timer = FALSE
    BY DEF Gone
  <2> QED
    BY <1>2, <2>1, GoneIsObject DEF PoolInit, Objects
<1>4. Heights
  BY <1>2 DEF PoolInit, Heights
<1>5. Timers
  <2>1. cooldown \in [Host -> Cooldown]
    BY NoCooldownType DEF PoolInit
  <2>2. fired \in BOOLEAN /\ half \in BOOLEAN /\ running \in BOOLEAN
    BY DEF PoolInit
  <2>3. blacklist \subseteq Host /\ addrPool \subseteq Host /\ maintaining = 1
    BY DEF PoolInit
  <2> QED
    BY <2>1, <2>2, <2>3 DEF Timers
<1> QED
  BY <1>1, <1>3, <1>4, <1>5 DEF NodePoolInv

------------------------------------------------------------------------------
(* NodePool: cooldowns, heights and the size of the pool.                  *)

LEMMA MaxOfTwo ==
  ASSUME NEW a \in Nat, NEW b \in Nat
  PROVE  Max({a, b}) \in {a, b}
<1>1. \E x \in {a, b} : \A y \in {a, b} : x >= y
  <2>1. CASE a >= b
    BY <2>1
  <2>2. CASE b >= a
    BY <2>2
  <2> QED
    BY <2>1, <2>2
<1> QED
  BY <1>1 DEF Max

\* A cooldown doubles up to its maximum.
LEMMA CoolingType ==
  ASSUME NEW c \in Cooldown, NEW ban \in BOOLEAN
  PROVE  Cooling(c, ban) \in Cooldown
<1>1. c.delay \in Nat /\ MaxCooldown \in Nat \ {0} /\ 2 * c.delay \in Nat
  BY PoolAssumption DEF Cooldown
<1>2. Min({2 * c.delay, MaxCooldown}) \in Nat /\ Min({2 * c.delay, MaxCooldown}) <= MaxCooldown
  BY <1>1, MinOfTwo
<1> DEFINE d == IF ban THEN MaxCooldown ELSE IF c.delay = 0 THEN 1 ELSE Min({2 * c.delay, MaxCooldown})
<1>3. d \in 0 .. MaxCooldown
  BY <1>1, <1>2
<1>4. Cooling(c, ban) = [left |-> d + 1, delay |-> d]
  BY DEF Cooling
<1> HIDE DEF d
<1> QED
  BY <1>1, <1>3, <1>4 DEF Cooldown

\* A pool from which hosts are dropped keeps its size.
LEMMA SizeKept ==
  ASSUME Entries, NEW S, S \subseteq {h \in Host : InPool(h)}
  PROVE  Cardinality(S) <= MaxPeers
<1> DEFINE T == {h \in Host : InPool(h)}
<1>1. IsFiniteSet(T)
  BY PoolAssumption, FS_Subset
<1>2. Cardinality(S) <= Cardinality(T) /\ Cardinality(S) \in Nat /\ Cardinality(T) \in Nat
  BY <1>1, FS_Subset, FS_CardinalityType
<1>3. Cardinality(T) <= MaxPeers
  BY DEF Entries
<1> HIDE DEF T
<1> QED
  BY <1>2, <1>3, PoolAssumption

\* There is room for what is free, and never less than none.
LEMMA RoomIsFree ==
  ASSUME Entries
  PROVE  Room \in Nat /\ Cardinality({h \in Host : InPool(h)}) = MaxPeers - Room
<1> DEFINE n == Cardinality({h \in Host : InPool(h)})
<1>1. n \in Nat
  BY PoolAssumption, FS_Subset, FS_CardinalityType
<1>2. n <= MaxPeers /\ Room = MaxPeers - n
  BY DEF Entries, Room
<1> HIDE DEF n
<1>3. Room \in Nat /\ n = MaxPeers - Room
  BY <1>1, <1>2, PoolAssumption
<1> QED
  BY <1>3 DEF n

\* What a step that only drops hosts, and empties no object of the others, keeps.
LEMMA DropKeeps ==
  ASSUME Entries, peers' \in [Host -> Slot \cup {0}],
         \A h \in Host : peers'[h] = peers[h] \/ peers'[h] = 0,
         \A h \in Host : InPool(h) /\ peers'[h] = peers[h] /\ peer[<<h, peers[h]>>].st # "none"
                         => peer'[<<h, peers[h]>>].st # "none"
  PROVE  Entries'
<1>1. {h \in Host : InPool(h)'} \subseteq {h \in Host : InPool(h)}
  BY DEF InPool
<1>2. Cardinality({h \in Host : InPool(h)'}) <= MaxPeers
  BY <1>1, SizeKept
<1>3. ASSUME NEW h \in Host, InPool(h)' PROVE peer'[<<h, peers'[h]>>].st # "none"
  <2>1. peers'[h] = peers[h] /\ InPool(h)
    BY <1>3 DEF InPool
  <2> QED
    BY <2>1 DEF Entries
<1> QED
  BY <1>2, <1>3 DEF Entries

\* New entries get a free slot, and there are at most as many as there is room for.
LEMMA CreatedKeeps ==
  ASSUME Entries, Objects, NEW hosts \in SUBSET Host, NEW st \in {"dialing", "open"},
         NEW inbound \in BOOLEAN, tip' = tip, tip \in Nat,
         \A h \in hosts : ~InPool(h) /\ Free(h) # {},
         Cardinality(hosts) <= Room, Created(hosts, st, inbound)
  PROVE  Entries' /\ Objects'
<1>1. \A h \in hosts : NewSlot(h) \in Slot /\ <<h, NewSlot(h)>> \in Peer
  BY DEF NewSlot, Free, Peer
<1>2. NewPeer(st, inbound) \in PeerObject(tip) /\ NewPeer(st, inbound).st = st
  <2>1. Gone \in PeerObject(tip)
    BY GoneIsObject
  <2> QED
    BY <2>1 DEF NewPeer, PeerObject
<1>3. \A p \in Peer : p[1] \in Host
  BY DEF Peer
<1>4. /\ peers' = [h \in Host |-> IF h \in hosts THEN NewSlot(h) ELSE peers[h]]
      /\ peer'  = [p \in Peer |-> IF p[1] \in hosts /\ p[2] = NewSlot(p[1])
                                 THEN NewPeer(st, inbound) ELSE peer[p]]
  BY DEF Created
<1>5. Objects'
  BY <1>2, <1>4 DEF Objects
<1>6. peers' \in [Host -> Slot \cup {0}]
  BY <1>1, <1>4 DEF Entries
<1>7. ASSUME NEW h \in Host, InPool(h)' PROVE peer'[<<h, peers'[h]>>].st # "none"
  <2>1. CASE h \in hosts
    <3>1. peers'[h] = NewSlot(h) /\ peer'[<<h, NewSlot(h)>>] = NewPeer(st, inbound)
      BY <2>1, <1>1, <1>4
    <3> QED
      BY <3>1, <1>2
  <2>2. CASE h \notin hosts
    <3>1. peers'[h] = peers[h] /\ InPool(h) /\ peers[h] \in Slot
      BY <2>2, <1>4, <1>7 DEF InPool, Entries
    <3>2. <<h, peers[h]>> \in Peer /\ peer'[<<h, peers[h]>>] = peer[<<h, peers[h]>>]
      BY <2>2, <3>1, <1>4 DEF Peer
    <3> QED
      BY <3>1, <3>2 DEF Entries
  <2> QED
    BY <2>1, <2>2
<1>8. Cardinality({h \in Host : InPool(h)'}) <= MaxPeers
  <2> DEFINE T == {h \in Host : InPool(h)}
  <2>1. {h \in Host : InPool(h)'} = T \cup hosts
    <3>1. \A h \in hosts : NewSlot(h) # 0
      BY <1>1, PoolAssumption
    <3> QED
      BY <3>1, <1>4 DEF InPool
  <2>2. IsFiniteSet(T) /\ IsFiniteSet(hosts) /\ T \cap hosts = {}
    BY PoolAssumption, FS_Subset
  <2>3. Cardinality(T \cup hosts) = Cardinality(T) + Cardinality(hosts)
    <3>1. Cardinality(T \cap hosts) = 0
      BY <2>2, FS_EmptySet
    <3>2. Cardinality(T) \in Nat /\ Cardinality(hosts) \in Nat
      BY <2>2, FS_CardinalityType
    <3> HIDE DEF T
    <3>3. Cardinality(T \cup hosts) = Cardinality(T) + Cardinality(hosts) - Cardinality(T \cap hosts)
      BY <2>2, FS_Union
    <3> QED
      BY <3>1, <3>2, <3>3
  <2>4. Room \in Nat /\ Cardinality(T) = MaxPeers - Room
    BY RoomIsFree
  <2>5. Cardinality(hosts) \in Nat /\ Cardinality(hosts) <= Room
    BY <2>2, FS_CardinalityType
  <2> HIDE DEF T
  <2>6. Cardinality(T \cup hosts) <= MaxPeers
    BY <2>3, <2>4, <2>5, PoolAssumption
  <2> QED
    BY <2>1, <2>6
<1> QED
  BY <1>5, <1>6, <1>7, <1>8 DEF Entries

LEMMA ConnectKeeps ==
  ASSUME Entries, Objects, NEW hosts, tip' = tip, tip \in Nat, ConnectToPeers(hosts),
         hosts \subseteq Host
  PROVE  Entries' /\ Objects'
<1> DEFINE candidates == {h \in hosts : Dialable(h)}
           n == Min({Cardinality(candidates), Room})
<1>1. PICK batch \in kSubset(n, candidates) : Created(batch, "dialing", FALSE)
  BY DEF ConnectToPeers
<1>2. batch \subseteq candidates /\ Cardinality(batch) = n
  BY <1>1 DEF kSubset
<1>3. IsFiniteSet(candidates) /\ Cardinality(candidates) \in Nat
  BY PoolAssumption, FS_Subset, FS_CardinalityType
<1>4. n <= Room
  BY <1>3, RoomIsFree, MinOfTwo
<1>5. batch \in SUBSET Host /\ \A h \in batch : ~InPool(h) /\ Free(h) # {}
  BY <1>2 DEF Dialable
<1>6. Cardinality(batch) <= Room
  BY <1>2, <1>4
<1> HIDE DEF candidates, n
<1> QED
  BY <1>1, <1>5, <1>6, CreatedKeeps

\* What a step of one object keeps that may drop its host from the pool.
LEMMA OnePeer ==
  ASSUME Entries, Objects, NEW p \in Peer, NEW r \in PeerObject(tip),
         r.timer => r.st \notin {"none", "ready"},
         peer' = [peer EXCEPT ![p] = r], tip' = tip,
         (peers' = peers /\ r.st # "none") \/ Drop(p[1])
  PROVE  Entries' /\ Objects'
<1>1. Objects'
  BY DEF Objects
<1>2. PICK h \in Host, s \in Slot : p = <<h, s>>
  BY DEF Peer
<1>3. \A q \in Peer : q # p => peer'[q] = peer[q]
  BY DEF Objects
<1>4. \A g \in Host : InPool(g) => <<g, peers[g]>> \in Peer
  BY DEF InPool, Entries, Peer
<1>5. CASE peers' = peers /\ r.st # "none"
  <2>1. peer'[p] = r
    BY DEF Objects
  <2>2. \A g \in Host : InPool(g) /\ peer[<<g, peers[g]>>].st # "none" => peer'[<<g, peers[g]>>].st # "none"
    BY <1>3, <1>4, <1>5, <2>1
  <2> QED
    BY <1>1, <1>5, <2>2, DropKeeps DEF Entries
<1>6. CASE Drop(p[1])
  <2>1. peers' = [peers EXCEPT ![h] = 0]
    BY <1>2, <1>6 DEF Drop
  <2>2. peers' \in [Host -> Slot \cup {0}] /\ \A g \in Host : peers'[g] = peers[g] \/ peers'[g] = 0
    BY <2>1 DEF Entries
  <2>3. ASSUME NEW g \in Host, InPool(g), peers'[g] = peers[g], peer[<<g, peers[g]>>].st # "none"
        PROVE  peer'[<<g, peers[g]>>].st # "none"
    <3>1. g # h
      BY <2>1, <2>3 DEF InPool, Entries
    <3>2. <<g, peers[g]>> # p
      BY <3>1, <1>2
    <3> QED
      BY <3>2, <1>3, <1>4, <2>3
  <2> QED
    BY <1>1, <2>2, <2>3, DropKeeps
<1> QED
  BY <1>5, <1>6

------------------------------------------------------------------------------
(* NodePool: each action keeps the invariant.                              *)

LEMMA TipType == ASSUME Heights PROVE tip \in Nat /\ plan.tip \in Nat
BY PoolAssumption DEF Heights

\* The discovery, what nodes name and who dials us.
LEMMA DialSteps ==
  ASSUME NodePoolInv,
         MaintainPeers \/ DiscoverPeers \/ (\E h \in Host : AcceptInbound(h) \/ \E p \in Peer : OnAddr(p, h))
  PROVE  NodePoolInv'
<1> USE DEF NodePoolInv
<1>0. tip \in Nat /\ plan.seeds \subseteq Host
  BY TipType, PoolAssumption DEF Heights
<1>1. CASE MaintainPeers
  <2>0. Objects' /\ Heights'
    BY <1>1 DEF MaintainPeers, Objects, Heights
  <2>1. Timers'
    <3>1. maintaining \in 0 .. 2 /\ maintaining < 2
      BY <1>1 DEF MaintainPeers, Timers
    <3>2. maintaining' = IF maintaining > 0 THEN maintaining + 1 ELSE 1
      BY <1>1 DEF MaintainPeers
    <3>3. maintaining' \in 0 .. 2
      BY <3>1, <3>2
    <3>4. fired' = FALSE /\ UNCHANGED <<cooldown, blacklist, addrPool, half, running>>
      BY <1>1 DEF MaintainPeers
    <3> QED
      BY <3>3, <3>4 DEF Timers
  <2>2. peer' = peer /\ peers' \in [Host -> Slot \cup {0}]
        /\ \A h \in Host : peers'[h] = peers[h] \/ peers'[h] = 0
    BY <1>1 DEF MaintainPeers, Entries
  <2>3. Entries'
    BY <2>2, DropKeeps
  <2> QED
    BY <2>0, <2>1, <2>3
<1>2. CASE DiscoverPeers
  <2>1. Heights' /\ Timers' /\ tip' = tip
    BY <1>2 DEF DiscoverPeers, Heights, Timers
  <2>2. Known \subseteq Host
    BY <1>0 DEF Known, Timers
  <2>3. CASE running
    BY <1>0, <1>2, <2>1, <2>2, <2>3, ConnectKeeps DEF DiscoverPeers
  <2>4. CASE ~running
    <3>1. UNCHANGED <<peers, peer>>
      BY <1>2, <2>4 DEF DiscoverPeers
    <3>2. Entries' /\ Objects'
      BY <2>1, <3>1 DEF Entries, Objects, InPool
    <3> QED
      BY <2>1, <3>2
  <2> QED
    BY <2>3, <2>4
<1>3. ASSUME NEW h \in Host, AcceptInbound(h) PROVE NodePoolInv'
  <2>1. Heights' /\ Timers' /\ tip' = tip
    BY <1>3 DEF AcceptInbound, Heights, Timers
  <2>2. ~InPool(h) /\ Free(h) # {} /\ Room > 0 /\ Created({h}, "open", TRUE)
    BY <1>3 DEF AcceptInbound
  <2>3. Cardinality({h}) = 1 /\ Room \in Nat
    BY FS_Singleton, RoomIsFree
  <2>4. Cardinality({h}) <= Room
    BY <2>2, <2>3
  <2>5. Entries' /\ Objects'
    BY <1>0, <2>1, <2>2, <2>4, CreatedKeeps
  <2> QED
    BY <2>1, <2>5
<1>4. ASSUME NEW h \in Host, NEW p \in Peer, OnAddr(p, h) PROVE NodePoolInv'
  <2>1. Heights' /\ Timers' /\ tip' = tip
    BY <1>4 DEF OnAddr, Heights, Timers
  <2>3. CASE running
    BY <1>0, <1>4, <2>1, <2>3, ConnectKeeps DEF OnAddr
  <2>4. CASE ~running
    <3>1. UNCHANGED <<peers, peer>>
      BY <1>4, <2>4 DEF OnAddr
    <3>2. Entries' /\ Objects'
      BY <2>1, <3>1 DEF Entries, Objects, InPool
    <3> QED
      BY <2>1, <3>2
  <2> QED
    BY <2>3, <2>4
<1> QED
  BY <1>1, <1>2, <1>3, <1>4

\* What the steps of a peer leave alone.
LEMMA KeepTimers ==
  ASSUME Timers, Keep, cooldown' \in [Host -> Cooldown], blacklist' \subseteq Host
  PROVE  Timers'
BY DEF Timers, Keep

LEMMA KeepHeights ==
  ASSUME Heights, Keep, bestHeight' \in 0 .. tip,
         call' \in [Call -> {"idle", "waiting", "done", "failed"}]
  PROVE  Heights'
BY DEF Heights, Keep

\* A failed dial starts a cooldown.
LEMMA CaughtType ==
  ASSUME Timers, NEW p \in Peer, Caught(p)
  PROVE  cooldown' \in [Host -> Cooldown] /\ Drop(p[1])
<1>1. p[1] \in Host
  BY DEF Peer
<1>2. Cooling(cooldown[p[1]], FALSE) \in Cooldown
  BY <1>1, CoolingType DEF Timers
<1> QED
  BY <1>1, <1>2 DEF Caught, Timers

\* The handshake and its timer.
LEMMA HandshakeSteps ==
  ASSUME NodePoolInv, NEW p \in Peer,
         OnConnect(p) \/ OnError(p) \/ OnTimeout(p) \/ OnVersion(p) \/ OnVerack(p)
  PROVE  NodePoolInv'
<1> USE DEF NodePoolInv
<1>0. /\ tip' = tip /\ Keep /\ bestHeight' = bestHeight /\ call' = call /\ blacklist' = blacklist
  BY DEF OnConnect, OnError, OnTimeout, OnVersion, OnVerack, Keep
<1>1. Heights'
  BY <1>0, KeepHeights DEF Heights
<1>2. peer[p] \in PeerObject(tip) /\ p[1] \in Host
      /\ (peer[p].timer => peer[p].st \notin {"none", "ready"})
  BY DEF Objects, Peer
<1>3. ASSUME NEW r \in PeerObject(tip), r.timer => r.st \notin {"none", "ready"},
             peer' = [peer EXCEPT ![p] = r], (peers' = peers /\ r.st # "none") \/ Drop(p[1]),
             cooldown' \in [Host -> Cooldown]
      PROVE  NodePoolInv'
  <2>1. Entries' /\ Objects'
    BY <1>0, <1>3, OnePeer
  <2>2. Timers'
    BY <1>0, <1>3, KeepTimers DEF Timers
  <2> QED
    BY <1>1, <2>1, <2>2
<1>4. CASE OnConnect(p)
  <2> DEFINE r == [peer[p] EXCEPT !.st = "open"]
  <2>1. r \in PeerObject(tip) /\ r.st = "open"
    BY <1>2 DEF PeerObject
  <2>2. peer' = [peer EXCEPT ![p] = r] /\ peers' = peers /\ cooldown' = cooldown
    BY <1>4 DEF OnConnect
  <2> HIDE DEF r
  <2> QED
    BY <2>1, <2>2, <1>3 DEF Timers
<1>5. CASE OnError(p)
  <2> DEFINE r == [peer[p] EXCEPT !.st = "closing", !.timer = FALSE]
  <2>1. r \in PeerObject(tip) /\ r.st = "closing"
    BY <1>2 DEF PeerObject
  <2>2. peer' = [peer EXCEPT ![p] = r] /\ Caught(p)
    BY <1>5 DEF OnError
  <2> HIDE DEF r
  <2> QED
    BY <2>1, <2>2, <1>3, CaughtType
<1>6. CASE OnTimeout(p)
  <2> DEFINE r == IF peer[p].st = "closed" THEN Gone
                  ELSE [peer[p] EXCEPT !.st = "closing", !.timer = FALSE, !.aged = TRUE]
  <2>1. Gone \in PeerObject(tip) /\ Gone.timer = FALSE
    BY TipType, GoneIsObject DEF Gone
  <2>2. r \in PeerObject(tip) /\ (r.timer => r.st \notin {"none", "ready"})
    BY <1>2, <2>1 DEF PeerObject
  <2>3. peer' = [peer EXCEPT ![p] = r] /\ Caught(p)
    BY <1>6 DEF OnTimeout
  <2> HIDE DEF r
  <2> QED
    BY <2>2, <2>3, <1>3, CaughtType
<1>7. CASE OnVersion(p)
  <2> DEFINE r == [peer[p] EXCEPT !.st = "closing", !.foreign = TRUE]
  <2>1. r \in PeerObject(tip) /\ r.st = "closing"
    BY <1>2 DEF PeerObject
  <2>2. peer' = [peer EXCEPT ![p] = r] /\ peers' = peers /\ cooldown' = cooldown
    BY <1>7 DEF OnVersion
  <2> HIDE DEF r
  <2> QED
    BY <2>1, <2>2, <1>3 DEF Timers
<1>8. CASE OnVerack(p)
  <2> DEFINE r == [peer[p] EXCEPT !.st = "ready", !.timer = FALSE, !.syncing = TRUE, !.asked = TRUE]
  <2>1. r \in PeerObject(tip) /\ r.st = "ready" /\ r.timer = FALSE
    BY <1>2 DEF PeerObject
  <2>2. peer' = [peer EXCEPT ![p] = r] /\ peers' = peers
    BY <1>8 DEF OnVerack
  <2>3. cooldown' \in [Host -> Cooldown]
    BY <1>2, <1>8, NoCooldownType DEF OnVerack, Timers
  <2> HIDE DEF r
  <2> QED
    BY <2>1, <2>2, <2>3, <1>3
<1> QED
  BY <1>4, <1>5, <1>6, <1>7, <1>8

\* The end of a socket.
LEMMA CloseSteps ==
  ASSUME NodePoolInv, NEW p \in Peer, OnClose(p) \/ Break(p)
  PROVE  NodePoolInv'
<1> USE DEF NodePoolInv
<1>1. OnDisconnect(p) /\ tip \in Nat /\ p[1] \in Host
  BY TipType DEF OnClose, Break, Peer
<1>2. Keep /\ bestHeight' = bestHeight /\ call' = Released(p) /\ tip' = tip
  BY <1>1 DEF OnDisconnect, Keep
<1>3. Heights'
  <2>1. Released(p) \in [Call -> {"idle", "waiting", "done", "failed"}]
    BY DEF Released, Heights
  <2> QED
    BY <1>2, <2>1, KeepHeights DEF Heights
<1>4. blacklist' \subseteq Host
  BY <1>1 DEF OnDisconnect, Timers
<1>5. cooldown' \in [Host -> Cooldown]
  <2>1. \A ban \in BOOLEAN : Cooling(cooldown[p[1]], ban) \in Cooldown
    BY <1>1, CoolingType DEF Timers
  <2>2. cooldown' = cooldown
        \/ \E ban \in BOOLEAN : cooldown' = [cooldown EXCEPT ![p[1]] = Cooling(@, ban)]
    BY <1>1 DEF OnDisconnect
  <2> QED
    BY <1>1, <2>1, <2>2 DEF Timers
<1>6. Timers'
  BY <1>2, <1>4, <1>5, KeepTimers
<1> DEFINE r == IF peer[p].timer THEN [Gone EXCEPT !.st = "closed", !.timer = TRUE, !.aged = peer[p].aged,
                                                   !.inbound = peer[p].inbound]
                ELSE Gone
<1>7. r \in PeerObject(tip) /\ (r.timer => r.st \notin {"none", "ready"})
  <2>1. Gone \in PeerObject(tip) /\ Gone.timer = FALSE
    BY <1>1, GoneIsObject DEF Gone
  <2>2. peer[p] \in PeerObject(tip)
    BY DEF Objects
  <2> QED
    BY <2>1, <2>2 DEF PeerObject
<1>8. peer' = [peer EXCEPT ![p] = r] /\ Drop(p[1])
  BY <1>1 DEF OnDisconnect
<1> HIDE DEF r
<1>9. Entries' /\ Objects'
  BY <1>2, <1>7, <1>8, OnePeer
<1> QED
  BY <1>3, <1>6, <1>9

\* Headers: what follows a peer's best one never passes the tip.
LEMMA HeaderSteps ==
  ASSUME NodePoolInv, NEW p \in Peer, SyncHeaders(p) \/ OnInv(p) \/ OnHeaders(p)
  PROVE  NodePoolInv'
<1> USE DEF NodePoolInv
<1>0. tip' = tip /\ Keep /\ peers' = peers /\ blacklist' = blacklist /\ tip \in Nat
  BY TipType DEF SyncHeaders, OnInv, AskHeaders, OnHeaders, Keep
<1>1. /\ peer[p] \in PeerObject(tip) /\ peer[p].st = "ready" /\ p[1] \in Host
      /\ (peer[p].timer => peer[p].st \notin {"none", "ready"})
  BY DEF Objects, Peer, SyncHeaders, OnInv, AskHeaders, OnHeaders
<1>2. CASE SyncHeaders(p) \/ OnInv(p)
  <2> DEFINE r == [peer[p] EXCEPT !.syncing = TRUE, !.asked = TRUE]
  <2>1. r \in PeerObject(tip) /\ r.st = "ready" /\ r.timer = FALSE
    BY <1>1 DEF PeerObject
  <2>2. peer' = [peer EXCEPT ![p] = r] /\ UNCHANGED <<cooldown, bestHeight, call>>
    BY <1>2 DEF SyncHeaders, OnInv, AskHeaders
  <2> HIDE DEF r
  <2>3. Entries' /\ Objects'
    BY <1>0, <2>1, <2>2, OnePeer
  <2>4. Timers' /\ Heights'
    BY <1>0, <2>2, KeepTimers, KeepHeights DEF Timers, Heights
  <2> QED
    BY <2>3, <2>4
<1>3. CASE OnHeaders(p)
  <2> DEFINE n == Following(peer[p])
             r == Received(peer[p], n)
  <2>1. n \in Nat /\ peer[p].best + n \in 0 .. tip
    <3>1. peer[p].best \in 0 .. tip
      BY <1>1 DEF PeerObject
    <3>2. tip - peer[p].best \in Nat /\ Batch \in Nat
      BY <3>1, <1>0, PoolAssumption
    <3>3. n \in {Batch, tip - peer[p].best} /\ n <= tip - peer[p].best
      BY <3>2, MinOfTwo DEF Following
    <3> HIDE DEF n
    <3> QED
      BY <3>1, <3>2, <3>3, <1>0
  <2>2. r \in PeerObject(tip) /\ r.st = "ready" /\ r.timer = FALSE
    <3>1. (n >= Batch) \in BOOLEAN
      OBVIOUS
    <3> HIDE DEF n
    <3> QED
      BY <1>1, <2>1, <3>1 DEF Received, PeerObject
  <2>3. /\ peer' = [peer EXCEPT ![p] = r] /\ bestHeight' = Max({bestHeight, peer[p].best + n})
        /\ UNCHANGED <<cooldown, call>> \/ /\ cooldown' = [cooldown EXCEPT ![p[1]] = NoCooldown]
                                           /\ call' = Synced(bestHeight')
    BY <1>3 DEF OnHeaders
  <2> HIDE DEF n, r
  <2>4. Entries' /\ Objects'
    BY <1>0, <2>2, <2>3, OnePeer
  <2>5. bestHeight' \in 0 .. tip
    <3>1. bestHeight \in 0 .. tip /\ bestHeight \in Nat /\ peer[p].best + n \in Nat
      BY <2>1, <1>0 DEF Heights
    <3> QED
      BY <2>1, <2>3, <3>1, MaxOfTwo
  <2>6. call' \in [Call -> {"idle", "waiting", "done", "failed"}]
    BY <2>3 DEF Synced, Heights
  <2>7. cooldown' \in [Host -> Cooldown]
    BY <2>3, <1>1, NoCooldownType DEF Timers
  <2>8. Heights'
    BY <1>0, <2>5, <2>6, KeepHeights
  <2>9. Timers'
    BY <1>0, <2>7, KeepTimers DEF Timers
  <2> QED
    BY <2>4, <2>8, <2>9
<1> QED
  BY <1>2, <1>3

\* Calls: a result for each, and what a peer is asked for.
LEMMA CallFrame ==
  ASSUME NodePoolInv, UNCHANGED <<plan, pool, bestHeight, tip>>,
         call' \in [Call -> {"idle", "waiting", "done", "failed"}], target' \in [Call -> 0 .. tip],
         peer' \in [Peer -> PeerObject(tip)],
         \A p \in Peer : peer'[p].st = peer[p].st /\ peer'[p].timer = peer[p].timer
  PROVE  NodePoolInv'
<1> USE DEF NodePoolInv
<1>1. Heights' /\ Timers' /\ tip' = tip /\ peers' = peers
  BY DEF Heights, Timers, pool
<1>2. Objects'
  BY <1>1 DEF Objects
<1>3. \A h \in Host : InPool(h) => <<h, peers[h]>> \in Peer
  BY DEF InPool, Entries, Peer
<1>4. \A h \in Host : InPool(h) /\ peer[<<h, peers[h]>>].st # "none" => peer'[<<h, peers[h]>>].st # "none"
  BY <1>3
<1>5. Entries'
  BY <1>1, <1>4, DropKeeps DEF Entries
<1> QED
  BY <1>1, <1>2, <1>5

LEMMA CallSteps ==
  ASSUME NodePoolInv, NEW i \in Call,
         \/ GetTx(i) \/ BroadcastTxAndWait(i) \/ BroadcastTimeout(i) \/ WaitForSync(i) \/ SyncTimeout(i)
         \/ \E p \in Peer : \/ OnTx(p, i) \/ OnNotfound(p, i) \/ GetTxTimeout(p, i)
                            \/ OnGetdata(p, i) \/ OfferExpires(p, i)
  PROVE  NodePoolInv'
<1> USE DEF NodePoolInv
<1>0. /\ peer \in [Peer -> PeerObject(tip)] /\ tip \in Nat
      /\ call \in [Call -> {"idle", "waiting", "done", "failed"}] /\ target \in [Call -> 0 .. tip]
  BY TipType DEF Objects, Heights
<1>1. \A st \in {"idle", "waiting", "done", "failed"} :
        Settle(i, st) => call' \in [Call -> {"idle", "waiting", "done", "failed"}]
  BY <1>0 DEF Settle
<1>2. ASSUME call' \in [Call -> {"idle", "waiting", "done", "failed"}], peer' = peer, Others
      PROVE  NodePoolInv'
  BY <1>0, <1>2, CallFrame DEF Others
<1>3. ASSUME NEW p \in Peer, NEW r \in PeerObject(tip), r.st = peer[p].st, r.timer = peer[p].timer,
             call' \in [Call -> {"idle", "waiting", "done", "failed"}],
             peer' = [peer EXCEPT ![p] = r], Others
      PROVE  NodePoolInv'
  <2>1. /\ peer' \in [Peer -> PeerObject(tip)]
        /\ \A q \in Peer : peer'[q].st = peer[q].st /\ peer'[q].timer = peer[q].timer
    BY <1>0, <1>3
  <2> QED
    BY <1>0, <1>3, <2>1, CallFrame DEF Others
<1>4. ASSUME NEW p \in Peer, NEW S \in SUBSET Call
      PROVE  /\ [peer[p] EXCEPT !.pending = S] \in PeerObject(tip)
             /\ [peer[p] EXCEPT !.pending = S].st = peer[p].st
             /\ [peer[p] EXCEPT !.pending = S].timer = peer[p].timer
             /\ [peer[p] EXCEPT !.offers = S] \in PeerObject(tip)
             /\ [peer[p] EXCEPT !.offers = S].st = peer[p].st
             /\ [peer[p] EXCEPT !.offers = S].timer = peer[p].timer
  <2>1. peer[p] \in PeerObject(tip)
    BY <1>0
  <2> QED
    BY <2>1 DEF PeerObject
<1>5. \A p \in Peer : peer[p].offers \subseteq Call
  BY <1>0 DEF PeerObject
<1>6. CASE GetTx(i)
  <2>1. CASE Settle(i, "failed") /\ UNCHANGED peer
    BY <1>1, <1>2, <1>6, <2>1 DEF GetTx
  <2>2. ASSUME NEW p \in ReadyPeers, Fetch(p, i) PROVE NodePoolInv'
    <3>1. p \in Peer /\ Others
      BY <1>6 DEF ReadyPeers, Ready, GetTx
    <3>2. CASE Settle(i, "failed") /\ UNCHANGED peer
      BY <1>1, <1>2, <3>1, <3>2
    <3>3. CASE Settle(i, "waiting") /\ peer' = [peer EXCEPT ![p].pending = {i}]
      <4> DEFINE r == [peer[p] EXCEPT !.pending = {i}]
      <4>1. r \in PeerObject(tip) /\ r.st = peer[p].st /\ r.timer = peer[p].timer
        BY <1>4, <3>1
      <4>2. peer' = [peer EXCEPT ![p] = r]
        BY <3>3
      <4>3. call' \in [Call -> {"idle", "waiting", "done", "failed"}]
        BY <1>1, <3>3
      <4> HIDE DEF r
      <4> QED
        BY <1>3, <3>1, <4>1, <4>2, <4>3
    <3> QED
      BY <2>2, <3>2, <3>3 DEF Fetch
  <2> QED
    BY <1>6, <2>1, <2>2 DEF GetTx
<1>7. CASE BroadcastTxAndWait(i)
  <2>1. call' \in [Call -> {"idle", "waiting", "done", "failed"}]
    BY <1>0, <1>7 DEF BroadcastTxAndWait, Settle
  <2>2. peer' = [p \in Peer |-> IF p \in ReadyPeers THEN [peer[p] EXCEPT !.offers = peer[p].offers \cup {i}]
                                ELSE peer[p]]
    BY <1>7 DEF BroadcastTxAndWait
  <2>3. \A p \in Peer : peer[p].offers \cup {i} \in SUBSET Call
    BY <1>5
  <2>4. /\ peer' \in [Peer -> PeerObject(tip)]
        /\ \A p \in Peer : peer'[p].st = peer[p].st /\ peer'[p].timer = peer[p].timer
    BY <1>0, <1>4, <2>2, <2>3
  <2> QED
    BY <1>0, <1>7, <2>1, <2>4, CallFrame DEF BroadcastTxAndWait, Others
<1>8. CASE BroadcastTimeout(i) \/ SyncTimeout(i)
  BY <1>1, <1>2, <1>8 DEF BroadcastTimeout, SyncTimeout
<1>9. CASE WaitForSync(i)
  <2>1. UNCHANGED <<plan, pool, bestHeight, tip, peer>>
    BY <1>9 DEF WaitForSync
  <2>2. call' \in [Call -> {"idle", "waiting", "done", "failed"}] /\ target' \in [Call -> 0 .. tip]
    BY <1>0, <1>9 DEF WaitForSync, Settle
  <2> QED
    BY <1>0, <2>1, <2>2, CallFrame
<1>10. ASSUME NEW p \in Peer, OnTx(p, i) \/ OnNotfound(p, i) \/ GetTxTimeout(p, i) PROVE NodePoolInv'
  <2> DEFINE r == [peer[p] EXCEPT !.pending = {}]
  <2>1. r \in PeerObject(tip) /\ r.st = peer[p].st /\ r.timer = peer[p].timer
    BY <1>4
  <2>2. /\ peer' = [peer EXCEPT ![p] = r] /\ Others
        /\ Settle(i, "done") \/ Settle(i, "failed")
    BY <1>10 DEF OnTx, OnNotfound, GetTxTimeout, FetchEnds
  <2>3. call' \in [Call -> {"idle", "waiting", "done", "failed"}]
    BY <1>1, <2>2
  <2> HIDE DEF r
  <2> QED
    BY <1>3, <2>1, <2>2, <2>3
<1>11. ASSUME NEW p \in Peer, OnGetdata(p, i) \/ OfferExpires(p, i) PROVE NodePoolInv'
  <2> DEFINE r == [peer[p] EXCEPT !.offers = peer[p].offers \ {i}]
  <2>1. r \in PeerObject(tip) /\ r.st = peer[p].st /\ r.timer = peer[p].timer
    BY <1>4, <1>5
  <2>2. peer' = [peer EXCEPT ![p] = r] /\ Others
    BY <1>11 DEF OnGetdata, OfferExpires
  <2>3. call' \in [Call -> {"idle", "waiting", "done", "failed"}]
    BY <1>0, <1>11 DEF OnGetdata, OfferExpires, Settle
  <2> HIDE DEF r
  <2> QED
    BY <1>3, <2>1, <2>2, <2>3
<1> QED
  BY <1>6, <1>7, <1>8, <1>9, <1>10, <1>11

\* The pool is closed; the nodes find a block; time passes.
LEMMA PoolSteps ==
  ASSUME NodePoolInv, DisconnectPool \/ Mine \/ PoolTick
  PROVE  NodePoolInv'
<1> USE DEF NodePoolInv
<1>0. tip \in Nat /\ plan.tip \in Nat /\ peer \in [Peer -> PeerObject(tip)]
  BY TipType DEF Objects
<1>1. CASE DisconnectPool
  <2> DEFINE r(p) == [peer[p] EXCEPT !.st = "closing", !.pending = {}, !.offers = {},
                                     !.syncing = FALSE, !.asked = FALSE]
  <2>1. \A p \in Peer : r(p) \in PeerObject(tip) /\ r(p).st = "closing"
    BY <1>0 DEF PeerObject
  <2>2. /\ peer' = [p \in Peer |-> IF peers[p[1]] = p[2] THEN r(p) ELSE peer[p]]
        /\ peers' = [h \in Host |-> 0] /\ tip' = tip
    BY <1>1 DEF DisconnectPool
  <2> HIDE DEF r
  <2>3. Objects'
    BY <2>1, <2>2 DEF Objects
  <2>4. Entries'
    <3>1. \A h \in Host : peers'[h] = 0
      BY <2>2
    <3>2. \A h \in Host : InPool(h) => peers'[h] # peers[h]
      BY <3>1 DEF InPool
    <3> QED
      BY <2>2, <3>1, <3>2, DropKeeps
  <2>5. Heights'
    BY <1>1 DEF DisconnectPool, Heights
  <2>6. Timers'
    BY <1>1 DEF DisconnectPool, Timers
  <2> QED
    BY <2>3, <2>4, <2>5, <2>6
<1>2. CASE Mine
  <2>1. /\ UNCHANGED <<plan, pool, peer, bestHeight, call, target>>
        /\ tip < plan.tip /\ tip' = tip + 1
    BY <1>2 DEF Mine
  <2>2. PeerObject(tip) \subseteq PeerObject(tip + 1) /\ 0 .. tip \subseteq 0 .. (tip + 1)
    BY <1>0 DEF PeerObject
  <2>3. Entries' /\ Timers'
    BY <2>1 DEF pool, Entries, Timers, InPool
  <2>4. Objects'
    BY <2>1, <2>2 DEF Objects
  <2>5. Heights'
    BY <1>0, <2>1, <2>2 DEF Heights
  <2> QED
    BY <2>3, <2>4, <2>5
<1>3. CASE PoolTick
  <2>1. UNCHANGED <<plan, peers, blacklist, addrPool, maintaining, running, bestHeight, tip, call, target>>
    BY <1>3 DEF PoolTick
  <2>2. /\ peer' = [p \in Peer |-> IF peer[p].st = "none" THEN Gone ELSE [peer[p] EXCEPT !.aged = TRUE]]
        /\ cooldown' = [h \in Host |-> [cooldown[h] EXCEPT !.left = Max({cooldown[h].left - 1, 0})]]
    BY <1>3 DEF PoolTick
  <2>3. \A p \in Peer : /\ [peer[p] EXCEPT !.aged = TRUE] \in PeerObject(tip)
                        /\ [peer[p] EXCEPT !.aged = TRUE].st = peer[p].st
                        /\ [peer[p] EXCEPT !.aged = TRUE].timer = peer[p].timer
    BY <1>0 DEF PeerObject
  <2>4. Gone \in PeerObject(tip) /\ Gone.st = "none" /\ Gone.timer = FALSE
    BY <1>0, GoneIsObject DEF Gone
  <2>5. Objects'
    BY <2>1, <2>2, <2>3, <2>4 DEF Objects
  <2>6. \A p \in Peer : peer[p].st # "none" => peer'[p].st # "none"
    BY <2>2, <2>3
  <2>7. \A h \in Host : InPool(h) => <<h, peers[h]>> \in Peer
    BY DEF InPool, Entries, Peer
  <2>8. Entries'
    BY <2>1, <2>6, <2>7, DropKeeps DEF Entries
  <2>9. cooldown' \in [Host -> Cooldown]
    <3>1. ASSUME NEW h \in Host PROVE [cooldown[h] EXCEPT !.left = Max({cooldown[h].left - 1, 0})] \in Cooldown
      <4>1. cooldown[h] \in Cooldown /\ MaxCooldown \in Nat
        BY PoolAssumption DEF Timers
      <4>2. cooldown[h].left \in 0 .. MaxCooldown + 1
        BY <4>1 DEF Cooldown
      <4>3. Max({cooldown[h].left - 1, 0}) \in 0 .. MaxCooldown + 1
        <5>1. CASE cooldown[h].left = 0
          <6>1. Max({-1, 0}) = 0
            BY DEF Max
          <6> QED
            BY <4>1, <5>1, <6>1
        <5>2. CASE cooldown[h].left # 0
          <6>1. cooldown[h].left - 1 \in Nat
            BY <4>1, <4>2, <5>2
          <6>2. Max({cooldown[h].left - 1, 0}) \in {cooldown[h].left - 1, 0}
            BY <6>1, MaxOfTwo
          <6> QED
            BY <4>1, <4>2, <6>1, <6>2
        <5> QED
          BY <5>1, <5>2
      <4> QED
        BY <4>1, <4>3 DEF Cooldown
    <3> QED
      BY <2>2, <3>1
  <2>10. fired' \in BOOLEAN /\ half' \in BOOLEAN
    BY <1>3 DEF PoolTick, Timers
  <2>11. fired' => maintaining' < 2
    <3>1. fired' => half /\ maintaining # 2
      BY <1>3 DEF PoolTick
    <3> QED
      BY <2>1, <3>1 DEF Timers
  <2>12. Timers'
    BY <2>1, <2>9, <2>10, <2>11 DEF Timers
  <2>13. Heights'
    BY <2>1 DEF Heights
  <2> QED
    BY <2>5, <2>8, <2>12, <2>13
<1> QED
  BY <1>1, <1>2, <1>3

LEMMA NodePoolStep == NodePoolInv /\ [PoolNext]_poolVars => NodePoolInv'
<1> SUFFICES ASSUME NodePoolInv, [PoolNext]_poolVars PROVE NodePoolInv'
  OBVIOUS
<1>1. CASE UNCHANGED poolVars
  BY <1>1 DEF poolVars, pool, NodePoolInv, Entries, Objects, Heights, Timers, InPool
<1>2. CASE PoolNext
  BY <1>2, DialSteps, HandshakeSteps, CloseSteps, HeaderSteps, CallSteps, PoolSteps DEF PoolNext
<1> QED
  BY <1>1, <1>2

\* Types, and the size of the pool: dials, inbound peers, what nodes name, the maintenance that
\* drops peers in mid-dial and late events of old sockets never make it larger than
\* MaxPeers, nor leave an entry without a peer object.
THEOREM NodePoolTypeCorrect == NodePoolSpec => []PoolTypeOK
<1>1. NodePoolSpec => []NodePoolInv
  BY NodePoolStart, NodePoolStep, PTL DEF NodePoolSpec
<1> QED
  BY <1>1, NodePoolTypes, PTL
==============================================================================
