------------------------------- MODULE Teranode -------------------------------
(***************************************************************************)
(* The client of the Teranode gossip network and its circuit breaker       *)
(* (packages/bridge/lib/teranode-client.js).                               *)
(*                                                                         *)
(* The listener package restarts itself, without end, while it has no      *)
(* peers.  A watchdog polls it, stops it after some restarts in vain, and  *)
(* builds a new one when a delay has passed, which doubles each time.  A   *)
(* tick is one interval of the watchdog.  stop() of a listener works when  *)
(* it is called, its promise is kept later.                                *)
(***************************************************************************)
EXTENDS Integers, FiniteSets, FiniteSetsExt

CONSTANTS
  Run,            \* runs of the watchdog that may be under way together (bound)
  TripReconnects, \* restarts in vain until the breaker trips
  BackoffBase, BackoffMax, \* the first delay and the longest, in ticks
  MaxRestarts,    \* restarts of a listener (bound)
  Left            \* how often the world may misbehave (bound)

ASSUME BreakerAssumption ==
  /\ TripReconnects \in Nat \ {0} /\ MaxRestarts \in Nat
  /\ BackoffBase \in Nat \ {0} /\ BackoffMax \in Nat \ {0}
ASSUME LeftAssumption == Left \in [{"outages", "blips", "fails", "stops"} -> Nat]

VARIABLES
  enabled,
  listener,   \* _listener: "none", "running" or "stopped"
  orphans,    \* history: listeners that run and that _listener does not name
  package,    \* the listener's [peers, restarts, restarted: in this tick]
  cb,         \* the breaker: [open, busy, delay, wait: until nextRetryAt, baseline]
  connected,  \* _connected
  timer, due, \* _peerTimer is set; it has fired
  run,        \* [Run -> what a run of the watchdog awaits]
  starting,   \* connect() awaits its listener
  stopping,   \* disconnect(): "no", "stops" or "done"
  barren,     \* history: restarts since a poll saw peers or the listener was built
  feed,       \* the network can be reached
  left

vars == <<enabled, listener, orphans, package, cb, connected, timer, due, run, starting,
          stopping, barren, feed, left>>

Fresh == [peers |-> FALSE, restarts |-> 0, restarted |-> FALSE]

TypeOK ==
  /\ \A b \in {enabled, connected, timer, due, starting, feed} : b \in BOOLEAN
  /\ listener \in {"none", "running", "stopped"} /\ orphans \in Nat
  /\ package \in [peers : BOOLEAN, restarts : 0 .. MaxRestarts, restarted : BOOLEAN]
  /\ package.peers => listener = "running"
  /\ cb \in [open : BOOLEAN, busy : BOOLEAN, delay : 0 .. BackoffMax, wait : 0 .. BackoffMax,
             baseline : 0 .. MaxRestarts]
  /\ run \in [Run -> {"idle", "stops", "makes", "trips"}]
  /\ stopping \in {"no", "stops", "done"} /\ barren \in Nat
  \* one run at a time holds the guard, until disconnect() lifts it
  /\ cb.busy => Cardinality({k \in Run : run[k] # "idle"}) = 1

Init ==
  /\ enabled = TRUE /\ listener = "none" /\ orphans = 0 /\ package = Fresh
  /\ cb = [open |-> FALSE, busy |-> FALSE, delay |-> 0, wait |-> 0, baseline |-> 0]
  /\ connected = FALSE /\ timer = FALSE /\ due = FALSE
  /\ run = [k \in Run |-> "idle"] /\ starting = TRUE /\ stopping = "no"
  /\ barren = 0 /\ feed \in BOOLEAN /\ left = Left

Spend(what) == left[what] > 0 /\ left' = [left EXCEPT ![what] = @ - 1]

------------------------------------------------------------------------------
(* Listeners.                                                              *)

\* _listener is set to what is not running, or to a new listener.
Names(what) ==
  /\ listener' = what
  /\ orphans' = IF listener = "running" THEN orphans + 1 ELSE orphans
  /\ package' = Fresh
Stopped ==
  /\ listener' = IF listener = "none" THEN "none" ELSE "stopped"
  /\ package' = Fresh /\ UNCHANGED orphans
Listeners == UNCHANGED <<listener, orphans, package>>

Life == UNCHANGED <<enabled, timer, starting, stopping>>

\* connect: builds the first listener and starts the watchdog.
Connect ==
  /\ starting /\ starting' = FALSE
  /\ \/ Names("running") /\ timer' = TRUE /\ UNCHANGED <<enabled, left>>
     \/ Spend("fails") /\ enabled' = FALSE /\ UNCHANGED timer /\ Listeners
  /\ UNCHANGED <<cb, connected, due, run, stopping, barren, feed>>

------------------------------------------------------------------------------
(* The watchdog.                                                           *)

\* _scheduleBackoff: base, twice as long each time, at most the maximum.
Backoff(c) ==
  LET delay == IF c.delay = 0 THEN Min({BackoffBase, BackoffMax})
               ELSE Min({2 * c.delay, BackoffMax})
  IN  [c EXCEPT !.delay = delay, !.wait = delay]

\* Mutant: two runs may be under way.
BusyNever == FALSE
Busy == cb.busy

Awaits(k, what) == run' = [run EXCEPT ![k] = what]
Idle == \E k \in Run : run[k] = "idle"
NextRun == CHOOSE k \in Run : run[k] = "idle"

\* The breaker is open: build a new listener when the delay has passed.
Probe ==
  /\ IF cb.wait > 0 THEN Listeners /\ UNCHANGED <<cb, run>>
     ELSE /\ cb' = [cb EXCEPT !.busy = TRUE] /\ Stopped
          /\ Awaits(NextRun, IF listener = "none" THEN "makes" ELSE "stops")
  /\ UNCHANGED <<connected, barren>>

\* Mutant: one restart too late.
TripsLate == package.restarts - cb.baseline > TripReconnects
Trips == package.restarts - cb.baseline >= TripReconnects

\* The breaker is closed: look at the peers, and trip after restarts in vain.
Poll ==
  IF listener = "none" THEN Listeners /\ UNCHANGED <<cb, run, connected, barren>>
  ELSE /\ connected' = package.peers
       /\ barren' = IF package.peers THEN 0 ELSE barren
       /\ IF package.peers
          THEN cb' = [cb EXCEPT !.baseline = package.restarts, !.delay = 0]
               /\ UNCHANGED run /\ Listeners
          ELSE IF Trips
          THEN cb' = [Backoff(cb) EXCEPT !.open = TRUE, !.busy = TRUE]
               /\ Awaits(NextRun, "trips") /\ Stopped
          ELSE UNCHANGED <<cb, run>> /\ Listeners

WatchdogTick ==
  /\ due /\ due' = FALSE
  /\ IF Busy THEN Listeners /\ UNCHANGED <<cb, run, connected, barren>>
     ELSE Idle /\ IF cb.open THEN Probe ELSE Poll
  /\ Life /\ UNCHANGED <<feed, left>>

\* _rebuildListener goes on when the old listener has stopped.
ProbeStops(k) ==
  /\ run[k] = "stops" /\ Awaits(k, "makes")
  /\ Names("none")
  /\ Life /\ UNCHANGED <<cb, connected, due, barren, feed, left>>

\* Mutant: the breaker stays open.
ClosedNot(c) == [c EXCEPT !.busy = FALSE, !.baseline = 0]

\* A new listener has no restarts.
Closed(c) == [c EXCEPT !.open = FALSE, !.busy = FALSE, !.baseline = 0]

ProbeMade(k) ==
  /\ run[k] = "makes" /\ Awaits(k, "idle")
  /\ \/ Names("running") /\ cb' = Closed(cb) /\ barren' = 0 /\ UNCHANGED left
     \/ Spend("fails") /\ cb' = [Backoff(cb) EXCEPT !.busy = FALSE] /\ Listeners /\ UNCHANGED barren
  /\ Life /\ UNCHANGED <<connected, due, feed>>

\* _tripBreaker goes on when the listener has stopped.
Tripped(k) ==
  /\ run[k] = "trips" /\ Awaits(k, "idle")
  /\ cb' = [cb EXCEPT !.busy = FALSE] /\ connected' = FALSE
  /\ Life /\ Listeners /\ UNCHANGED <<due, barren, feed, left>>

------------------------------------------------------------------------------
(* disconnect, when the bridge shuts down; a run of the watchdog goes on.  *)

Reset(c) == [c EXCEPT !.open = FALSE, !.busy = FALSE]

Disconnect ==
  /\ ~starting /\ stopping = "no" /\ Spend("stops")
  /\ timer' = FALSE /\ due' = FALSE
  /\ IF listener = "none" THEN stopping' = "done" /\ cb' = Reset(cb) /\ connected' = FALSE
     ELSE stopping' = "stops" /\ UNCHANGED <<cb, connected>>
  /\ Stopped
  /\ UNCHANGED <<enabled, run, starting, barren, feed>>

Disconnected ==
  /\ stopping = "stops" /\ stopping' = "done"
  /\ Names("none") /\ cb' = Reset(cb) /\ connected' = FALSE
  /\ UNCHANGED <<enabled, timer, due, run, starting, barren, feed, left>>

------------------------------------------------------------------------------
(* The package, the network and time.                                      *)

Client == UNCHANGED <<enabled, listener, orphans, cb, timer, run, starting, stopping>>

PeersFound ==
  /\ listener = "running" /\ feed /\ ~package.peers
  /\ package' = [package EXCEPT !.peers = TRUE]
  /\ Client /\ UNCHANGED <<connected, due, barren, feed, left>>

PeersLost ==
  /\ package.peers /\ IF feed THEN Spend("blips") ELSE UNCHANGED left
  /\ package' = [package EXCEPT !.peers = FALSE]
  /\ Client /\ UNCHANGED <<connected, due, barren, feed>>

\* Once in a tick at most.
Restart ==
  /\ listener = "running" /\ ~package.peers /\ ~package.restarted
  /\ package.restarts < MaxRestarts
  /\ package' = [package EXCEPT !.restarts = @ + 1, !.restarted = TRUE]
  /\ barren' = barren + 1
  /\ Client /\ UNCHANGED <<connected, due, feed, left>>

\* A block, a subtree or a status of a node.
OnMessage ==
  /\ package.peers /\ connected' = TRUE
  /\ Client /\ UNCHANGED <<package, due, barren, feed, left>>

FeedChanges ==
  /\ Spend("outages") /\ feed' = ~feed
  /\ Client /\ UNCHANGED <<package, connected, due, barren>>

Tick ==
  /\ ~due /\ due' = timer
  /\ package' = [package EXCEPT !.restarted = FALSE]
  /\ cb' = [cb EXCEPT !.wait = IF @ = 0 THEN 0 ELSE @ - 1]
  /\ Life /\ UNCHANGED <<listener, orphans, connected, run, barren, feed, left>>

------------------------------------------------------------------------------
Next ==
  \/ Connect \/ WatchdogTick \/ Disconnect \/ Disconnected
  \/ \E k \in Run : ProbeStops(k) \/ ProbeMade(k) \/ Tripped(k)
  \/ PeersFound \/ PeersLost \/ Restart \/ OnMessage \/ FeedChanges \/ Tick

Spec == Init /\ [][Next]_vars

\* Timers fire, stopping and building a listener ends, and a feed that can be
\* reached, again and again, is found in the end.
FairSpec ==
  /\ Spec
  /\ WF_vars(Connect) /\ WF_vars(WatchdogTick) /\ WF_vars(Tick) /\ WF_vars(Disconnected)
  /\ \A k \in Run : WF_vars(ProbeStops(k) \/ ProbeMade(k) \/ Tripped(k))
  /\ SF_vars(PeersFound)

------------------------------------------------------------------------------
(* Properties.                                                             *)

\* There is never more than one listener, and none while the breaker is open:
\* overlapping polls, probes and a disconnect in their middle build no second.
OneListener ==
  LET running == orphans + (IF listener = "running" THEN 1 ELSE 0)
  IN  running <= (IF cb.open THEN 0 ELSE 1)

\* "once it has restarted CB_TRIP_RECONNECTS times while STILL at 0 peers, take over"
\* (teranode-client.js:34): no listener, also a later one, restarts in vain more
\* often, but for the restart between two polls, while the bridge is up.
ChurnBounded == stopping = "no" => barren <= TripReconnects + 1

\* One run of the watchdog at a time, and bounded churn.
WatchdogConsistent == TypeOK /\ ChurnBounded

\* A feed that stays in reach is connected in the end, after whatever outages and
\* failed probes.
FeedReturns == <>[](connected \/ ~feed \/ ~enabled \/ stopping # "no")
==============================================================================
