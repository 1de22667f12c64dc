------------------------------ MODULE NodePool ------------------------------
(***************************************************************************)
(* A bridge's connections to BSV nodes: the pool of packages/bridge/lib/   *)
(* bsv-node-client.js over the peers of bsv-peer.js.  The pool dials,      *)
(* accepts and drops peers; a peer shakes hands, follows the headers of    *)
(* its node, fetches transactions and offers those of the bridge.          *)
(*                                                                         *)
(* A peer object is <<host, slot>>: several may exist for a host, peers    *)
(* has at most one of them.  A tick is 30 seconds, half the interval of    *)
(* the maintenance; the timer of a handshake, 10 seconds, ends within the  *)
(* tick after the one it started in.  Headers are a chain of heights above *)
(* the checkpoint, which is 0.                                             *)
(***************************************************************************)
EXTENDS Integers, FiniteSets, FiniteSetsExt

CONSTANTS
  Host,
  Slot,           \* peer objects of one host at a time (bound)
  Call,           \* calls of getTx, broadcastTxAndWait and waitForSync
  Plan,           \* what the world does: the hosts the seeds name, those that answer
                  \* no dial, are no BSV nodes, never answer getheaders, that addr
                  \* messages name; the tip; what the callers ask; left (MCNodePool)
  MaxPeers,       \* connections in the pool (12)
  MaxCooldown,    \* the longest cooldown in ticks (60)
  Batch           \* headers in a full message (2000)

ASSUME PoolAssumption ==
  /\ IsFiniteSet(Host) /\ \A p \in Plan : p.tip \in Nat /\ p.seeds \subseteq Host
  /\ Slot \subseteq Nat \ {0} /\ MaxPeers \in Nat \ {0} /\ MaxCooldown \in Nat \ {0}
  /\ Batch \in Nat \ {0}

Peer == Host \X Slot

VARIABLES
  plan,
  peers,       \* [Host -> slot of its peer in the pool, or 0]
  peer,        \* [Peer -> the peer object and its socket]
  cooldown,    \* [Host -> [left: ticks until it ends, delay: its length, 0 if none]]
  blacklist, addrPool,
  maintaining, \* 1 while _maintaining, 2 if a maintenance was skipped for it
  fired,       \* the maintenance timer has fired
  half,        \* a tick since it did
  running,     \* connect() was called and disconnect() was not
  bestHeight,  \* _bestHeight of the client
  tip,         \* height of the nodes' chain
  call,        \* [Call -> "idle", "waiting", "done", "failed"]
  target,      \* [Call -> the height that a waitForSync waits for]
  mishaps      \* how often the world may still misbehave

pool == <<peers, cooldown, blacklist, addrPool, maintaining, fired, half, running>>
poolVars == <<plan, pool, peer, bestHeight, tip, call, target, mishaps>>

\* st: dialing - no TCP connection yet; open - no handshake yet; ready;
\* closing - the socket is gone and its close event to come; closed - only
\* the promise of connect() is left.  timer: that promise is pending.
Gone == [st |-> "none", timer |-> FALSE, aged |-> FALSE, inbound |-> FALSE, foreign |-> FALSE,
         syncing |-> FALSE, asked |-> FALSE, best |-> 0, pending |-> {}, offers |-> {}]
NewPeer(st, inbound) == [Gone EXCEPT !.st = st, !.timer = TRUE, !.inbound = inbound]

InPool(h)  == peers[h] # 0
Ready      == {p \in Peer : peer[p].st = "ready"}
ReadyPeers == {p \in Ready : peers[p[1]] = p[2]}
Reachable(h) == h \notin plan.dead

\* Mutant: only peers with a handshake count.
RoomOfReady == MaxPeers - Cardinality(ReadyPeers)
Room == MaxPeers - Cardinality({h \in Host : InPool(h)})
Free(h) == {s \in Slot : peer[<<h, s>>].st = "none"}
NewSlot(h) == CHOOSE s \in Free(h) : TRUE

InCooldown(h) == cooldown[h].left > 0
NoCooldown == [left |-> 0, delay |-> 0]

\* Mutant: a cooldown does not grow.
CoolingFixed(c, ban) == [left |-> 2, delay |-> 1]
\* A cooldown that starts between two ticks outlasts the next one.
Cooling(c, ban) ==
  LET delay == IF ban THEN MaxCooldown
               ELSE IF c.delay = 0 THEN 1 ELSE Min({2 * c.delay, MaxCooldown})
  IN  [left |-> delay + 1, delay |-> delay]

PoolTypeOK ==
  /\ plan \in Plan
  /\ peers \in [Host -> Slot \cup {0}]
  /\ \A h \in Host : InPool(h) => peer[<<h, peers[h]>>].st # "none"
  /\ Cardinality({h \in Host : InPool(h)}) <= MaxPeers
  /\ peer \in [Peer -> [st : {"none", "dialing", "open", "ready", "closing", "closed"},
                        timer : BOOLEAN, aged : BOOLEAN, inbound : BOOLEAN, foreign : BOOLEAN,
                        syncing : BOOLEAN, asked : BOOLEAN, best : 0 .. tip,
                        pending : SUBSET Call, offers : SUBSET Call]]
  /\ \A p \in Peer : peer[p].timer => peer[p].st \notin {"none", "ready"}
  /\ cooldown \in [Host -> [left : 0 .. MaxCooldown + 1, delay : 0 .. MaxCooldown]]
  /\ blacklist \subseteq Host /\ addrPool \subseteq Host
  /\ maintaining \in 0 .. 2 /\ fired \in BOOLEAN /\ half \in BOOLEAN /\ running \in BOOLEAN
  /\ bestHeight \in 0 .. tip /\ tip \in 0 .. plan.tip
  /\ call \in [Call -> {"idle", "waiting", "done", "failed"}] /\ target \in [Call -> 0 .. tip]

PoolInit ==
  /\ plan \in Plan
  /\ peers = [h \in Host |-> 0] /\ peer = [p \in Peer |-> Gone]
  /\ cooldown = [h \in Host |-> NoCooldown]
  /\ blacklist = {} /\ addrPool = {}
  /\ maintaining = 1 \* connect() awaits the discovery, too
  /\ fired = FALSE /\ half = FALSE /\ running = TRUE
  /\ bestHeight = 0 /\ tip = 0
  /\ call = [i \in Call |-> "idle"] /\ target = [i \in Call |-> 0]
  /\ mishaps = plan.left

Happens(what) == mishaps[what] > 0 /\ mishaps' = [mishaps EXCEPT ![what] = @ - 1]

------------------------------------------------------------------------------
(* Dialling: _connectToPeer, connect, _maintainPeers, addr, inbound.       *)

Dialable(h) == /\ ~InPool(h) /\ h \notin blacklist /\ ~InCooldown(h)
               /\ Free(h) # {}

Created(hosts, st, inbound) ==
  /\ peers' = [h \in Host |-> IF h \in hosts THEN NewSlot(h) ELSE peers[h]]
  /\ peer'  = [p \in Peer |-> IF p[1] \in hosts /\ p[2] = NewSlot(p[1])
                             THEN NewPeer(st, inbound) ELSE peer[p]]

\* Dials one host after another until the pool is full; the order is open.
ConnectToPeers(hosts) ==
  LET candidates == {h \in hosts : Dialable(h)}
  IN  \E batch \in kSubset(Min({Cardinality(candidates), Room}), candidates) :
        Created(batch, "dialing", FALSE)

\* The maintenance drops what has no TCP connection from the pool, peers
\* that are still dialling included, and starts the discovery, unless one
\* is under way; that takes less than two intervals.
MaintainPeers ==
  /\ running /\ fired /\ fired' = FALSE
  /\ IF maintaining > 0 THEN maintaining' = maintaining + 1 /\ UNCHANGED <<peers, mishaps>>
     ELSE LET dropped == {h \in Host : /\ InPool(h)
                                        /\ peer[<<h, peers[h]>>].st \in {"dialing", "closing"}}
          IN  /\ maintaining' = 1
              /\ peers' = [h \in Host |-> IF h \in dropped THEN 0 ELSE peers[h]]
              /\ IF \E h \in dropped : Reachable(h) THEN Happens("slow") ELSE UNCHANGED mishaps
  /\ UNCHANGED <<plan, peer, cooldown, blacklist, addrPool, half, running, bestHeight, tip, call, target>>

\* The seeds, and the pool of addresses, whose keys are split at ":": an
\* IPv6 address is not recognised.
Known == plan.seeds \cup {h \in addrPool : h \notin plan.v6}

DiscoverPeers ==
  /\ maintaining > 0 /\ maintaining' = 0
  /\ IF running THEN ConnectToPeers(Known) ELSE UNCHANGED <<peers, peer>>
  /\ UNCHANGED <<plan, cooldown, blacklist, addrPool, fired, half, running, bestHeight, tip, call, target, mishaps>>

\* A node names another one.
OnAddr(p, h) ==
  /\ peer[p].st = "ready" /\ h \in plan.told /\ Happens("addrs")
  /\ ~InPool(h) /\ h \notin blacklist
  /\ addrPool' = addrPool \cup {h}
  /\ IF running THEN ConnectToPeers({h}) ELSE UNCHANGED <<peers, peer>>
  /\ UNCHANGED <<plan, cooldown, blacklist, maintaining, fired, half, running, bestHeight, tip, call, target>>

AcceptInbound(h) ==
  /\ running /\ Reachable(h) /\ Free(h) # {} /\ Happens("inbound")
  /\ h \notin blacklist /\ ~InPool(h) /\ Room > 0
  /\ Created({h}, "open", TRUE)
  /\ UNCHANGED <<plan, cooldown, blacklist, addrPool, maintaining, fired, half, running, bestHeight, tip, call, target>>

------------------------------------------------------------------------------
(* The life of a peer.                                                     *)

Drop(h) == peers' = [peers EXCEPT ![h] = 0]
Keep    == UNCHANGED <<plan, addrPool, maintaining, fired, half, running, tip, target>>

\* The catch of _connectToPeer and _acceptInboundPeer.
Caught(p) ==
  /\ Drop(p[1])
  /\ cooldown' = IF peer[p].inbound THEN cooldown
                 ELSE [cooldown EXCEPT ![p[1]] = Cooling(@, FALSE)]

OnConnect(p) ==
  /\ peer[p].st = "dialing" /\ Reachable(p[1])
  /\ peer' = [peer EXCEPT ![p].st = "open"]
  /\ Keep /\ UNCHANGED <<peers, cooldown, blacklist, bestHeight, call, mishaps>>

OnError(p) ==
  /\ peer[p].st \in {"dialing", "open"}
  /\ IF Reachable(p[1]) THEN Happens("breaks") ELSE UNCHANGED mishaps
  /\ peer' = [peer EXCEPT ![p].st = "closing", ![p].timer = FALSE]
  /\ Caught(p) /\ Keep /\ UNCHANGED <<blacklist, bestHeight, call>>

\* A node that can be reached shakes hands in time, unless it is slow.
OnTimeout(p) ==
  /\ peer[p].timer
  /\ IF Reachable(p[1]) /\ peer[p].st \in {"dialing", "open"} THEN Happens("slow") ELSE UNCHANGED mishaps
  /\ peer' = [peer EXCEPT ![p] = IF @.st = "closed" THEN Gone
                                 ELSE [@ EXCEPT !.st = "closing", !.timer = FALSE, !.aged = TRUE]]
  /\ Caught(p) /\ Keep /\ UNCHANGED <<blacklist, bestHeight, call>>

OnVersion(p) ==
  /\ peer[p].st = "open" /\ p[1] \in plan.foreign
  /\ peer' = [peer EXCEPT ![p].st = "closing", ![p].foreign = TRUE]
  /\ Keep /\ UNCHANGED <<peers, cooldown, blacklist, bestHeight, call, mishaps>>

OnVerack(p) ==
  /\ peer[p].st = "open" /\ p[1] \notin plan.foreign
  /\ peer' = [peer EXCEPT ![p] = [@ EXCEPT !.st = "ready", !.timer = FALSE,
                                           !.syncing = TRUE, !.asked = TRUE]]
  /\ cooldown' = IF peer[p].inbound THEN cooldown ELSE [cooldown EXCEPT ![p[1]] = NoCooldown]
  /\ Keep /\ UNCHANGED <<peers, blacklist, bestHeight, call, mishaps>>

\* Mutant: the requests are forgotten, and nobody is told.
ReleasedSilently(p) == call
\* _releaseResources: whoever waits for a transaction from this peer.
Released(p) == [i \in Call |-> IF i \in peer[p].pending THEN "failed" ELSE call[i]]

WasBch(p) == peer[p].foreign

\* The close event: _onDisconnect and the listeners of the pool.  The
\* handshake flag is reset before they look at it, so that every connection
\* that ends within three seconds gets the longest cooldown.
OnDisconnect(p) ==
  LET h == p[1]
  IN  /\ Drop(h)
      /\ IF WasBch(p)
         THEN blacklist' = blacklist \cup {h} /\ UNCHANGED cooldown
         ELSE /\ UNCHANGED blacklist
              /\ IF peer[p].inbound THEN UNCHANGED cooldown
                 ELSE \E ban \in (IF peer[p].aged THEN {FALSE} ELSE BOOLEAN) :
                        cooldown' = [cooldown EXCEPT ![h] = Cooling(@, ban)]
      /\ peer' = [peer EXCEPT ![p] =
                    IF @.timer THEN [Gone EXCEPT !.st = "closed", !.timer = TRUE,
                                                 !.aged = peer[p].aged,
                                                 !.inbound = peer[p].inbound]
                    ELSE Gone]
      /\ call' = Released(p)
      /\ Keep /\ UNCHANGED bestHeight

OnClose(p) == peer[p].st = "closing" /\ OnDisconnect(p) /\ UNCHANGED mishaps
Break(p)   == peer[p].st \in {"open", "ready"} /\ Happens("breaks") /\ OnDisconnect(p)

\* disconnect() of the pool; peers that are not in it go on.
DisconnectPool ==
  /\ running /\ Happens("stops") /\ running' = FALSE /\ fired' = FALSE
  /\ peers' = [h \in Host |-> 0]
  /\ peer'  = [p \in Peer |-> IF peers[p[1]] = p[2]
                              THEN [peer[p] EXCEPT !.st = "closing", !.pending = {}, !.offers = {},
                                                   !.syncing = FALSE, !.asked = FALSE]
                              ELSE peer[p]]
  /\ call' = [i \in Call |-> IF \E p \in Peer : peers[p[1]] = p[2] /\ i \in peer[p].pending
                             THEN "failed" ELSE call[i]]
  /\ UNCHANGED <<plan, cooldown, blacklist, addrPool, maintaining, half, bestHeight, tip, target>>

------------------------------------------------------------------------------
(* Headers.                                                                *)

AskHeaders(p) ==
  /\ peer[p].st = "ready" /\ ~peer[p].syncing
  /\ peer' = [peer EXCEPT ![p].syncing = TRUE, ![p].asked = TRUE]
  /\ Keep /\ UNCHANGED <<peers, cooldown, blacklist, bestHeight, call, mishaps>>

\* On the interval, and when a node announces a block.
SyncHeaders(p) == AskHeaders(p)
OnInv(p)       == peer[p].best < tip /\ AskHeaders(p)

\* Mutant: an empty message returns before the flag is reset.
ReceivedSomething(q, n) ==
  [q EXCEPT !.best = @ + n, !.syncing = n = 0 \/ n >= Batch, !.asked = n >= Batch]
\* What _onHeaders does to a peer that receives n headers.
Received(q, n) ==
  [q EXCEPT !.best = @ + n, !.syncing = n >= Batch, !.asked = n >= Batch]

\* The best header is what the locator names first, and a node that answers
\* sends what follows.
Following(q) == Min({Batch, tip - q.best})

\* waitForSync looks at the height when there are new headers.
Synced(best) ==
  [i \in Call |-> IF i \in plan.waits /\ call[i] = "waiting" /\ best >= target[i] THEN "done" ELSE call[i]]

OnHeaders(p) ==
  LET n    == Following(peer[p])
      best == peer[p].best + n
  IN  /\ peer[p].st = "ready" /\ peer[p].asked /\ p[1] \notin plan.silent
      /\ peer' = [peer EXCEPT ![p] = Received(@, n)]
      /\ bestHeight' = Max({bestHeight, best})
      /\ IF n = 0 THEN UNCHANGED <<cooldown, call>>
         ELSE cooldown' = [cooldown EXCEPT ![p[1]] = NoCooldown] /\ call' = Synced(bestHeight')
      /\ Keep /\ UNCHANGED <<peers, blacklist, mishaps>>

Mine ==
  /\ tip < plan.tip /\ tip' = tip + 1
  /\ UNCHANGED <<plan, pool, peer, bestHeight, call, target, mishaps>>

------------------------------------------------------------------------------
(* Transactions: getTx asks one peer, all calls for the same transaction;  *)
(* broadcastTxAndWait offers one to every peer and waits until some node   *)
(* asks for it.  waitForSync waits for the height a node had.              *)

Others == UNCHANGED <<plan, pool, bestHeight, tip, target, mishaps>>
Settle(i, result) == call' = [call EXCEPT ![i] = result]

\* getTx of a peer.
Fetch(p, i) ==
  IF peer[p].pending # {} THEN Settle(i, "failed") /\ UNCHANGED peer
  ELSE Settle(i, "waiting") /\ peer' = [peer EXCEPT ![p].pending = {i}]

GetTx(i) ==
  /\ call[i] = "idle" /\ i \in plan.gets
  /\ \/ ReadyPeers = {} /\ Settle(i, "failed") /\ UNCHANGED peer
     \/ \E p \in ReadyPeers : Fetch(p, i)
  /\ Others

FetchEnds(p, i, result) ==
  /\ i \in peer[p].pending /\ Settle(i, result)
  /\ peer' = [peer EXCEPT ![p].pending = {}]
  /\ Others

OnTx(p, i)       == FetchEnds(p, i, "done")
OnNotfound(p, i) == FetchEnds(p, i, "failed")
GetTxTimeout(p, i) == FetchEnds(p, i, "failed")

BroadcastTxAndWait(i) ==
  /\ call[i] = "idle" /\ i \in plan.sends
  /\ Settle(i, IF ReadyPeers = {} THEN "failed" ELSE "waiting")
  /\ peer' = [p \in Peer |-> IF p \in ReadyPeers THEN [peer[p] EXCEPT !.offers = @ \cup {i}] ELSE peer[p]]
  /\ Others

\* A node asks for what is offered: it is sent, and no longer offered to it.
OnGetdata(p, i) ==
  /\ peer[p].st = "ready" /\ i \in peer[p].offers
  /\ Settle(i, IF call[i] = "waiting" THEN "done" ELSE call[i])
  /\ peer' = [peer EXCEPT ![p].offers = @ \ {i}]
  /\ Others

BroadcastTimeout(i) ==
  /\ call[i] = "waiting" /\ i \in plan.sends /\ Settle(i, "failed")
  /\ UNCHANGED peer /\ Others

WaitForSync(i) ==
  /\ call[i] = "idle" /\ i \in plan.waits /\ ReadyPeers # {}
  /\ target' = [target EXCEPT ![i] = tip]
  /\ Settle(i, IF bestHeight >= tip THEN "done" ELSE "waiting")
  /\ UNCHANGED <<plan, pool, bestHeight, tip, mishaps, peer>>

SyncTimeout(i) ==
  /\ call[i] = "waiting" /\ i \in plan.waits /\ Settle(i, "failed")
  /\ UNCHANGED peer /\ Others

\* After a minute an offer lapses; the caller has stopped waiting by then.
OfferExpires(p, i) ==
  /\ i \in peer[p].offers /\ call[i] # "waiting"
  /\ peer' = [peer EXCEPT ![p].offers = @ \ {i}]
  /\ UNCHANGED call /\ Others

------------------------------------------------------------------------------
PoolTick ==
  /\ running /\ ~fired /\ ~(half /\ maintaining = 2)
  /\ \A p \in Peer : peer[p].st # "closing" /\ ~(peer[p].timer /\ peer[p].aged)
  /\ fired' = half /\ half' = ~half
  /\ cooldown' = [h \in Host |-> [cooldown[h] EXCEPT !.left = Max({@ - 1, 0})]]
  /\ peer' = [p \in Peer |-> IF peer[p].st = "none" THEN Gone ELSE [peer[p] EXCEPT !.aged = TRUE]]
  /\ UNCHANGED <<plan, peers, blacklist, addrPool, maintaining, running, bestHeight, tip, call, target, mishaps>>

PoolNext ==
  \/ MaintainPeers \/ DiscoverPeers \/ DisconnectPool \/ Mine \/ PoolTick
  \/ \E h \in Host : AcceptInbound(h) \/ \E p \in Peer : OnAddr(p, h)
  \/ \E p \in Peer : \/ OnConnect(p) \/ OnError(p) \/ OnTimeout(p) \/ OnVersion(p)
                     \/ OnVerack(p) \/ OnClose(p) \/ Break(p)
                     \/ SyncHeaders(p) \/ OnInv(p) \/ OnHeaders(p)
                     \/ \E i \in Call : \/ OnTx(p, i) \/ OnNotfound(p, i) \/ GetTxTimeout(p, i)
                                        \/ OnGetdata(p, i) \/ OfferExpires(p, i)
  \/ \E i \in Call : \/ GetTx(i) \/ BroadcastTxAndWait(i) \/ BroadcastTimeout(i)
                    \/ WaitForSync(i) \/ SyncTimeout(i)

NodePoolSpec == PoolInit /\ [][PoolNext]_poolVars

\* Timers fire, sockets that were destroyed close, seeds answer or time out,
\* and nodes that can be reached connect, shake hands and, unless they are
\* silent, answer.  Nothing makes a node ask for a transaction or send one.
FairNodePoolSpec ==
  /\ NodePoolSpec
  /\ WF_poolVars(MaintainPeers) /\ WF_poolVars(DiscoverPeers) /\ WF_poolVars(PoolTick)
  /\ WF_poolVars(\E p \in Peer : OnConnect(p) \/ OnTimeout(p) \/ OnVersion(p) \/ OnVerack(p) \/ OnClose(p))
  /\ WF_poolVars(\E p \in Peer : SyncHeaders(p) \/ OnHeaders(p))
  /\ \A i \in Call : WF_poolVars(BroadcastTimeout(i) \/ SyncTimeout(i) \/ \E p \in Peer : GetTxTimeout(p, i))

------------------------------------------------------------------------------
(* Properties.                                                             *)

Good == {h \in plan.seeds : Reachable(h) /\ h \notin plan.foreign}

\* The pool fills up with working connections: hosts that answer no dial
\* cannot keep the others out of a pool that is smaller than the list,
\* because their cooldowns grow; dropped and lost peers are dialled again;
\* a node of another chain is in the end neither dialled nor accepted.
PoolFills ==
  <>[](\/ ~running
       \/ /\ Cardinality(ReadyPeers) >= Min({MaxPeers, Cardinality(Good)})
          /\ \A h \in plan.foreign : ~InPool(h))

\* The client reaches the nodes' tip, although some node never answers, a
\* connection breaks with a request under way, and blocks are found while
\* headers are on their way.
SyncsToTip == <>[](~running \/ bestHeight = tip)

\* Every getTx, broadcastTxAndWait and waitForSync settles, whatever becomes of
\* the peers it waits for.
EveryCallSettles == \A i \in Call : (call[i] = "waiting") ~> (call[i] \in {"done", "failed"})
==============================================================================
