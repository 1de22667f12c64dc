# Relay Federation: TLA+ models, TLC checks and TLAPS proofs

This directory holds a formal model of the relay bridge (`src/packages/bridge`), the program
that joins the federation's mesh, relays transactions, headers and data envelopes between
bridges and the BSV network, keeps the coins of watched addresses, and sells HTTP endpoints
over x402. Each module models one
component from its source; `MC*.tla` and `*.cfg` instantiate it for TLC; `*Proofs.tla` hold
theorems checked by TLAPS. `PROJECT.json` maps every definition to the lines it stands for.

Paths below are relative to `src/packages/bridge/` unless they start otherwise.

## 1. The system

A bridge is one Node.js process (`cli.js start`). All handlers run on one event loop, so a
handler is atomic up to its first `await`; concurrency comes from several bridges, from
messages under way, from timers, and from asynchronous handlers that are interleaved at their
`await`s. LevelDB (`lib/persistent-store.js`) is the only state that survives a restart.

| Component | State | Operations | Talks to | What is hard | What makes it correct |
|---|---|---|---|---|---|
| Transaction relay `lib/tx-relay.js` | mempool, seen, txOrigins, requested: four insertion-ordered bounded caches | broadcastTx, announce, request, body, trackTxid | peer manager, BSV client, status server | announces that cross; eviction between announce and body; tags that must survive hops | writes reach everybody, chatter reaches no invs-only bridge and is never called a write, a body is fetched once |
| Peer connections `lib/peer-manager.js`, `lib/peer-connection.js`, `lib/handshake.js`, `lib/anchor-manager.js` | map of peers, one PeerConnection each, sockets, registry keys | connectToPeer, acceptPeer, three-message handshake, tie-breaks, reconnect, anchors, timers | registry, gossip, all mesh modules | both bridges dial at once; breaks during a tie-break; late messages after a timer | two bridges end with one connection that both hold |
| Pre-authentication cap `lib/peer-manager.js` | counters per address and in total, a flag per socket | accept, hello, verify, timeout, close | the handshake | release on several paths, each possibly after another | the caps hold, every slot comes back exactly once |
| Header relay `lib/header-relay.js` | header by height, best header; header records on disk | announce, request, headers, feed from the BSV client | BSV client, store, peers | forks, partial batches, crossing exchanges, restart with an empty map | chains without holes, equal on all bridges |
| x402 gate `lib/x402-middleware.js` | pending map, negative cache, claim locks; claim and receipt records on disk | checkPayment, claimTxid, finalizePayment, releaseClaim, markReceiptFulfilled, sweep, PATCH of the prices | store, tx fetch, status server | check-then-act over awaits, crash between claim and receipt, two gates over one store | nobody is served unpaid, a payment buys one route, receipts are permanent, claims do not stick |
| Data relay `lib/data-relay.js`, `lib/data-endpoints.js` | seen hashes, a ring per topic, interests per peer | inject, data, topics, data_request, data_response | peers, status server | eviction while copies circulate, a damaged copy first, interests that change | an envelope reaches whom it interests and nobody else, and stops |
| Gossip `lib/gossip.js`, `cli.js` | directory, seen announcements, refresh timer | announce, getpeers, peers, endpoint after a handshake | peers, peer manager | overtaking announcements, hearsay that counts as seen now | an announcement in peace heals every directory; who left is forgotten |
| Peer reputation `lib/peer-scorer.js`, `lib/peer-health.js`, `lib/score-actions.js`, `lib/data-validator.js` | scores, windows, outstanding pings, offline marks, blacklist | ping/pong, data judged, stake, disconnect, thresholds | peer manager | late pongs, pings that a reconnect orphans, a blacklist nobody asks, the loser of a tie-break that marks a peer offline | a cut is earned, a low score is not connected, a live peer is online |
| Wallet `lib/address-watcher.js`, `lib/actions.js`, `lib/status-server.js`, `lib/persistent-store.js` | UTXO records, raw transactions, recent outputs, fund/send/register/deregister jobs, one clean-up, the server's life | watcher, jobs, POST /tx and /api/broadcast, GET unspent, clean-up, stop() | store, BSV client, ARC, WhatsOnChain, GorillaPool | reads and writes on two sides of an await; a broadcast over three services; a shutdown under way | what is spent is not offered again, nothing else is marked, a refused broadcast stays out; each as far as section 5 leaves it true |
| Store: transaction and token records `lib/persistent-store.js` | tx status, tokens, sessions | confirmTx, handleReorg, processTokenOp, updateTxStatus | tests only | no caller in the program | |
| BSV client `lib/bsv-node-client.js`, `lib/bsv-peer.js` | pool of peers, cooldowns, blacklist, known addresses, header chain, pending fetches | connect, maintain, discover, inbound, getheaders, getTx, broadcastTxAndWait, waitForSync, disconnect | BSV network, header relay, tx relay | hosts that answer nothing, maintenance in mid-dial, a fetch racing its timeout and the close | the pool keeps its size and fills; the tip is reached; a call settles |
| Teranode client `lib/teranode-client.js` | listener, breaker (open, busy, delay, baseline), timer | connect, watchdog, trip, probe, disconnect | Teranode | a tick or a disconnect during a probe or a stop() | one listener, bounded churn, the feed returns |
| Status server `lib/status-server.js` | jobs, logs, app checks, clean-up, gate | about 60 routes | all of the above | routes that work on shared state across awaits (see Wallet, x402, Data relay) | those of the components they work on |
| Registry `src/packages/registry` | none at run time, a peer cache file | discovery, registration | chain data | order of register and deregister entries | the list is what the chain says |
| SDK, dashboard, examples, config, parsers, crypto | none shared | | | | |

How they interact: `cli.js` builds the components and wires them. `PeerManager` emits a
message to every mesh module (`peer:message`), and each module picks its own types; modules
send through `PeerManager.broadcast` or a `PeerConnection`. The BSV client feeds the header
relay (`headers`) and the transaction relay (`tx`). The status server calls into all of them.

## 2. The modules

| Module | Models | Role |
|---|---|---|
| `TxRelay` | `lib/tx-relay.js`, its callers in `cli.js` and the status server | bridges, links that break |
| `PeerLink` | `lib/peer-manager.js`, `peer-connection.js`, `handshake.js`, `anchor-manager.js`, the wiring in `cli.js` | two bridges, all connections and sockets between them |
| `SlotPool` | the promise of the comment at `lib/peer-manager.js:158` | abstract specification |
| `PreAuth` | `PeerManager.startServer` | implements `SlotPool` |
| `HeaderRelay` | `lib/header-relay.js`, header records of the store, the feed and the start-up query in `cli.js` | a mesh and its BSV nodes |
| `PaymentLedger` | the promises of the comments at `lib/persistent-store.js:893` and `905` | abstract specification |
| `PaymentGate` | `lib/x402-middleware.js` from `checkPayment` on, the claim and receipt records of the store | implements `PaymentLedger`; requests interleaved at every await |
| `DataRelay` | `lib/data-relay.js`, POST and GET /data | a mesh, envelopes, a clock |
| `Gossip` | `lib/gossip.js`, the refresh and the endpoint update of `cli.js` | a mesh whose bridges move and leave |
| `PeerReputation` | `lib/peer-scorer.js`, `peer-health.js`, `score-actions.js`, `data-validator.js`, the listeners and timers of `cli.js` | one bridge and its peers |
| `Wallet` | `lib/address-watcher.js`, `lib/actions.js`, the coin records of the store, the coin routes, the clean-up and the stop of `lib/status-server.js` | every reader and writer of the coins |
| `NodePool` | `lib/bsv-node-client.js` over `lib/bsv-peer.js` | a pool and the nodes it dials |
| `Teranode` | `lib/teranode-client.js` | the client, its listener package and the feed |
| `MCxxx` | | the instances of module `xxx` |
| `TxRelayProofs`, `PeerManagerProofs` (`PreAuth` and `PeerLink`), `HeaderRelayProofs`, `StoreProofs` (`PaymentGate` and `Wallet`), `DataRelayProofs`, `GossipProofs`, `PeerReputationProofs`, `BsvProofs` (`Teranode` and `NodePool`) | | theorems and their proofs |

A WebSocket is a FIFO queue per direction. A break keeps a prefix of what is under way (what had
been received is still handled) and loses the rest. An `await` is the boundary between two actions,
and everything between two awaits is one action, with every call it makes. A constant `Plans` (or
`Plan`) holds small scenarios: the initial state chooses one, and it bounds what clients, the
network and time may do. One run then checks all scenarios of a component.

### 2.1 TxRelay

State: the four caches of every bridge as sequences, oldest first (`mempool`, `seen`,
`originOrder`, `requested`) with `txOrigins` beside them, the queues `net`, broken links
`down`. `written` and `observed` record what a client posted and what the BSV network sent;
they drive the inputs and are what the properties compare with.

Actions: `SubmitWrite` and `ObserveP2P` are the two callers of `broadcastTx`; `OnTxAnnounce`,
`OnTxRequest`, `OnTx` are the message handlers; `Drop` and `Reconnect` the link. The caches
are exact: `_storeTx`, `_trackOrigin` and `_trackRequested` evict before they look whether
the key is there, `_trackSeen` after.

### 2.2 PeerLink

State: for each bridge, its peers map under two keys (`"id"`, the pubkey, and `"alias"`, the
placeholder a seed is dialled under); each outbound `PeerConnection` with its listeners, its
current socket and whether it was destroyed; each socket with the state of both ends, the two
queues and the handshakes that wait on it; whether the registry of a bridge knows the other.

Actions follow the handlers: the dialling side (`ConnectToPeer`, `ConnectAgain`,
`EnsureAnchor`, `OnOpen`, `OnChallengeResponse`, `OnCloseD`, `Reconnect`), the accepting side
(`OnHello`, `OnVerify`, `OnUnexpected`, `OnLaterMessage`, `OnCloseR`), and the environment
(`Break`, `ConnectFails`, `AcceptTimeout`, `DialTimeout`, `AppBroadcast`, `Register`). The
bridge with the smaller pubkey is `Lower`. Nonces and signatures are modelled by what they
decide: the second handshake on one socket finds that the nonce signed is not its own.

### 2.3 PreAuth and SlotPool

`PreAuth` has the counters (`preAuth`, `preAuthTotal`), the flag `_preAuthReleased` and the
stage of each socket. Its initial state and next-state relation are called `ServerInit` and
`ServerNext`, because one module proves about it and `PeerLink`. `SlotPool` is a set of holders and a number of free slots. The
refinement maps `held` to the counted sockets and `free` to the cap less the total.

### 2.4 HeaderRelay

State: the header map (`headers`, one per height by invariant), `best`, the header records
(`stored`) and hash records (`hashIndex`) on disk, what the BSV client can build on (`known`),
batches that are being written (`writing`: the announce follows the write). Headers are model
values with a height and a parent, so forks are part of the instance.

Actions: `OnBsvHeaders` and `AnnounceToAll` are the two halves of the feed in `cli.js`;
`OnHeaderAnnounce`, `OnHeaderRequest`, `OnHeaders` the handlers; `Connect`, `Drop`, `Restart`
and `MeshBootstrap` the life of links and processes.

### 2.5 PaymentGate

State: payment `records` on disk, the claim `locks` of the store, per gate the `pending`
verifications and the `negative` cache, and the program counter of each request. A gate is
replaced by PATCH /x402; requests keep the gate they came through (`via`).

Actions: `CheckPayment` up to its first await; `ClaimGet`/`ClaimPut`, the read and the write
of `claimTxid`, each with its failure; `FetchTx`; `FinalizePayment`; `ReleaseGet`/`ReleaseDel`;
`Inspect` after a conflict; `MarkFulfilled`, `ForgetNegative`, `ReplaceGate`,
`CrashAndRestart`, which includes the sweep of stale claims at start. `late` marks the requests
that come after their payment has bought an answer.

`PaymentLedger` says what this is for: a payment is an account that is free, held by one
verification, or sold for one quote (a route at a price that it covers), and answers are given in
the step that sells, or on a credit that stands on the sale. The last section of `PaymentGate` maps
records to accounts (`Accounts`), served requests to answers (`Answers`), and the absence of
failed reads to `intact`; locks, pending maps, gates and counters are the implementation's own.

### 2.6 DataRelay

State: the dedup set and the rings of every bridge (`cache`), what each bridge knows of its peers'
`interests`, the queues, a `clock`. An envelope has a hash, a topic, a timestamp and a time to live;
a damaged copy has the hash of the sound one and fails validation. `declared` (all a peer ever
named) and `how` (pushed, or caught up) are histories for the properties.

Actions: `InjectEnvelope` (POST /data), `OnData`, `OnDamagedData`, `OnTopics`, `OnDataRequest`,
`OnDataResponse`, `DeclareTopics`, `RequestData`, `GetEnvelopes`, `Tick`, `Drop`. `Receive` holds
what injection and reception share: validation, dedup, ring, forwarding.

### 2.7 Gossip

State: per bridge its `directory` (endpoint and age of each entry) and the announcements `seen`;
which bridges run and where they are (`endpoint` counts moves); who must still refresh in this
tick (`due`). `calm` says that a bridge has announced since it moved and that nothing else was
under way. Actions: `BroadcastAnnounce`, `OnAnnounce`, `OnGetPeers`, `OnPeers`,
`RequestPeersFromAll`, `Handshake` (which sets the endpoint of a peer), `CutOff`, `Move`
(a restart elsewhere: the directory of the process is lost), `Leave`, `Tick`.

### 2.8 PeerReputation

State: the metrics of each peer with their windows, the connection and close events still to come,
health (`offline`, `status`), `pending` pings, the blacklist. The score is computed in integers as
the code computes it in fractions; `Scored` evaluates the threshold listeners after every update a
handler makes, in its order. Actions: `Connect`, `Disconnect`, `Duplicate` (the loser of a
tie-break), `OnClose`, `OnData`, `OnPong`, `PingTimer`, `Registered`, `HealthCheck`, `Tick`.
`blame` and `cut` are histories.

### 2.9 Wallet

State: the coin records and raw transactions of the store; the marks under way (`writing`: a
`spendUtxo` that has read and not yet written); the program counter of each watcher handler, job, fund
request, broadcast request, of the listing, the clean-up and the shutdown; what the network has
accepted (`net`) and mined. A handler of the watcher starts as soon as its transaction is seen,
whatever the handlers of its parents are at, and again for the transactions `plan.again`, which are
received again. Each of the three broadcast services, and GorillaPool, may fail: a failed listing
is an empty one. `crossed` is a history that `Remember` adds to at every step: the outputs that the
watcher, a fund or a send is about to store although the watcher or a send has already dealt with
them as spent. Only `CoinsConsistent` reads it. The initial state and the next-state relation are called `WalletInit` and
`WalletNext`, because one module proves about this module and `PaymentGate`. `PlanAssumption` says
that a transaction has one role (received, funded, sent, ...) and that one stake at a time is made.
Actions, by actor:

- watcher: `OnTxNew`, `HandleInput`, `HandleOutputs`, `HandleMatch`;
- fund: `PostFund`, `FundStores`; send: `PostSend`, `SendGathers`, `SendPushes`, `SendMarks`,
  `SendMarksOne`, `SendStores`, `SendPutsChange`; a stake and its registration: `PostRegister`,
  `RegisterGathers`, `RegisterPushes`, `RegistrationPushed`; `PostDeregister`,
  `DeregisterGathers`, `DeregisterPushes`;
- broadcast: `PostBroadcast` and `PostApiBroadcast`, `MarkInputs`, then the three services in turn,
  `TryP2p`, `TryArc`, `TryWoc`;
- unspent list: `GetUnspent`, `GorillaPoolAnswers`, `MergeTheirs`, `MergeOurs`;
- clean-up: `CleanupStarts`, `CleanupLooks`, `CleanupAnswered`, `CleanupDrops`; shutdown: `Stop`,
  `StopServer`, `CloseStore`;
- network: `Accept`, `Mine`, `Ages` (120 s have passed since an output was stored, in the store or in
  what a listing has read of it).

### 2.10 NodePool

State: the pool's map (`peers`) and the peer objects (`peer`), which outlive their entry; cooldowns,
blacklist, known addresses, the maintenance and its flag; the header height of each peer and of
the client; the calls of `getTx`, `broadcastTxAndWait` and `waitForSync` with their
pending sets. A tick is 30 s. Actions: `ConnectToPeers`, `MaintainPeers`, `DiscoverPeers`,
`AcceptInbound`, `OnAddr`; per socket `OnConnect`, `OnError`, `OnTimeout`, `OnVersion`, `OnVerack`,
`OnClose`; `SyncHeaders`, `OnHeaders`; `GetTx`, `OnNotfound`, `GetTxTimeout`, `BroadcastTxAndWait`,
`OnGetdata`, `BroadcastTimeout`, `WaitForSync`, `SyncTimeout`, `OfferExpires`; `Mine`, `PoolTick`,
`DisconnectPool`. The initial state and the next-state relation are called `PoolInit` and `PoolNext`: one
module proves about this one and `Teranode`.

### 2.11 Teranode

State: the listener (`_listener`), the breaker `cb`, the timer, what each run of the watchdog awaits
(`run`), `connect()` and `disconnect()` under way, and the external listener package, which
restarts itself while it has no peers. `orphans` counts running listeners that `_listener` does
not name; `barren` counts restarts in vain. Actions: `Connect`, `WatchdogTick` (with `Poll` or
`Probe`), `ProbeStops`, `ProbeMade`, `Tripped`, `Disconnect`, `Disconnected`, and the package and
network: `PeersFound`, `PeersLost`, `Restart`, `OnMessage`, `FeedChanges`, `Tick`.

## 3. What TLC checks

Every configuration says `CHECK_DEADLOCK FALSE`: inputs and faults are bounded, so each
system goes quiet when they are used up, as a bridge without traffic does. Next to each
property, `PROJECT.json` names a mutant of a definition under which TLC finds
the property violated; the mutants stand beside the definitions they replace.

| Run | Instance | Shows | States |
|---|---|---|---|
| `TxRelaySafe` | triangle, one invs-only bridge, caches of one entry, two transactions, one written and both also observed as chatter, one break | `TypeOK` (caps), `ChatterNeverUpgraded`, `SelectiveHoldsNoChatter` | 51,429 |
| `TxRelayLive` | row of four, the last two invs-only, three writes and one observation of two transactions, no loss, no eviction | `OneFetchPerTx`, `RelayedReachesClassic`, `WritesReachAll` (a write alone, and the rescue of one seen as chatter first) | 15,238 |
| `PeerLinkPlans` | both dial, with an anchor check, a second connect and a break or an early timer; both dial under placeholders while registries fill late; one dials with two breaks and two broadcasts into the handshake | `MapsConsistent` (shape of the maps; both agree when nothing is under way), `LinksUp`, `ReplacedByWorking` | 115,113 |
| `PreAuthCaps` | four sockets of three addresses, caps one and two | `CapsHold`, `PoolSpec` (refinement), `SlotsReturn` | 29,318 |
| `HeaderRelayPlans` | a line of three with a restart; two bridges on forks of one and three blocks, one tip taken from `/status`; one chain in full batches and a break | `HeadersConsistent` (one header per height, no holes), `LinkedWhenAdded`, `ChainsSynchronise`, `TrafficEnds` | 306,201 |
| `PaymentGateFaults` | three requests (two for the aware route, one for the plain one), one or two payments, two gates with crossed prices, one verification at a time, one crash, one failed read, one release that fails | `ClaimsConsistent` (types and the critical section), `PaidInFull`, `PaymentUsedOnce`, `LedgerSpec` (refinement of `PaymentLedger`), `EverythingResolves` | 271,329 |
| `DataRelayMesh` | a triangle that remembers one envelope and gets two; a damaged copy first, in a row; a catch-up over a ring of one; interests that change and a break | `CachesServeInterest` (caps, and whom it interests is reached), `OnlyToInterested`, `FloodEnds` | 53,716 |
| `GossipMesh` | a triangle with a fourth bridge: one that moves and announces twice, the outer one announces, refreshes while one leaves, an announcer that leaves | `DirectoriesConsistent` (`HealsByAnnouncement`), `GoneExpires` | 83,553 |
| `PeerReputationCuts` | one peer, windows of 5, 1 and 2, four stake ages, one registration, one losing second connection | `ReputationConsistent` (`CutsAreEarned`), `NoLowScoreConnected`, `OnlineAgain` | 323,819 |
| `NodePoolWorlds` | three hosts, a pool of two, six worlds: dead hosts, a slow dial, an inbound peer and a disconnect, a node of another chain, a silent node and blocks, two fetches and a broadcast; a break in most | `PoolTypeOK` (with the size of the pool), `PoolFills`, `SyncsToTip`, `EveryCallSettles` | 146,344 |
| `WalletPlans` | four transactions, ten plans: two coins and a send of both; a send, clean-up and shutdown; a client's broadcast with a listing, of a coin that is received again; a listing with the clean-up; a broadcast against a send without ARC; one during a shutdown; a stake and its registration; a send against a deregistration; two sends, the second perhaps of the change of the first, which is received again; a send with a listing of its change | `CoinsConsistent` (`SpentIsRecorded`), `NoFalseFailure`, `OnlySpentMarked`, `EverythingEnds` | 240,125 |
| `TeranodeBreaker` | two overlapping runs of the watchdog, three changes of the feed, one loss of peers, one listener that cannot be built, one shutdown; a trip at two restarts | `WatchdogConsistent` (`ChurnBounded`), `OneListener`, `FeedReturns` | 26,209 |

Why these bounds are enough to be interesting:

- *TxRelay.* Caches of one entry make every insertion an eviction, so origins, seen marks and bodies
  disappear at every point of a fetch. In a triangle an announce takes two ways to a bridge and
  overtakes itself. A row of four has an interior bridge of each mode, so that a tag must
  survive two re-announcements and a write meets the same transaction coming as chatter.
- *PeerLink.* A pair of bridges is the whole scope of a tie-break. Two connections per bridge and two
  sockets per connection let an old socket close after its successor is in the map. With anchors
  and a second connect a connection has one socket at a time.
- *HeaderRelay.* Batches of one make every exchange continue after a full batch; the fork of
  three blocks outgrows the fork of one, so batches arrive whose first header is rejected.
- *PaymentGate.* Three requests for one payment are one that claims, one that joins and one that
  comes late or through the other gate; or one has the payment that is too small for some prices.
  Two of them are for the aware route, so that one may leave a credit that the other redeems.
  One verification at a time makes the concurrency limit bite.
- *DataRelay.* A triangle is a cycle, and a dedup set of one forgets an envelope while its copies
  go round: only the time to live can end the flood. A ring of one with a page of one makes a
  catch-up meet the ring's edge.
- *Gossip.* The cycle makes announcements overtake themselves, the appended bridge is reached by
  relay only. A refresh period of four ticks and entries that last two leave lulls in some plans
  and none in others.
- *PeerReputation.* The windows slide within a few events. The sub-scores are
  exact: `Unit` is divisible by every window.
  Stake ages of seconds, a day, a week and three years are the four sides of the stake's share.
- *NodePool.* More hosts than places, and two peer objects per host, so that an old object's events
  come after its successor is in the map. Cooldowns double three times before their cap.
- *Wallet.* Every pair of actors that touches one coin is in some plan. All awaits are
  interleaved, a mark's read and write included, and handlers of the watcher start in any order.
  Each exception that a property makes occurs in some plan: without `crossed`, without
  `~list.heard`, without the outputs of sends and funds, or with "unsure" beside "refused", TLC finds the
  property violated.
- *Teranode.* A tick can fall into a probe, into the stop of a trip, and into a disconnect; the delay
  doubles twice and reaches its cap.

### Fairness

- `TxRelay`, `HeaderRelay`: a bridge handles each message that arrives (the event loop), and
  completes a write that was started. `HeaderRelay` also redials (`_scheduleReconnect` of
  `lib/peer-connection.js` has no limit of attempts). Nothing is assumed of clients and BSV nodes.
- `PeerLink`: bridges dial at startup, timers fire, the event loop handles what arrived, and a
  registry that will have the other bridge gets it. An accept timer is fair only where no message
  is coming: 10 s are longer than a delivery. Breaks, failed attempts and early timers are
  never fair; they are bounded.
- `PreAuth`: timers fire and a closing socket closes (the `ws` library gives the other side 30 s).
  Nothing makes the other side speak.
- `PaymentGate`: the store answers and a fetch ends within `FETCH_TIMEOUT_MS`, so a verification
  goes on. Crashes and store errors are bounded and never fair.
- `DataRelay`, `Gossip`: messages are handled, time passes, refresh timers fire; two bridges
  of `Peering` that run come to be connected (`_scheduleReconnect`).
- `PeerReputation`: the ping timer of `cli.js` fires and a connected peer's pong is handled.
- `NodePool`: the timers of maintenance and discovery fire; a host that answers dials
  completes its handshake, answers getheaders (unless it is a silent one) and closes when told; the
  timers of calls fire. Slow dials, breaks and foreign nodes are not fair.
- `Wallet`: the store answers and each service answers or times out (the calls concerned carry an `AbortSignal.timeout`).
  The network accepts or mines nothing by fairness.
- `Teranode`: timers fire, stopping and building a listener ends, and a feed in reach time and again
  is found in the end: strong fairness, because the package's restarts interrupt its search.

## 4. What is proved

TLAPS checks these for every value of the constants, from the assumptions named in the modules
(caps are positive, links are symmetric, hosts are finitely many, inputs are of their types and play
one role each).

| Theorem | Says |
|---|---|
| `TxTypeCorrect` | `Spec => []TypeOK`: the four caches keep to their caps, messages and origins have their types |
| `TxChatterNeverUpgraded` | no txOrigins entry and no message calls a transaction a write unless a bridge was asked to write it |
| `TxSelectiveHoldsNoChatter` | an invs-only bridge holds only writes and its own observations |
| `TxFetchedOnce` | if every cache has room for all transactions (`Roomy`): at most one request or body per bridge and transaction is under way, none once it is held |
| `PreAuthTypeCorrect`, `PreAuthCapsHold` | the counters keep their types; at most the caps are held open without authentication |
| `PreAuthImplementsPool` | `Spec => PoolSpec`: the counters implement `SlotPool` |
| `LinkMapsConsistent` | `Spec => []MapsConsistent`: the maps keep their shape; once nothing is under way both bridges hold the same connection and no other socket is open |
| `LinkReplacedByWorking` | where no timer fires and no connection is listened to twice, a working connection gives way to one that works after the same step |
| `GateClaimsConsistent` | records, verdicts and receipts have their types, and one request at a time is between the read and the write of `claimTxid` |
| `GatePaidInFull` | nobody is served below the price it was quoted, also when reads fail |
| `GatePaymentUsedOnce` | a payment buys the answers of one route at one price and is refused later, if no read failed |
| `GateKeepsLedger` | `Spec => LedgerSpec`: the gate, over all its awaits, crashes and errors, implements `PaymentLedger` |
| `GateReceiptPermanent` | a receipt stays, but for its credit, if no read failed |
| `HeadersAreConsistent` | one header per height in every map and on every disk, `bestHash` the highest; on one chain, no hole |
| `HeadersLink` | no step puts a header on top of one that is not its parent |
| `DataOnlyToInterested` | no envelope is under way to a peer that never named its topic |
| `DataServesInterest` | the dedup set and the rings keep to their caps, and these never keep an envelope from a peer that declared its topic, if links and interests stay |
| `GossipHeals` | directories hold endpoints bridges have or had; an announcement that meets no other gossip sets right every directory that connections lead to |
| `ReputationNoLowScore` | no connection survives the update that takes its score below the threshold |
| `ReputationEarned` | a peer that did nothing wrong is never cut, timeouts alone blacklist nobody; the windows hold |
| `WalletCoinsConsistent` | `WalletSpec => []CoinsConsistent`: what a handled transaction or a finished send spends is not offered, in whatever order handlers start and whatever runs between the two halves of every mark, but for outputs that somebody was storing when they had been dealt with (`crossed`) |
| `WalletNoFalseFailure` | a broadcast that WhatsOnChain has refused is not in the network, then or later; of a 502 without its answer nothing is claimed |
| `WalletOnlySpentMarked` | of the coins in the network, only those that a seen or submitted transaction spends are marked, but by a listing that GorillaPool has not answered, or of a coin that a send or the user stored |
| `NodePoolTypeCorrect` | `NodePoolSpec => []PoolTypeOK`: the pool keeps to its size, every entry has a peer object, what a peer has received never passes the tip |
| `TeranodeOneListener` | one listener at most, none while the breaker is open |
| `TeranodeChurnBounded` | a listener restarts its peers in vain at most `TripReconnects + 1` times |

`TxRelayProofs` proves the inductive invariant

    TxInv == TypeOK /\ GoodQueues /\ OriginsNotUpgraded /\ SelectiveHoldsNoChatter

`ChatterNeverUpgraded` alone is not inductive: a body carries an origin that becomes the entry of
the receiver, and an invs-only bridge trusts a body because it asked for it. `GoodQueues` says of
every message under way what its receiver relies on: an announce or body that says "broadcast" is
of a write, and a request sent by, or a body sent to, an invs-only bridge is of a write.
`OriginsNotUpgraded` says the same of the map entries. Each action has one step; the
cache operators have a lemma each (what `StoreTx`, `TrackSeen`, `TrackRequested` and
`TrackOrigin` contain and how long they are), and the queue operators too (`Send`,
`Broadcast`, and a queue of which the first or the last messages are taken away).

`PeerManagerProofs` proves, of `PreAuth`, the invariant that ties the counters to the sockets: an address counts
exactly the sockets of its own that were taken on and have not been released, the total is
the number of all counted sockets, and whoever is still anonymous has not been released.
`CapsHold` needs it because the code compares counters, and the property counts sockets. The
refinement needs that the floor of `Math.max(0, preAuthTotal - 1)` is never met.

Of `PeerLink` it proves

    LinkInv == TypeOK /\ Unborn /\ Listening /\ Shown /\ MapsHold /\ Coherent(sock, conn, plan.timeouts)

`MapsConsistent` speaks of the moments when nothing is under way; the invariant must hold in between.
Its heart is `MapsHold`: whatever socket an end counts on is the one its map shows. The accepting
end counts on a socket from its `verify` on (`HeldIn`), the dialling end from the moment its own
`verify` is on its way (`HeldOut`), before the other end has decided anything. So a handler that
puts one connection in the place of another has to destroy that one in the same step, and
`HeldOut` has to end with it. `Coherent` says of every socket how it stands to its
`PeerConnection`: `Fits` (the socket a connection calls its own is the only one up; what is closed
at the accepting end has its `fin` on the way) and `Waits` (who waits for a
`challenge_response`; without timers, nobody waits on a closed socket, and a connection destroyed
in mid-handshake is one of the bridge with the higher pubkey). When all queues are empty,
`HeldIn` and `HeldOut` of a socket are the same thing, and `MapsAgree` follows.

A `challenge_response` may rename the connection's key, destroy the one in its place and destroy
itself in one step: `Destroys` and `Idle` say once what destroying does to a coherent state, and
`NamedStep` applies them twice. `Listening` and `Shown` are there for `LinkReplacedByWorking`: a
bridge starts handshakes on one connection only, so that the lower bridge's own connection is still
live when its answer comes. An attempt to prove it for all plans failed on a second `open` listener
of a connection its map shows under a placeholder; TLC has the behaviour (section 5), and
the property now says so (`Twice`).

`StoreProofs` proves, of `PaymentGate`,

    GateInv == TypeOK /\ Owners /\ LocksMatchClaims /\ Paying /\ Used

`TypeOK` and `LocksMatchClaims` are not inductive: what a request writes is safe only because the
pending map and the lock say that nobody else works on its payment. `Owners` says that every pending
entry has its request and every joined request an owner on the same route; `Paying`, that a request
about to write a receipt, and every receipt, has been paid for; `Used`, that while no read has
failed one request at a time holds the claim of a payment (`OneHolder`), that what was served has a
receipt of its route and price, and that who comes late finds a receipt without credit
(`Receipts`). A failed read breaks `Used` and nothing else: this is why `GatePaidInFull` needs no
such condition.

`GateKeepsLedger` follows from the same invariant, one lemma per group of actions. Most of them
change nothing the ledger sees. `ClaimPut` holds an account that is still free at the write,
and `FinalizePayment` sells one that its own request holds, both by `OneHolder`; it sells it for
a price `Paying` says it covers, and the joined requests it serves are for the same route and had
no answer. `ReleaseDel` and the sweep give back what is held. After a failed read the ledger lets
a held or sold account pass for another (`Passes`), and nothing else is lifted: a sale still needs
its value, and clients still get one answer each. `GateReceiptPermanent` is stated beside its
proof; a run checks `LedgerSpec` instead, which says more.

Of `Wallet` it proves

    WalletInv == WalletTypeOK /\ Roles /\ Fixed /\ Gathering /\ Rejected
                 /\ Puts /\ Watching /\ Sending /\ Bookmarks /\ Merging /\ Recalled

`CoinsConsistent` speaks of transactions whose handling is over, and of the records. It is not
inductive: a mark is read and written in two steps, and a record may be put again by whoever has
not put it yet. So the invariant says, of each coin that a handler or a send is past, that it is not
offered, or its mark is under way (`Marked`), or it is in the history (`Gone`). The history does
not answer for itself: `Recalled` says that whatever is about to be stored although somebody has
dealt with it is in `crossed` before it is stored, so a `putUtxo` that writes over a mark is one
the property excepts, and every other interleaving of two calls has to leave the mark alone.
`SentWell` and `WatchedWell` say this of a send and of a handler. For
`NoFalseFailure` the invariant keeps
the conflict for which WhatsOnChain refused (`Rejected`): inputs do not change once a
transaction is out (`Fixed`), so that the conflict stays. For `OnlySpentMarked`, `Bookmarks` says
of every mark under way whose it is, and `Merging`, of every coin that an answered listing still has
from our store and not from GorillaPool's, that it is spent, stored by a send or the user, or too
recent to tell.

Two facts carry most of the induction: `Onward` says what no step undoes (what is out, begun or
done stays so), and `Recording` what a step may do to the records. Each action has a lemma for each
of them; each part of the invariant is then kept by whatever satisfies both and leaves its actor alone,
and by the actions of its actor one by one.

A first attempt without the history failed at the change of a send, which is put twice, by the send
and by the watcher (section 5). TLC had not seen it, since no plan had a send of a change; the plans
`Chaining` and `Listed` now have one.

`DataRelayProofs` proves `InterestInv`: the interests a bridge keeps of a peer are among those the
peer ever declared, and so is the topic of every envelope in a queue, which a later `topics`
cannot change. `CachesServeInterest` needs `ServeInv`: every remembered hash is that of a sound
envelope the bridge has accepted (so a damaged copy never closes the door), what was accepted is
within its time and stays so for everybody, an envelope under way was accepted by its sender, and
a steady mesh declares nothing. A bridge that refuses an unexpired copy then has the envelope
already, and one that accepts it passes it on in the same step.

`GossipProofs` proves `HealInv`. That a calm announcement heals is said of a quiet mesh; while it
spreads, `Healing` says that nothing but announcements are under way, that those of `b`
are its last with its present endpoint, that whoever has processed it has entered that
endpoint, and that across every connection of theirs the other side has processed it too or is about to receive
it (`Spreads`). When the mesh is quiet, those who know it are a set that no connection leaves,
which is how `Reached` is defined. `Truth` says that no directory, list of peers or announcement
runs ahead of the endpoints and stamps of its subject.

`HeaderRelayProofs` proves `HeadersInv`. `NoHoles` is about a map; a map stays without holes because of
what is under way to it: on one chain (`Sole`) every response fits its receiver (`Fits`: with
the receiver's map it is closed under predecessors) and no request of a live link asks for
more than follows the map of its sender. A restart makes a map smaller, so a request may be too
high for its sender afterwards: the break that comes with it is what keeps the answer away. What
`addHeaders` does with a batch is a fold over the heights: its lemmas (it adds only to what it
got, keeps one header per height, links, adds all of a batch that fits) are inductions over the
heights.

`TxFetchedOnce` rests on `FetchInv`: a bridge has seen what it holds or has asked for, what it has
not asked for and what it holds is not on its way to it, and no cache has the same entry twice. With
`Roomy` no insertion evicts (`Room`, by counting). This is the condition the property
carries; with smaller caches a body may be fetched again, as the code accepts.

`PeerReputationProofs` shows that each handler acts on the score of its last
update, so that what it leaves connected has passed the threshold; nothing about the size of a
score is needed. For `ReputationEarned` it is: `Good(m, held)` says of metrics `m` that their windows
hold and that what is not held against the peer does not show in them (no bad judgement without
"invalid", as many pongs as pings without "timeout", no negative stake without "fresh"). Every update
keeps it, the rounding of pongs at a full window included, because all of them stay all of them
(`TrimmedGood`). From it follow the scores (`GoodScores`, with `Unit` even and quotients floored): half
of the accuracy's weight keeps a peer off the blacklist, and half of the uptime's keeps it
connected. `Closings` bounds the close events to come: a connection leaves room for its own.
`BsvProofs` proves, of `Teranode`, `BreakerInv`: one run of the watchdog at a time is past its
first await, although `disconnect()` lifts the guard under it (`OneRun`), and nothing runs while
such a run stops or builds a listener or the breaker is open (`NoneRunning`). What a `disconnect()`
in mid-probe leaves running is one listener, and nothing starts after it. `ChurnInv` adds that the
restarts in vain are those counted above the breaker's baseline, one per tick at most, and that a
tick with a restart is followed by a poll before the next one: hence `ChurnBounded`.

Of `NodePool` it proves `NodePoolInv == Entries /\ Objects /\ Heights /\ Timers`. That the pool keeps
to its size is counting: a batch of dials is no larger than the room left (`CreatedKeeps`), and every
other step only drops hosts (`DropKeeps`), be it in mid-dial, on a late event of an old object, or on
`disconnect()`. `PoolTypeOK` needs one conjunct more to be inductive: when the maintenance timer
has fired, at most one maintenance is under way or skipped for it (`Timers`).

Induction. The library's induction theorems have an operator as parameter, which the provers at hand
cannot instantiate. Where a proof needs induction (`Among` and `Taken` of `DataRelay`, `AddHeaders`
of `HeaderRelay`), it is done by the least counterexample: the set of numbers at which a statement
fails has a least element (`Least`, from the well-foundedness of `<` on `Nat`), which the step
excludes; that a function defined by recursion satisfies its equation is proved the same way
(`Steps`).

Every invariant that a run checks is proved, and so are the refinements and all action properties
but none of the liveness properties: liveness under fairness, and whatever needs ENABLED, is left to
TLC.

## 5. Limits: behaviours of the code that no property denies

These came up while modelling. No property of a run excludes them; where a property is
restricted for their sake, its definition and comment say so. `PROJECT.json` lists no finding, for
none of them contradicts what the docs promise of the program as a whole. Some texts do say more
than the code does: that blacklisting prevents reconnection (`lib/score-actions.js:69`), that short outages
do not count against the score (`lib/peer-health.js:12`), that what GorillaPool does not list is recent or
spent (`lib/status-server.js:1933`), and the 502 of a broadcast, "no miner accepted the transaction"
(`lib/status-server.js:1037`).

Transactions, connections and headers:

- *Own write swallowed.* An invs-only bridge marks each announced txid as seen without its body;
  `broadcastTx` (`lib/tx-relay.js:80`) then ignores a local write of that txid. `WritesReachAll`
  speaks of writes that nobody observed as chatter first, or that are announced.
- *Write tag lost.* An announce overwrites `txOrigins` (`lib/tx-relay.js:223`). A chatter announce
  between the request and the body of a write makes the body re-announced as chatter if it carries no
  origin of its own, and makes a bridge that holds the body serve it as chatter.
- *A lost request.* A `tx_request` or body lost with its connection is not asked for again.
  `TxRelayLive` therefore has no breaks.
- *Anchor replaced.* `ensureConnections` (`lib/anchor-manager.js:97`) takes an anchor that is waiting to
  redial for a lost one: it removes the map entry without destroying the connection and calls
  `connectToPeer` without starting a handshake. When the old connection redials and
  completes its handshake, the bridge with the higher pubkey destroys it in favour of the mute one.
  `LinksUp` is checked without anchors.
- *Connect again.* `connectToPeer` returns a connection that is in the map, and its callers add a
  second `open` listener (`cli.js:1139`, and `lib/status-server.js:1228` when asked twice for one
  endpoint); the next reconnect sends two hellos and fails. If the map has that connection under a
  placeholder, it may take the place of a working inbound one with its first hello's answer and
  be destroyed by the second's: `ReplacedByWorking` leaves such plans out (`Twice`), and
  `LinksUp` is checked without second listeners.
- *Late verify.* The verify handler stays after its timer closed the socket
  (`lib/peer-manager.js:218`) and may replace a working connection by the closing one.
  `ReplacedByWorking` is checked without early timers.
- *Break in a tie-break.* With both bridges dialling and a break at the wrong moment, each may
  destroy the connection the other keeps (`cli.js:714`, `lib/peer-manager.js:233`); neither is dialled
  again by its PeerConnection. `LinksUp` is checked for both dialling without breaks, and for one
  dialling with breaks. A sole dialler whose registry learns of the peer too late
  (`cli.js:699`), or whose handshake times out (`cli.js:749`), also destroys its connection for good.
- *Reorganisation.* A taken height is never replaced (`lib/header-relay.js:46`): bridges that saw
  different blocks at one height keep different chains. `ChainsSynchronise` is checked on one chain.
- *Holes.* Headers are requested from the best height on; what lies below a tip taken from a peer's
  `/status` (`cli.js:857`) stays missing. `NoHoles` is checked without such a tip.
- *Hash index.* `putHeaders` (`lib/persistent-store.js:126`) writes the hash of every header of a batch,
  also of those that `addHeader` rejected, and never removes the hash of a header it overwrites: after
  a fork, `getHeaderByHash` of one block may return another.

Payments:

- *Shared verification.* Requests that name a txid under verification for the same route are all
  served (`lib/x402-middleware.js:276`).
- *Failed read while claiming.* `claimTxid` takes it for an absent key
  (`lib/persistent-store.js:880`) and overwrites a receipt. `PaymentUsedOnce` and
  `ReceiptPermanent` are conditioned on no failed read (`faults.reads = 0`), and the guard `Passes`
  of the ledger is lifted by one; `PaidInFull` is not.
- *Young claim after a crash.* The sweep runs once when the server starts
  (`lib/status-server.js:195`) and skips claims younger than 5 minutes; such a claim stays until
  another start. `ClaimsResolve` is conditioned on no crash and no release that failed.

Data, gossip, reputation:

- *Equal timestamps.* A catch-up asks for timestamps greater than the last one
  (`lib/data-relay.js:235`); an envelope with the same timestamp on the other side of a page is skipped.
- *Hearsay.* A `peers` answer counts as seen now (`lib/gossip.js:260`): if the refreshes of a mesh leave no
  lull of the maximal age, a departed bridge is given away for ever. `GoneExpires` assumes a lull.
- *Blacklist.* Nobody asks `isBlacklisted`; a blacklisted peer stays away only through its score.
- *Fresh stake.* A stake younger than a day has a negative age score. *Pings.* A ping pending when a
  connection is lost counts as missed after the reconnect. `Math.round` at a full window
  (`lib/peer-scorer.js:88`) keeps the uptime of a peer that answers everything again below 100 %.

Wallet:

- *Raw bytes.* The clean-up deletes the raw bytes of mined transactions, `runSend` skips outputs
  without them (`lib/actions.js:284`), and refuses with "Insufficient funds" what the balance counts.
- *Clean-up.* An HTTP error of ARC makes the clean-up drop outputs (in the model), and an unconfirmed
  output it drops never comes back. A clean-up longer than its interval overlaps with the next.
- *Unspent list.* A failure of GorillaPool reads as an empty list (`lib/status-server.js:1903`), upon
  which every output that is not recent is marked spent. `OnlySpentMarked` excepts listings that
  GorillaPool has not answered (`~list.heard`).
- *Order.* `putUtxo` writes over a mark. An output is offered although a handled transaction spends it if that
  transaction is handled before, or beside, the one that makes the output
  (`lib/address-watcher.js:37` waits for neither); if the latter is received once more; or if the user
  funds it late. So after a restart.
- *Change of a send.* The send puts its change (`lib/actions.js:371`) and so does the watcher when its
  transaction comes back, whichever is last (`lib/address-watcher.js:137`). If another send has spent
  the change in between, it is offered again. `CoinsConsistent` excepts this and the crossings before it,
  and nothing else (`crossed`).
- *Late acceptance.* A listing takes an output of a send or a fund that the network accepts only after
  it stopped being recent for spent (`lib/status-server.js:1937`). `OnlySpentMarked` excepts these.
- *Two jobs* may pick the same outputs (`Contending`): the network refuses one, whose job may call itself
  done. A failed push leaves inputs marked or a bond pushed (`lib/actions.js:106`), and a failing
  `waitForSync` leaves the job's client connected (`lib/actions.js:73`).
- *False 502.* When WhatsOnChain fails, times out or answers something else, the caller gets the 502 of
  a refusal (`lib/status-server.js:1019`, `2096`), although WhatsOnChain, an ARC that had only stored the
  transaction, or a node that asks late may get it accepted. `NoFalseFailure` speaks of refusals
  (`"refused"`) and not of these (`"unsure"`).
- *Shutdown* waits for requests and the latest clean-up, not for watcher handlers and jobs.

BSV nodes and Teranode:

- *Orphans.* The maintenance deletes peers that are still dialling: a host may have two connections, the
  pool more sockets than its size, and the close or late timer of the old one deletes its successor's
  entry; `disconnect()` leaves such sockets open.
- *Ban.* The handshake flag is reset before the listener reads it: every connection that ends within 3 s
  gets the long cooldown. A failed connect applies the cooldown twice.
- *Keys* of the address pool are split at ":", so IPv6 hosts are never dialled from it. A node that
  never answers getheaders leaves `_syncing` set.
- *Teranode.* A `disconnect()` in mid-probe leaves a listener nobody stops; `ChurnBounded` speaks
  of the time before. A `stop()` that never returns blocks the watchdog.

## 6. Abstractions

- Signatures, nonces and transaction bytes are modelled by what they decide. A payment is the
  amount it pays to the bridge; how outputs are parsed is left out.
- Txid-only tracking (`trackTxid`, `hasSeen`) and confirmation reports of `lib/tx-relay.js` touch
  none of the modelled state and are left out, as is switching `selectiveFetch` while running
  (`cli.js` sets it once).
- In `PeerLink` discovery looks a peer up under the key it was dialled with: a second dial of a peer that
  is in the map under its pubkey (`cli.js:1137`) is left out; and so are a bridge that unregisters
  (`cli.js:678`), the legacy hello without a nonce, version negotiation, `disconnectPeer` and
  `shutdown`. The upgrade of a socket is seen by both
  ends at once. Redial delays are left out: any timer may fire at any time.
- The header and hash writes of `putHeaders` are two batches; the model makes them one step.
  `verifyMerkleProof` only reads. `MeshBootstrap` reads the tips of all peers at once; `cli.js` asks one
  `/status` after another.
- The gate's `negative` cache forgets any entry at any time, which covers expiry and trimming.
  `markFulfilled` reads and writes in one step: no other writer touches a receipt.
- `CrashAndRestart` includes the sweep of stale claims, in the code an asynchronous task of the start;
  a request may meet a claim that is about to be swept. `ReplaceGate` changes prices; a PATCH that
  disables the gate or fails to make a new one (`lib/status-server.js:1788`), and one that changes
  the payee, are left out.
- `DataRelay` has topics without prefixes; `Gossip` leaves out the trimming of the dedup set, the cap
  of a response, damaged announcements (an id is marked as seen before age and signature are checked,
  `lib/gossip.js:232`, so a damaged copy may close the door to the sound one), the age check, and what `cli.js` does with a discovered peer.
- `PeerReputation` has two latencies, fast and slow; a data item is good or bad.
- In `Wallet` every output is worth 1 and a transaction has one; addresses are who lists them; batches
  of the clean-up hold everything; there is one listing,
  and one stake at a time. A transaction that is received again gets its next handler when the last one
  is done. Of an output that came by the network and that our store has had for 120 s, an answer of
  GorillaPool that is not a failure knows: it may lag behind the network, but not longer than
  that. The cut-off of 120 s is taken with that answer. Blocks and ageing happen only in plans where somebody
  looks at them.
- `NodePool` leaves out the file of good peers, the eviction from full address lists, the bootstrap from
  a mesh peer, transaction announcements of nodes and message framing. `Teranode` leaves out lists
  of peers and statistics.

## 7. Not modelled

- *Transaction status, reorg and token records of the store*: `confirmTx`, `updateTxStatus`,
  `handleReorg` and `processTokenOp` have no caller outside the tests; a model would invent the order of
  calls.
- *Status server*: of about 60 routes, those that change shared state across awaits are modelled with
  their component (broadcast, unspent, fund, send, register, deregister, PATCH /x402, POST and GET /data,
  the clean-up, the stop). The others parse, format and proxy; logs and app checks share no state.
- *Output parser, address scanner, endpoint probe, IP diversity, configuration, personal mode,
  registry, cryptography, network helpers, SDK, dashboard, examples*: byte formats, I/O and user
  interface without state shared between actors.

## 8. Plan

Done: all components whose state is shared between handlers, and the proofs of their safety
properties. What would add most next: `HeaderRelay` over `NodePool` in place of its environment, and
`PeerLink` over `PreAuth`.
