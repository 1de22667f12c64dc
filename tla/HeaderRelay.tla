----------------------------- MODULE HeaderRelay -----------------------------
(***************************************************************************)
(* Block-header synchronisation between bridges                            *)
(* (packages/bridge/lib/header-relay.js, wired in packages/bridge/cli.js). *)
(*                                                                         *)
(* A bridge keeps at most one header per height.  It learns headers from   *)
(* BSV nodes and from its peers: the accepting side of a new connection    *)
(* announces its best height, a peer that is behind requests the next      *)
(* batch, a peer that is ahead announces back, and whoever added headers   *)
(* announces further.  What it added is also written to the store.         *)
(***************************************************************************)
EXTENDS Integers, Sequences, FiniteSets, FiniteSetsExt

CONSTANTS
  Bridge,       \* bridges of the mesh
  Dials,        \* <<a, b>>: a dials b, and redials whenever the link breaks
  Header,       \* headers of the chain and of its forks
  Height,       \* [Header -> Nat \ {0}]
  prevHash,     \* [Header -> Header \cup {Checkpoint}]
  Checkpoint,   \* the block all BSV clients start from, at height 0
  NoHeader,
  Plans         \* what may happen in a behaviour, by name: one plan is its own

\* A plan.
Plan ==
  [bridges : SUBSET Bridge,         \* bridges that run
   sees : [Bridge -> SUBSET Header],\* what the BSV nodes of a bridge may serve
   bootstraps : SUBSET Bridge,      \* bridges whose query of their peers' /status
                                    \*   at start-up may succeed
   maxBatch : Nat \ {0},            \* headers per response
   drops : Nat, restarts : Nat]     \* bounds: breaks and restarts

ASSUME DialsAssumption ==
  /\ Dials \subseteq Bridge \X Bridge
  /\ \A l \in Dials : l[1] # l[2] /\ <<l[2], l[1]>> \notin Dials
ASSUME HeaderAssumption ==
  /\ IsFiniteSet(Header) /\ Header # {} /\ {NoHeader, Checkpoint} \cap Header = {}
  /\ Height \in [Header -> Nat \ {0}]
  /\ prevHash \in [Header -> Header \cup {Checkpoint}]
  /\ \A x \in Header : IF prevHash[x] = Checkpoint THEN Height[x] = 1
                       ELSE Height[x] = Height[prevHash[x]] + 1
ASSUME PlanAssumption == \A n \in DOMAIN Plans : Plans[n] \in Plan

Peering   == Dials \cup {<<l[2], l[1]>> : l \in Dials}
Peers(b)  == {a \in Bridge : <<a, b>> \in Peering}
MaxHeight == Max({Height[x] : x \in Header})

\* What a BSV node sends in one message: a piece of one chain, oldest first.
Segment ==
  {S \in SUBSET Header :
     /\ Cardinality({x \in S : prevHash[x] \notin S}) = 1
     /\ \A x, y \in S : prevHash[x] = prevHash[y] => x = y}

VARIABLES
  headers,      \* [Bridge -> SUBSET Header] the header map, one header per height
  best,         \* [Bridge -> Header \cup {NoHeader}] bestHeight and bestHash
  stored,       \* [Bridge -> SUBSET Header] headers on disk, by height
  hashIndex,    \* [Bridge -> SUBSET Header] hashes on disk that point to their height
  known,        \* [Bridge -> SUBSET Header] hashes the BSV client can build on
  booted,       \* bridges whose BSV client runs
  writing,      \* [Bridge -> Nat] BSV batches being written, to be announced after
  net,          \* [Peering -> Seq(message)] messages under way
  up,           \* the links of Dials that are open
  faults        \* the plan, and the drops and restarts so far

chain == <<headers, best>>
disk  == <<stored, hashIndex>>
bsv   == <<known, booted>>
plan  == Plans[faults.plan]
links == <<up, faults>>
vars  == <<chain, disk, bsv, writing, net, links>>

------------------------------------------------------------------------------
HeightOf(x) == IF x = NoHeader THEN -1 ELSE Height[x]
At(S, h)    == {x \in S : Height[x] = h}

\* Mutant: the prevHash is not looked at.
AddableUnlinked(held, x) == At(held, Height[x]) = {}

\* addHeader accepts x: its height is free, and the header below it, if held,
\* is the one it names.
Addable(held, x) ==
  /\ At(held, Height[x]) = {}
  /\ At(held, Height[x] - 1) \subseteq {prevHash[x]}

\* addHeaders: one after the other, by height.
AddHeaders(held, batch) ==
  LET upTo[h \in 0 .. MaxHeight] ==
        IF h = 0 THEN held
        ELSE upTo[h - 1] \cup {x \in At(batch, h) : Addable(upTo[h - 1], x)}
  IN  upTo[MaxHeight]

Highest(old, held) ==
  IF \E x \in held : Height[x] > HeightOf(old)
  THEN CHOOSE x \in held : \A y \in held : Height[x] >= Height[y]
  ELSE old

\* The map and the best header of b after addHeaders(batch).
Adopt(b, batch) ==
  LET held == AddHeaders(headers[b], batch)
  IN  /\ headers' = [headers EXCEPT ![b] = held]
      /\ best' = [best EXCEPT ![b] = Highest(@, held)]

\* putHeaders writes the whole batch, also the headers that were not added.
PutHeaders(b, batch) ==
  /\ stored' = [stored EXCEPT ![b] =
       {x \in @ : At(batch, Height[x]) = {}} \cup batch]
  /\ hashIndex' = [hashIndex EXCEPT ![b] = @ \cup batch]

Announce(x)      == [type |-> "header_announce", height |-> HeightOf(x)]
Request(h)       == [type |-> "header_request", fromHeight |-> h]
Batch(S)         == [type |-> "headers", headers |-> S]

IsUp(a, b) == <<a, b>> \in up \/ <<b, a>> \in up
Send(queues, b, a, m) ==
  IF IsUp(a, b) THEN [queues EXCEPT ![<<b, a>>] = Append(@, m)] ELSE queues
Broadcast(queues, b, except, m) ==
  [l \in Peering |-> IF l[1] = b /\ l[2] \notin except /\ IsUp(l[1], l[2])
                     THEN Append(queues[l], m) ELSE queues[l]]
Consumed(a, b) == [net EXCEPT ![<<a, b>>] = Tail(@)]
Arrives(a, b, type) == net[<<a, b>>] # <<>> /\ Head(net[<<a, b>>]).type = type

------------------------------------------------------------------------------
Init ==
  /\ headers = [b \in Bridge |-> {}]
  /\ best = [b \in Bridge |-> NoHeader]
  /\ stored = [b \in Bridge |-> {}]
  /\ hashIndex = [b \in Bridge |-> {}]
  /\ known = [b \in Bridge |-> {}]
  /\ booted = {}
  /\ writing = [b \in Bridge |-> 0]
  /\ net = [l \in Peering |-> <<>>]
  /\ up = {}
  /\ faults \in [plan : DOMAIN Plans, drops : {0}, restarts : {0}]

\* Start of the BSV client of b.  The tip it builds on besides the checkpoint is
\* the highest among b's own and those of the peers that answered /status.
MeshBootstrap(b) ==
  /\ b \in plan.bridges \ booted
  /\ booted' = booted \cup {b}
  /\ \E answered \in SUBSET {a \in Peers(b) : b \in plan.bootstraps /\ IsUp(a, b)} :
       LET tips == {best[a] : a \in answered \cup {b}} \ {NoHeader}
       IN  IF tips = {} THEN UNCHANGED known
           ELSE \E tip \in tips :
                  /\ \A x \in tips : Height[tip] >= Height[x]
                  /\ known' = [known EXCEPT ![b] = @ \cup {tip}]
  /\ UNCHANGED <<chain, disk, writing, net, links>>

\* A BSV node sends b a batch that builds on a hash b's BSV client knows.  The
\* batch is announced to the mesh only once it is written.
OnBsvHeaders(b, batch) ==
  /\ b \in booted
  /\ batch \subseteq plan.sees[b]
  /\ \E x \in batch : prevHash[x] \in known[b] \cup {Checkpoint}
                        /\ prevHash[x] \notin batch
  /\ known' = [known EXCEPT ![b] = @ \cup batch]
  /\ Adopt(b, batch)
  /\ IF headers'[b] # headers[b]
     THEN PutHeaders(b, batch) /\ writing' = [writing EXCEPT ![b] = @ + 1]
     ELSE UNCHANGED <<disk, writing>>
  /\ UNCHANGED <<booted, net, links>>

\* The write ended: announceToAll.
AnnounceToAll(b) ==
  /\ writing[b] > 0
  /\ writing' = [writing EXCEPT ![b] = @ - 1]
  /\ net' = Broadcast(net, b, {}, Announce(best[b]))
  /\ UNCHANGED <<chain, disk, bsv, links>>

\* Mutant: an equal height is answered too.
AnswersEqual(height, own) == height <= own

\* b knows more than the announcing peer and tells it so.
Answers(height, own) == height < own

OnHeaderAnnounce(a, b) ==
  /\ Arrives(a, b, "header_announce")
  /\ LET height == Head(net[<<a, b>>]).height
         own    == HeightOf(best[b])
     IN  net' = IF height > own THEN Send(Consumed(a, b), b, a, Request(own + 1))
                ELSE IF Answers(height, own)
                     THEN Send(Consumed(a, b), b, a, Announce(best[b]))
                     ELSE Consumed(a, b)
  /\ UNCHANGED <<chain, disk, bsv, writing, links>>

\* Mutant: the response is filled from the newest header down.
FirstHeadersNewest(b, from) ==
  LET ahead == {x \in headers[b] : Height[x] >= from}
  IN  {x \in ahead : Cardinality({y \in ahead : Height[y] > Height[x]}) < plan.maxBatch}

\* The first headers b holds from this height on; a hole is skipped.
FirstHeaders(b, from) ==
  LET ahead == {x \in headers[b] : Height[x] >= from}
  IN  {x \in ahead : Cardinality({y \in ahead : Height[y] < Height[x]}) < plan.maxBatch}

OnHeaderRequest(a, b) ==
  /\ Arrives(a, b, "header_request")
  /\ LET reply == FirstHeaders(b, Head(net[<<a, b>>]).fromHeight)
     IN  net' = IF reply = {} THEN Consumed(a, b)
                ELSE Send(Consumed(a, b), b, a, Batch(reply))
  /\ UNCHANGED <<chain, disk, bsv, writing, links>>

\* Mutant: a full batch is taken for the last one.
AsksForMoreNever(batch) == FALSE

\* A full batch: the source may hold more, so it is told the new height.
AsksForMore(batch) == Cardinality(batch) >= plan.maxBatch

OnHeaders(a, b) ==
  /\ Arrives(a, b, "headers")
  /\ LET batch == Head(net[<<a, b>>]).headers
     IN  /\ Adopt(b, batch)
         /\ IF headers'[b] # headers[b]
            THEN /\ PutHeaders(b, batch)
                 /\ LET told == IF AsksForMore(batch) THEN {} ELSE {a}
                    IN  net' = Broadcast(Consumed(a, b), b, told, Announce(best'[b]))
            ELSE net' = Consumed(a, b) /\ UNCHANGED disk
  /\ UNCHANGED <<bsv, writing, links>>

\* The 'hello' handler of the accepting side: announce the best header.
Greet(queues, b, a) == [queues EXCEPT ![<<b, a>>] = <<Announce(best[b])>>]

\* a dials b; both handshakes done, b has handled the 'hello'.
Connect(a, b) ==
  /\ <<a, b>> \in Dials \ up /\ {a, b} \subseteq plan.bridges
  /\ net[<<a, b>>] = <<>> /\ net[<<b, a>>] = <<>>
  /\ up' = up \cup {<<a, b>>}
  /\ net' = Greet(net, b, a)
  /\ UNCHANGED <<chain, disk, bsv, writing, faults>>

\* The link breaks: what is received is still handled, the rest is lost.
Drop(a, b) ==
  /\ <<a, b>> \in up
  /\ faults.drops < plan.drops
  /\ faults' = [faults EXCEPT !.drops = @ + 1]
  /\ up' = up \ {<<a, b>>}
  /\ \E i \in 0 .. Len(net[<<a, b>>]), j \in 0 .. Len(net[<<b, a>>]) :
       net' = [net EXCEPT ![<<a, b>>] = SubSeq(@, 1, i),
                          ![<<b, a>>] = SubSeq(@, 1, j)]
  /\ UNCHANGED <<chain, disk, bsv, writing>>

\* Bridge b stops and starts again: the map starts empty, only the store stays.
\* Its peers may still handle what it sent.
Restart(b) ==
  /\ b \in plan.bridges /\ faults.restarts < plan.restarts
  /\ faults' = [faults EXCEPT !.restarts = @ + 1]
  /\ headers' = [headers EXCEPT ![b] = {}]
  /\ best' = [best EXCEPT ![b] = NoHeader]
  /\ known' = [known EXCEPT ![b] = {}]
  /\ booted' = booted \ {b}
  /\ writing' = [writing EXCEPT ![b] = 0]
  /\ up' = {l \in up : b \notin {l[1], l[2]}}
  /\ net' = [l \in Peering |-> IF l[2] = b THEN <<>> ELSE net[l]]
  /\ UNCHANGED disk

Receive(a, b) == OnHeaderAnnounce(a, b) \/ OnHeaderRequest(a, b) \/ OnHeaders(a, b)

Next ==
  \/ \E b \in Bridge : MeshBootstrap(b)
  \/ \E b \in Bridge, batch \in Segment : OnBsvHeaders(b, batch)
  \/ \E b \in Bridge : AnnounceToAll(b)
  \/ \E l \in Peering : OnHeaderAnnounce(l[1], l[2])
  \/ \E l \in Peering : OnHeaderRequest(l[1], l[2])
  \/ \E l \in Peering : OnHeaders(l[1], l[2])
  \/ \E l \in Dials : Connect(l[1], l[2])
  \/ \E l \in Dials : Drop(l[1], l[2])
  \/ \E b \in Bridge : Restart(b)

Spec == Init /\ [][Next]_vars

\* A bridge handles every message that arrives, completes its writes and redials
\* its peers; nothing is assumed of the BSV nodes.
FairSpec ==
  /\ Spec
  /\ \A l \in Peering : WF_vars(Receive(l[1], l[2]))
  /\ \A l \in Dials : WF_vars(Connect(l[1], l[2]))
  /\ \A b \in Bridge : WF_vars(AnnounceToAll(b))
------------------------------------------------------------------------------
(* Properties.                                                             *)

Message ==
  [type : {"header_announce"}, height : -1 .. MaxHeight]
    \cup [type : {"header_request"}, fromHeight : 0 .. MaxHeight]
    \cup [type : {"headers"}, headers : SUBSET Header]

OnePerHeight(S) == \A x, y \in S : Height[x] = Height[y] => x = y

\* The types, with what the header map and the store are keyed by: one header
\* per height, and bestHeight/bestHash the highest header of the map.
TypeOK ==
  /\ headers \in [Bridge -> SUBSET Header]
  /\ stored \in [Bridge -> SUBSET Header]
  /\ hashIndex \in [Bridge -> SUBSET Header]
  /\ known \in [Bridge -> SUBSET Header]
  /\ booted \subseteq Bridge
  /\ writing \in [Bridge -> Nat]
  /\ net \in [Peering -> Seq(Message)]
  /\ up \subseteq Dials
  /\ faults.plan \in DOMAIN Plans
  /\ faults.drops \in 0 .. plan.drops /\ faults.restarts \in 0 .. plan.restarts
  /\ \A b \in Bridge :
       /\ OnePerHeight(headers[b]) /\ OnePerHeight(stored[b])
       /\ IF headers[b] = {} THEN best[b] = NoHeader
          ELSE best[b] \in headers[b] /\ \A x \in headers[b] : Height[best[b]] >= Height[x]

\* A header that enters the map on top of a header already there, or added by
\* the same batch, names it as its parent: no batch, whatever part of it is
\* rejected, puts a block on a parent of another fork (addHeader, lines 48-52).
LinkedWhenAdded ==
  [][\A b \in Bridge : \A x \in headers'[b] \ headers[b] :
       At(headers'[b], Height[x] - 1) \subseteq {prevHash[x]}]_vars

\* No two of the blocks the BSV network shows have one height.
OneChain == OnePerHeight(UNION {plan.sees[b] : b \in Bridge})

\* "The header sync maintains the complete chain of block headers"
\* (docs/whitepaper.md:102): every header in the map has its parent in the map,
\* down to the checkpoint, so that it can serve every height up to its best; where
\* the chain has no forks and no bridge started at the tip of a peer.
NoHoles ==
  OneChain /\ plan.bootstraps = {} =>
    \A b \in Bridge : \A x \in headers[b] : prevHash[x] \in headers[b] \cup {Checkpoint}

\* One header per height, the best one the highest, and no hole below it.
HeadersConsistent == TypeOK /\ NoHoles

\* Propagation "ensures that all bridges in the mesh maintain synchronised header
\* chains" (docs/whitepaper.md:425): once breaks, restarts and new blocks end,
\* all bridges hold the same headers, if the chain has no forks.
ChainsSynchronise ==
  <>[](OneChain /\ plan.bootstraps = {}
         => \A a, b \in plan.bridges : headers[a] = headers[b])

\* Announcing back, asking for more and re-announcing never feed each other
\* forever, even between bridges on different forks: the mesh falls silent.
TrafficEnds == <>[](\A l \in Peering : net[l] = <<>>)
==============================================================================
