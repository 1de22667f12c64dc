------------------------------ MODULE PeerLink ------------------------------
(***************************************************************************)
(* How two bridges come to hold one connection to each other               *)
(* (packages/bridge: lib/peer-manager.js, lib/peer-connection.js,          *)
(* lib/handshake.js, lib/anchor-manager.js, and performOutboundHandshake   *)
(* of cli.js).                                                             *)
(*                                                                         *)
(* Either bridge may dial the other, both at once.  The dialler sends      *)
(* hello, the other end answers with challenge_response, the dialler with  *)
(* verify.  Each end keeps one PeerConnection per peer in its map; when it *)
(* finds a second one, a tie-break by pubkey decides which to destroy.     *)
(* An outbound PeerConnection that was not destroyed dials again whenever  *)
(* its socket closes.                                                      *)
(*                                                                         *)
(* The cryptography is abstracted to what it decides: a challenge_response *)
(* answers the first hello of its socket, and both bridges hold their keys.*)
(* The upgrade of a socket is seen by both ends at once.  A close frame, a *)
(* failed connection attempt and a broken connection reach an end as the   *)
(* message "fin", the last it handles.                                     *)
(***************************************************************************)
EXTENDS Integers, Sequences, FiniteSets

CONSTANTS
  Node,        \* the two bridges
  Lower,       \* the one with the lower pubkey
  Dials,       \* bound: PeerConnections a bridge creates, 1 .. n
  Slots,       \* bound: sockets of one PeerConnection alive at once, 1 .. n
  Plans        \* what may happen in a behaviour: one of these plans is its own

\* A plan.
Plan ==
  [dialers : SUBSET Node,     \* bridges that connect to the other on their own
   aliased : SUBSET Node,     \* dialers that know an endpoint only: placeholder key
   seeding : SUBSET Node,     \* bridges that have the other as a seed: no registry check
   registering : SUBSET Node, \* bridges whose registry has, or will have, the other
   rediscover : SUBSET Node,  \* bridges that may be told to connect once more
   anchoring : SUBSET Node,   \* bridges that have the other as an anchor
   dials : Dials, slots : Slots, \* how many of these bounds it uses
   breaks : Nat,              \* bounds: connections broken, attempts that fail,
   timeouts : Nat,            \*   handshake timers that expire,
   apps : Nat]                \*   broadcasts of other modules during a handshake

ASSUME NodeAssumption == IsFiniteSet(Node) /\ Cardinality(Node) = 2 /\ Lower \in Node
ASSUME PlanAssumption ==
  /\ Dials \subseteq Nat \ {0} /\ \A m \in Dials : 1 .. m \subseteq Dials
  /\ Slots \subseteq Nat \ {0} /\ \A m \in Slots : 1 .. m \subseteq Slots
  /\ Plans \subseteq Plan

Peer(n) == CHOOSE m \in Node : m # n
Key     == {"id", "alias"}          \* keys of a map: the pubkey, a placeholder

Outbound == Node \X Dials           \* PeerConnections made by connectToPeer
Socket   == Node \X Dials \X Slots  \* a socket, named by its dialling end; also the
                                    \* PeerConnection acceptPeer makes at the other end
NoConn   == <<>>

Owner(s)    == <<s[1], s[2]>>
SocketOf(c, k) == <<c[1], c[2], k>>
Acceptor(s) == Peer(s[1])

VARIABLES
  peers,    \* [Node -> [Key -> Outbound \cup Socket \cup {NoConn}]]
  conn,     \* [Outbound -> state of the PeerConnection]
  sock,     \* [Socket -> state of its two ends and what is under way]
  trusts,   \* [Node -> BOOLEAN] registeredPubkeys has the other bridge
  budget    \* the plan, and what is left of its bounds

plan == budget.plan
vars == <<peers, conn, sock, trusts, budget>>

Conn == [status : {"unborn", "live", "destroyed"},
         key : Key,                 \* pubkeyHex: the real one or the placeholder
         listeners : 0 .. 2,        \* 'open' listeners that start a handshake
         cur : Slots \cup {0}]      \* its socket; 0: none, or a redial is pending

Sock == [d : {"none", "connecting", "open", "closing", "closed"},
         r : {"none", "hello", "verify", "accepted", "done", "closed"},
         ropen : BOOLEAN,           \* the accepting end may still send
         handlers : 0 .. 2,         \* handshakes waiting for challenge_response
         toR : Seq({"hello", "verify", "app", "fin"}),
         toD : Seq({"cr", "fin"})]

NoSock == [d |-> "none", r |-> "none", ropen |-> FALSE, handlers |-> 0,
           toR |-> <<>>, toD |-> <<>>]

IsOutbound(ref) == ref \in Outbound
CurSock(c)      == SocketOf(c, conn[c].cur)

\* conn.connected
Connected(ref) ==
  IF IsOutbound(ref)
  THEN conn[ref].status = "live" /\ conn[ref].cur # 0 /\ sock[CurSock(ref)].d = "open"
  ELSE sock[ref].r = "accepted" /\ sock[ref].ropen

------------------------------------------------------------------------------
(* Closing.                                                                *)

\* ws.close() at the dialling end; an attempt under way is aborted.
CloseD(e) ==
  CASE e.d = "connecting" -> [e EXCEPT !.d = "closing", !.toD = Append(@, "fin")]
    [] e.d = "open"       -> [e EXCEPT !.d = "closing", !.toR = Append(@, "fin")]
    [] OTHER              -> e

\* ws.close() at the accepting end.
CloseR(e) ==
  IF e.ropen THEN [e EXCEPT !.ropen = FALSE, !.toD = Append(@, "fin")] ELSE e

\* PeerConnection.destroy: no reconnect, close the socket, if ref is one.
DestroyConn(cs, ref) ==
  IF IsOutbound(ref) THEN [cs EXCEPT ![ref].status = "destroyed"] ELSE cs

\* Mutant: the connection is forgotten, its socket stays open.
LeaveSock(ss, ref) == ss

DestroySock(ss, ref) ==
  IF ref = NoConn THEN ss
  ELSE IF ~IsOutbound(ref) THEN [ss EXCEPT ![ref] = CloseR(@)]
  ELSE IF conn[ref].cur = 0 THEN ss
  ELSE [ss EXCEPT ![CurSock(ref)] = CloseD(@)]

\* A socket both ends have done with.
Cleared(e) ==
  IF e.d \in {"none", "closed"} /\ e.r \in {"none", "closed"} THEN NoSock ELSE e

------------------------------------------------------------------------------
Init ==
  /\ peers = [n \in Node |-> [k \in Key |-> NoConn]]
  /\ conn = [c \in Outbound |->
               [status |-> "unborn", key |-> "id", listeners |-> 0, cur |-> 0]]
  /\ sock = [s \in Socket |-> NoSock]
  /\ \E p \in Plans :
       /\ budget = [plan |-> p, breaks |-> p.breaks, timeouts |-> p.timeouts, apps |-> p.apps]
       /\ trusts \in [Node -> BOOLEAN] /\ \A n \in Node : trusts[n] => n \in p.registering

FreeSlot(c, k) == sock[SocketOf(c, k)].d = "none"

\* A new PeerConnection of n under this key, and its first socket.
NewConn(n, key, listeners) ==
  \E i \in 1 .. plan.dials :
    LET c == <<n, i>>
    IN  /\ conn[c].status = "unborn"
        /\ \A j \in Dials : j < i => conn[<<n, j>>].status # "unborn"
        /\ \E k \in Slots :
             /\ \A l \in Slots : k <= l
             /\ conn' = [conn EXCEPT ![c] = [status |-> "live", key |-> key,
                                             listeners |-> listeners, cur |-> k]]
             /\ sock' = [sock EXCEPT ![SocketOf(c, k)].d = "connecting"]
        /\ peers' = [peers EXCEPT ![n][key] = c]
        /\ UNCHANGED <<trusts, budget>>

DialKey(n) == IF n \in plan.aliased THEN "alias" ELSE "id"

\* connectToPeer of a peer not in the map; the caller adds an 'open' listener.
ConnectToPeer(n) ==
  /\ n \in plan.dialers
  /\ \A i \in Dials : conn[<<n, i>>].status = "unborn"
  /\ peers[n][DialKey(n)] = NoConn
  /\ NewConn(n, DialKey(n), 1)

\* connectToPeer of a peer in the map returns what is there, to which the caller
\* adds another listener.  An inbound connection never emits 'open'.
ConnectAgain(n) ==
  /\ n \in plan.rediscover
  /\ LET c == peers[n][DialKey(n)]
     IN  /\ IsOutbound(c)
         /\ conn[c].listeners = 1
         /\ conn' = [conn EXCEPT ![c].listeners = 2]
  /\ UNCHANGED <<peers, sock, trusts, budget>>

\* AnchorManager.ensureConnections: a connection that is down leaves the map as
\* it is, and connectToPeer makes another.
EnsureAnchor(n) ==
  /\ n \in plan.anchoring
  /\ peers[n]["id"] # NoConn => ~Connected(peers[n]["id"])
  /\ NewConn(n, "id", 0)

\* The socket opens: every listener sends a hello and waits for the answer.
OnOpen(s) ==
  /\ sock[s].d = "connecting"
  /\ LET L == conn[Owner(s)].listeners
     IN  sock' = [sock EXCEPT ![s] = [@ EXCEPT
           !.d = "open", !.r = "hello", !.ropen = TRUE, !.handlers = L,
           !.toR = [i \in 1 .. L |-> "hello"]]]
  /\ UNCHANGED <<peers, conn, trusts, budget>>

\* _scheduleReconnect, and connect when its timer fires.
Reconnect(c) ==
  /\ conn[c].status = "live" /\ conn[c].cur = 0
  /\ \E k \in 1 .. plan.slots :
       /\ FreeSlot(c, k)
       /\ \A l \in Slots : FreeSlot(c, l) => k <= l
       /\ conn' = [conn EXCEPT ![c].cur = k]
       /\ sock' = [sock EXCEPT ![SocketOf(c, k)].d = "connecting"]
  /\ UNCHANGED <<peers, trusts, budget>>

------------------------------------------------------------------------------
(* The accepting end.                                                      *)

\* The message of type m is next at the accepting end of s.
AtR(s, m) == sock[s].r # "closed" /\ sock[s].toR # <<>> /\ Head(sock[s].toR) = m

Taken(s) == [sock EXCEPT ![s].toR = Tail(@)]

RegistryOk(n) == n \in plan.seeding \/ trusts[n]

\* handleHello: a challenge_response, or an error if the registry lacks the pubkey.
HandleHello(n, e) ==
  IF RegistryOk(n)
  THEN [e EXCEPT !.r = "verify", !.toD = IF e.ropen THEN Append(@, "cr") ELSE @]
  ELSE [CloseR(e) EXCEPT !.r = "done"]

\* First message: hello.
OnHello(s) ==
  /\ AtR(s, "hello") /\ sock[s].r = "hello"
  /\ sock' = [Taken(s) EXCEPT ![s] = HandleHello(Acceptor(s), @)]
  /\ UNCHANGED <<peers, conn, trusts, budget>>

\* A first message that is no hello, or a second that is no verify: error, close.
OnUnexpected(s) ==
  /\ \/ AtR(s, "app") /\ sock[s].r \in {"hello", "verify"}
     \/ AtR(s, "verify") /\ sock[s].r = "hello"
     \/ AtR(s, "hello") /\ sock[s].r = "verify"
  /\ sock' = [Taken(s) EXCEPT ![s] = [CloseR(@) EXCEPT !.r = "done"]]
  /\ UNCHANGED <<peers, conn, trusts, budget>>

\* Any other message after that is not the handshake's business.
OnLaterMessage(s) ==
  /\ sock[s].r \in {"accepted", "done"}
  /\ AtR(s, "hello") \/ AtR(s, "verify") \/ AtR(s, "app")
  /\ sock' = Taken(s)
  /\ UNCHANGED <<peers, conn, trusts, budget>>

\* Mutant: no tie-break, each end keeps the connection it has.
KeepsExistingAlways(n, existing) == Connected(existing)

\* The tie-break for an inbound connection: the lower pubkey keeps a working
\* connection it has; otherwise the new one replaces it.
KeepsExisting(n, existing) == Connected(existing) /\ n = Lower

\* Second message: verify.  acceptPeer puts the connection in the map.
OnVerify(s) ==
  /\ AtR(s, "verify") /\ sock[s].r = "verify"
  /\ LET n        == Acceptor(s)
         existing == peers[n]["id"]
     IN  IF existing # NoConn /\ KeepsExisting(n, existing)
         THEN /\ sock' = [Taken(s) EXCEPT ![s] = [CloseR(@) EXCEPT !.r = "done"]]
              /\ UNCHANGED <<peers, conn, trusts>>
         ELSE /\ sock' = DestroySock([Taken(s) EXCEPT ![s].r = "accepted"], existing)
              /\ conn' = DestroyConn(conn, existing)
              /\ peers' = [peers EXCEPT ![n]["id"] = s]
              /\ trusts' = [trusts EXCEPT ![n] = @ \/ n \in plan.seeding]
  /\ UNCHANGED budget

\* Mutant: the close handler deletes the entry whichever connection it holds.
RemovedAny(n, ref) == [peers EXCEPT ![n]["id"] = NoConn]

\* The close handler deletes the entry if the map still holds this connection.
Removed(n, ref) ==
  [peers EXCEPT ![n] = [k \in Key |-> IF @[k] = ref THEN NoConn ELSE @[k]]]

\* The accepting end sees the socket close.
OnCloseR(s) ==
  /\ AtR(s, "fin")
  /\ sock' = [sock EXCEPT ![s] = Cleared([CloseR(@) EXCEPT !.r = "closed", !.toR = <<>>])]
  /\ peers' = IF sock[s].r = "accepted" THEN Removed(Acceptor(s), s) ELSE peers
  /\ UNCHANGED <<conn, trusts, budget>>

------------------------------------------------------------------------------
(* The dialling end.                                                       *)

AtD(s, m) == sock[s].d # "closed" /\ sock[s].toD # <<>> /\ Head(sock[s].toD) = m

\* A connection dialled under a placeholder leaves it.
Rekeyed(n, c) ==
  [peers EXCEPT ![n]["alias"] = IF conn[c].key = "alias" THEN NoConn ELSE @]

\* handleChallengeResponse: the nonce of the first handshake that waits is
\* signed, a second one's is not.
Verifies(s) == sock[s].handlers > 0 /\ RegistryOk(s[1])
Unsigned(s) == sock[s].handlers = 2

\* challenge_response.  The first handshake waiting for it checks the registry,
\* moves the connection to the peer's pubkey, breaks a tie and sends verify; a
\* second one finds its own nonce unsigned and destroys the connection.
OnChallengeResponse(s) ==
  /\ AtD(s, "cr")
  /\ LET n        == s[1]
         c        == Owner(s)
         e        == [sock[s] EXCEPT !.toD = Tail(@), !.handlers = 0]
         taken    == [sock EXCEPT ![s] = e]
         rekeyed  == Rekeyed(n, c)
         existing == IF rekeyed[n]["id"] = c THEN NoConn ELSE rekeyed[n]["id"]
         verified == IF conn[c].status = "live"
                     THEN [taken EXCEPT ![s].toR = Append(@, "verify")] ELSE taken
         dropped  == n # Lower /\ existing # NoConn /\ Connected(existing)
         named    == [conn EXCEPT ![c].key = "id"]
     IN  CASE sock[s].handlers = 0 ->
                sock' = taken /\ UNCHANGED <<peers, conn, trusts>>
           [] sock[s].handlers > 0 /\ ~Verifies(s) ->
                /\ sock' = DestroySock(taken, c)
                /\ conn' = DestroyConn(conn, c)
                /\ UNCHANGED <<peers, trusts>>
           [] Verifies(s) /\ dropped ->
                /\ sock' = DestroySock(taken, c)
                /\ conn' = DestroyConn(named, c)
                /\ peers' = rekeyed
                /\ UNCHANGED trusts
           [] OTHER ->
                /\ peers' = [rekeyed EXCEPT ![n]["id"] = c]
                /\ trusts' = [trusts EXCEPT ![n] = @ \/ n \in plan.seeding]
                /\ LET spare == IF Unsigned(s) THEN c ELSE NoConn
                   IN  /\ sock' = DestroySock(DestroySock(verified, existing), spare)
                       /\ conn' = DestroyConn(DestroyConn(named, existing), spare)
  /\ UNCHANGED budget

\* The dialling end sees the socket close.  A live connection stays in the map
\* and will dial again.
OnCloseD(s) ==
  /\ AtD(s, "fin")
  /\ LET c == Owner(s)
         e == IF sock[s].d = "open" THEN [sock[s] EXCEPT !.toR = Append(@, "fin")] ELSE sock[s]
     IN  /\ sock' = [sock EXCEPT ![s] =
                       Cleared([e EXCEPT !.d = "closed", !.toD = <<>>, !.handlers = 0])]
         /\ conn' = [conn EXCEPT ![c].cur = 0]
         /\ peers' = IF conn[c].status = "destroyed" THEN Removed(s[1], c) ELSE peers
  /\ UNCHANGED <<trusts, budget>>

------------------------------------------------------------------------------
(* The environment.                                                        *)

\* The connection breaks: what was received is still handled.
Break(s) ==
  /\ budget.breaks > 0
  /\ sock[s].d = "open" /\ sock[s].ropen
  /\ \E i \in 0 .. Len(sock[s].toR), j \in 0 .. Len(sock[s].toD) :
       sock' = [sock EXCEPT ![s].toR = Append(SubSeq(@, 1, i), "fin"),
                            ![s].toD = Append(SubSeq(@, 1, j), "fin")]
  /\ budget' = [budget EXCEPT !.breaks = @ - 1]
  /\ UNCHANGED <<peers, conn, trusts>>

\* A connection attempt fails.
ConnectFails(s) ==
  /\ budget.breaks > 0
  /\ sock[s].d = "connecting"
  /\ sock' = [sock EXCEPT ![s] = CloseD(@)]
  /\ budget' = [budget EXCEPT !.breaks = @ - 1]
  /\ UNCHANGED <<peers, conn, trusts>>

\* No message is on its way to the accepting end, nor any that the dialling end
\* would answer.
Stalled(s) == sock[s].toR = <<>> /\ sock[s].toD = <<>> /\ sock[s].handlers = 0

\* 10 s without hello, or without verify: the socket is closed.  The handler of
\* the late message stays.  Where a message would still come, the timer is fast.
AcceptTimeout(s) ==
  /\ sock[s].r \in {"hello", "verify"} /\ sock[s].ropen
  /\ ~Stalled(s) => budget.timeouts > 0
  /\ sock' = [sock EXCEPT ![s] = CloseR(@)]
  /\ budget' = [budget EXCEPT !.timeouts = IF Stalled(s) THEN @ ELSE @ - 1]
  /\ UNCHANGED <<peers, conn, trusts>>

\* 10 s without challenge_response: the connection is destroyed.
DialTimeout(s) ==
  /\ budget.timeouts > 0
  /\ sock[s].handlers > 0
  /\ LET c    == Owner(s)
         gone == IF Connected(c) THEN c ELSE NoConn
     IN  /\ sock' = [DestroySock(sock, gone) EXCEPT ![s].handlers = 0]
         /\ conn' = DestroyConn(conn, gone)
  /\ budget' = [budget EXCEPT !.timeouts = @ - 1]
  /\ UNCHANGED <<peers, trusts>>

\* Some module broadcasts to all connections in the map, also to one whose
\* verify has not been sent.
AppBroadcast(n) ==
  /\ budget.apps > 0
  /\ \E k \in Key : IsOutbound(peers[n][k]) /\ Connected(peers[n][k])
                      /\ sock[CurSock(peers[n][k])].handlers > 0
  /\ sock' = [s \in Socket |->
       IF /\ \E k \in Key : peers[n][k] = Owner(s)
          /\ Connected(Owner(s)) /\ CurSock(Owner(s)) = s
       THEN [sock[s] EXCEPT !.toR = Append(@, "app")] ELSE sock[s]]
  /\ budget' = [budget EXCEPT !.apps = @ - 1]
  /\ UNCHANGED <<peers, conn, trusts>>

\* discoverNewPeers or the beacon watcher registers the other bridge's pubkey.
Register(n) ==
  /\ n \in plan.registering /\ ~trusts[n]
  /\ trusts' = [trusts EXCEPT ![n] = TRUE]
  /\ UNCHANGED <<peers, conn, sock, budget>>

Handle(s) ==
  \/ OnHello(s) \/ OnUnexpected(s) \/ OnLaterMessage(s) \/ OnVerify(s) \/ OnCloseR(s)
  \/ OnChallengeResponse(s) \/ OnCloseD(s)

Next ==
  \/ \E n \in Node : ConnectToPeer(n)
  \/ \E n \in Node : ConnectAgain(n)
  \/ \E n \in Node : EnsureAnchor(n)
  \/ \E n \in Node : AppBroadcast(n)
  \/ \E n \in Node : Register(n)
  \/ \E c \in Outbound : Reconnect(c)
  \/ \E s \in Socket : OnOpen(s)
  \/ \E s \in Socket : OnHello(s)
  \/ \E s \in Socket : OnUnexpected(s)
  \/ \E s \in Socket : OnLaterMessage(s)
  \/ \E s \in Socket : OnVerify(s)
  \/ \E s \in Socket : OnCloseR(s)
  \/ \E s \in Socket : OnChallengeResponse(s)
  \/ \E s \in Socket : OnCloseD(s)
  \/ \E s \in Socket : Break(s)
  \/ \E s \in Socket : ConnectFails(s)
  \/ \E s \in Socket : AcceptTimeout(s)
  \/ \E s \in Socket : DialTimeout(s)

Spec == Init /\ [][Next]_vars

\* Each bridge dials at startup, its timers fire, its event loop handles what
\* has arrived, and the registry is refreshed.
FairSpec ==
  /\ Spec
  /\ \A n \in Node : WF_vars(ConnectToPeer(n)) /\ WF_vars(EnsureAnchor(n))
                       /\ WF_vars(Register(n))
  /\ \A c \in Outbound : WF_vars(Reconnect(c))
  /\ \A s \in Socket : WF_vars(OnOpen(s)) /\ WF_vars(Handle(s))
                         /\ WF_vars(Stalled(s) /\ AcceptTimeout(s))
------------------------------------------------------------------------------
(* Properties.                                                             *)

\* The types, and the shape of the maps: each bridge's map holds its own outbound
\* connections under the key they have, and accepted ones under the pubkey.
TypeOK ==
  /\ peers \in [Node -> [Key -> Outbound \cup Socket \cup {NoConn}]]
  /\ \A n \in Node, k \in Key, c \in Outbound :
       peers[n][k] = c => c[1] = n /\ conn[c].key = k /\ conn[c].status # "unborn"
  /\ \A n \in Node, k \in Key, s \in Socket :
       peers[n][k] = s => Acceptor(s) = n /\ k = "id" /\ sock[s].r = "accepted"
  /\ conn \in [Outbound -> Conn]
  /\ sock \in [Socket -> Sock]
  /\ trusts \in [Node -> BOOLEAN]
  /\ budget \in [plan : Plans, breaks : Nat, timeouts : Nat, apps : Nat]
  /\ budget.breaks \in 0 .. plan.breaks
  /\ budget.timeouts \in 0 .. plan.timeouts
  /\ budget.apps \in 0 .. plan.apps

\* s carries the connection both bridges hold in their maps.
LinkedBy(s) ==
  /\ sock[s].d = "open" /\ sock[s].r = "accepted" /\ sock[s].ropen
  /\ peers[s[1]]["id"] = Owner(s) /\ conn[Owner(s)].status = "live"
  /\ peers[Acceptor(s)]["id"] = s

Linked == \E s \in Socket : LinkedBy(s)

\* Nothing is under way: no message, no handshake, no closing or opening socket.
Quiet ==
  \A s \in Socket :
    /\ sock[s].d \in {"none", "open"}
    /\ sock[s].r \in {"none", "accepted"}
    /\ sock[s].toR = <<>> /\ sock[s].toD = <<>>

\* Whatever the two bridges did at once, when nothing is under way they agree:
\* no socket is open but the one both maps hold, and a connection one of them
\* holds as connected is the one the other holds.
MapsAgree ==
  Quiet => /\ \A s \in Socket : sock[s].d = "open" => LinkedBy(s)
           /\ \A n \in Node :
                peers[n]["id"] # NoConn /\ Connected(peers[n]["id"]) => Linked

\* The shape of the maps, and that they agree.
MapsConsistent == TypeOK /\ MapsAgree

\* Connected to twice under a placeholder: one hello for each 'open' listener.
Twice(n) == n \in plan.rediscover /\ n \in plan.aliased \cup plan.anchoring

\* A working connection gives way to a working one only, where no timer fires
\* with the answer on its way.  The exception is a connection listened to twice
\* that the map does not show under the pubkey: it may replace a working inbound
\* one, and its second hello's answer then destroys it.
ReplacedByWorking ==
  [][\A n \in Node, a, b \in Outbound \cup Socket :
       (/\ plan.timeouts = 0 /\ ~Twice(n)
        /\ peers[n]["id"] = a /\ Connected(a) /\ peers'[n]["id"] = b /\ a # b)
       => Connected(b)']_vars

\* Plans of which a link must come: both dial and nothing breaks, or one dials;
\* the registries fill, and no connection is made, or listened to, twice.
Settles(p) ==
  /\ p.dialers # {} /\ p.registering = Node /\ p.rediscover = {} /\ p.anchoring = {}
  /\ p.timeouts = 0
  /\ p.dialers = Node => p.breaks = 0

\* Dialled by one bridge or by both at once, under a placeholder or not, with
\* registries that fill late: sooner or later one connection is in both maps, and
\* stays when no more connections break.
LinksUp == <>[](Settles(plan) => Linked)
==============================================================================
