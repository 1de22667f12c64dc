------------------------------- MODULE PreAuth -------------------------------
(***************************************************************************)
(* The cap on inbound sockets that have not authenticated                  *)
(* (PeerManager.startServer, packages/bridge/lib/peer-manager.js).         *)
(*                                                                         *)
(* A socket takes a slot of its source address and a slot of the whole     *)
(* server when it is accepted, and gives both back when its handshake is   *)
(* complete or when it closes, whichever comes first.  A timer closes a    *)
(* socket that does not say hello, or does not verify, in time; the        *)
(* handler of the late message stays until the socket has closed.          *)
(***************************************************************************)
EXTENDS Integers, FiniteSets

CONSTANTS
  Ws,               \* sockets, each used once
  Ip,               \* source addresses
  Remote,           \* [Ws -> Ip] where a socket comes from
  MaxPreAuthPerIp,
  MaxPreAuthTotal

ASSUME SocketAssumption == IsFiniteSet(Ws) /\ Remote \in [Ws -> Ip]
ASSUME CapAssumption ==
  MaxPreAuthPerIp \in Nat \ {0} /\ MaxPreAuthTotal \in Nat \ {0}

VARIABLES
  preAuth,       \* [Ip -> SUBSET Ws] the sockets counted for an address
  preAuthTotal,  \* the number of sockets counted
  released,      \* [Ws -> BOOLEAN] _preAuthReleased
  stage,         \* [Ws -> Stage] what the server waits for from a socket
  up             \* [Ws -> {"open", "closing", "closed"}]

serverVars == <<preAuth, preAuthTotal, released, stage, up>>

\* "refused": over the cap, no listener attached; "done": handshake failed.
Stage == {"new", "refused", "hello", "verify", "peer", "done"}

ServerInit ==
  /\ preAuth = [i \in Ip |-> {}]
  /\ preAuthTotal = 0
  /\ released = [w \in Ws |-> FALSE]
  /\ stage = [w \in Ws |-> "new"]
  /\ up = [w \in Ws |-> "open"]

\* Mutant: releasePreAuth does not remember that it ran.
ReleaseAlways(w) ==
  /\ released' = released
  /\ preAuth' = [preAuth EXCEPT ![Remote[w]] = @ \ {w}]
  /\ preAuthTotal' = IF preAuthTotal > 0 THEN preAuthTotal - 1 ELSE 0

\* releasePreAuth: once.
ReleasePreAuth(w) ==
  IF released[w]
  THEN UNCHANGED <<preAuth, preAuthTotal, released>>
  ELSE /\ released' = [released EXCEPT ![w] = TRUE]
       /\ preAuth' = [preAuth EXCEPT ![Remote[w]] = @ \ {w}]
       /\ preAuthTotal' = IF preAuthTotal > 0 THEN preAuthTotal - 1 ELSE 0

\* Mutant: the last slot of an address is given away twice.
OverCapByOne(w) ==
  \/ Cardinality(preAuth[Remote[w]]) > MaxPreAuthPerIp
  \/ preAuthTotal > MaxPreAuthTotal

OverCap(w) ==
  \/ Cardinality(preAuth[Remote[w]]) >= MaxPreAuthPerIp
  \/ preAuthTotal >= MaxPreAuthTotal

\* A socket arrives and is refused, or takes its slots and waits for hello.
OnConnection(w) ==
  /\ stage[w] = "new"
  /\ IF OverCap(w)
     THEN /\ stage' = [stage EXCEPT ![w] = "refused"]
          /\ up' = [up EXCEPT ![w] = "closing"]
          /\ UNCHANGED <<preAuth, preAuthTotal>>
     ELSE /\ stage' = [stage EXCEPT ![w] = "hello"]
          /\ preAuth' = [preAuth EXCEPT ![Remote[w]] = @ \cup {w}]
          /\ preAuthTotal' = preAuthTotal + 1
          /\ UNCHANGED up
  /\ UNCHANGED released

\* The first message is a hello that calls for a challenge.
OnFirstHello(w) ==
  /\ stage[w] = "hello" /\ up[w] # "closed"
  /\ stage' = [stage EXCEPT ![w] = "verify"]
  /\ UNCHANGED <<preAuth, preAuthTotal, released, up>>

\* The expected message is refused: malformed, unregistered, unsigned, or its
\* sender is connected already.
OnRefusal(w) ==
  /\ stage[w] \in {"hello", "verify"} /\ up[w] # "closed"
  /\ stage' = [stage EXCEPT ![w] = "done"]
  /\ up' = [up EXCEPT ![w] = "closing"]
  /\ UNCHANGED <<preAuth, preAuthTotal, released>>

\* verify, or a legacy hello, is accepted: the socket belongs to a peer.
OnAccept(w) ==
  /\ stage[w] \in {"hello", "verify"} /\ up[w] # "closed"
  /\ stage' = [stage EXCEPT ![w] = "peer"]
  /\ ReleasePreAuth(w)
  /\ UNCHANGED up

\* Mutant: only the wait for hello is timed.
TimedHelloOnly(w) == stage[w] = "hello" /\ up[w] = "open"

\* A timer runs while hello or verify is awaited.
Timed(w) == stage[w] \in {"hello", "verify"} /\ up[w] = "open"

OnTimeout(w) ==
  /\ Timed(w)
  /\ up' = [up EXCEPT ![w] = "closing"]
  /\ UNCHANGED <<preAuth, preAuthTotal, released, stage>>

\* The socket has closed, on either side's demand.
OnClose(w) ==
  /\ stage[w] # "new" /\ up[w] # "closed"
  /\ up' = [up EXCEPT ![w] = "closed"]
  /\ IF stage[w] = "refused"
     THEN UNCHANGED <<preAuth, preAuthTotal, released>>
     ELSE ReleasePreAuth(w)
  /\ UNCHANGED stage

ServerNext ==
  \/ \E w \in Ws : OnConnection(w)
  \/ \E w \in Ws : OnFirstHello(w)
  \/ \E w \in Ws : OnRefusal(w)
  \/ \E w \in Ws : OnAccept(w)
  \/ \E w \in Ws : OnTimeout(w)
  \/ \E w \in Ws : OnClose(w)

ServerSpec == ServerInit /\ [][ServerNext]_serverVars

\* Timers fire, and a socket that is closing closes (ws waits 30 s for the other
\* side at most).  Nothing makes the other side speak.
FairServerSpec ==
  /\ ServerSpec
  /\ \A w \in Ws : WF_serverVars(OnTimeout(w)) /\ WF_serverVars(up[w] = "closing" /\ OnClose(w))

------------------------------------------------------------------------------
(* Properties.                                                             *)

\* The types; the total of the counted sockets never leaves the naturals.
ServerTypeOK ==
  /\ preAuth \in [Ip -> SUBSET Ws]
  /\ preAuthTotal \in Nat
  /\ released \in [Ws -> BOOLEAN]
  /\ stage \in [Ws -> Stage]
  /\ up \in [Ws -> {"open", "closing", "closed"}]

\* Sockets the server has taken on that have neither authenticated nor closed.
Anonymous(w) == stage[w] \in {"hello", "verify", "done"} /\ up[w] # "closed"

\* However sockets come, time out, answer late and close, the number of those
\* held open without authentication keeps to both caps.
CapsHold ==
  /\ Cardinality({w \in Ws : Anonymous(w)}) <= MaxPreAuthTotal
  /\ \A i \in Ip :
       Cardinality({w \in Ws : Anonymous(w) /\ Remote[w] = i}) <= MaxPreAuthPerIp

\* Every slot comes back without any help of the other side, and in the end the
\* counters know no socket that is gone.
SlotsReturn ==
  \A w \in Ws : w \in preAuth[Remote[w]] ~> w \notin preAuth[Remote[w]]

Counted == UNION {preAuth[i] : i \in Ip}

Free    == MaxPreAuthTotal - preAuthTotal

Pool == INSTANCE SlotPool
          WITH User <- Ws, Cap <- MaxPreAuthTotal, held <- Counted, free <- Free

\* The bookkeeping implements a pool of MaxPreAuthTotal slots: what is counted
\* is taken and given back one socket at a time and never exceeds the pool.
PoolSpec == Pool!Spec
==============================================================================
