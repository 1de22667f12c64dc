--------------------------- MODULE PeerManagerProofs ---------------------------
(***************************************************************************)
(* Proofs about the two specifications of a bridge's peer manager, for     *)
(* every value of their constants.                                         *)
(*                                                                         *)
(* PreAuth: the caps on unauthenticated sockets hold, and the counters     *)
(* implement a pool of slots.  The counters are shown to be the exact      *)
(* image of the set of sockets that hold a slot; that is where it matters  *)
(* that a slot is released once.                                           *)
(*                                                                         *)
(* PeerLink: when nothing is under way the two bridges agree on the one    *)
(* connection between them, and a working connection gives way to a        *)
(* working one only.  The invariant says of each socket how its two ends   *)
(* and its PeerConnection stand to each other, and that a bridge's map     *)
(* holds whatever socket its own end counts on: a map that lost one would  *)
(* leave it open for ever.                                                 *)
(***************************************************************************)
EXTENDS PeerLink, PreAuth, FiniteSetTheorems, TLAPS

------------------------------------------------------------------------------
(* PreAuth.                                                                *)

\* The sockets that hold a slot.
Holding == {w \in Ws : stage[w] \notin {"new", "refused"} /\ ~released[w]}
HoldingOf(i) == {w \in Holding : Remote[w] = i}

\* A slot goes back when the socket authenticates or closes, not before.
ReleasedInTime ==
  \A w \in Ws :
    /\ stage[w] \in {"new", "refused"} => ~released[w]
    /\ stage[w] = "new" => up[w] = "open"
    /\ stage[w] \in {"hello", "verify", "done"} => (released[w] <=> up[w] = "closed")
    /\ stage[w] = "peer" => released[w]

CountersExact ==
  /\ preAuth = [i \in Ip |-> HoldingOf(i)]
  /\ preAuthTotal = Cardinality(Holding)

CountersCapped ==
  /\ preAuthTotal <= MaxPreAuthTotal
  /\ \A i \in Ip : Cardinality(preAuth[i]) <= MaxPreAuthPerIp

\* The inductive invariant.
PreAuthInv == ServerTypeOK /\ ReleasedInTime /\ CountersExact /\ CountersCapped

\* The sockets that should be counted are finitely many.
LEMMA HoldingFinite ==
  /\ IsFiniteSet(Holding)
  /\ \A i : IsFiniteSet(HoldingOf(i))
BY SocketAssumption, FS_Subset DEF Holding, HoldingOf

\* The invariant holds before the first socket.
THEOREM PreAuthInit ==
  ServerInit => PreAuthInv
<1> SUFFICES ASSUME ServerInit PROVE PreAuthInv
  OBVIOUS
<1>1. Holding = {} /\ \A i : HoldingOf(i) = {}
  BY DEF ServerInit, Holding, HoldingOf
<1>2. ServerTypeOK
  BY DEF ServerInit, ServerTypeOK, Stage
<1>3. ReleasedInTime
  BY DEF ServerInit, ReleasedInTime
<1>4. CountersExact /\ CountersCapped
  BY <1>1, FS_EmptySet, CapAssumption DEF ServerInit, CountersExact, CountersCapped
<1> QED
  BY <1>2, <1>3, <1>4 DEF PreAuthInv

\* A release gives back exactly the slots of a socket that holds them.
LEMMA ReleaseFacts ==
  ASSUME PreAuthInv, NEW w \in Holding, ReleasePreAuth(w),
         Holding' = Holding \ {w}
  PROVE  /\ preAuth' \in [Ip -> SUBSET Ws] /\ preAuthTotal' \in Nat
         /\ CountersExact' /\ CountersCapped'
<1>1. /\ preAuth' = [preAuth EXCEPT ![Remote[w]] = @ \ {w}]
      /\ preAuthTotal' = IF preAuthTotal > 0 THEN preAuthTotal - 1 ELSE 0
  BY DEF ReleasePreAuth, Holding
<1>2. w \in Ws /\ Remote[w] \in Ip
  BY SocketAssumption DEF Holding
<1>3. Cardinality(Holding') = Cardinality(Holding) - 1
  BY HoldingFinite, FS_RemoveElement
<1>4. Cardinality(Holding) \in Nat /\ Cardinality(Holding') \in Nat
  <2>1. IsFiniteSet(Holding \ {w})
    BY HoldingFinite, FS_RemoveElement
  <2> QED
    BY <2>1, HoldingFinite, FS_CardinalityType
<1>5. preAuthTotal' = Cardinality(Holding')
  BY <1>1, <1>3, <1>4 DEF PreAuthInv, CountersExact
<1>6. preAuth' = [i \in Ip |-> HoldingOf(i)']
  <2>1. \A i \in Ip : HoldingOf(i)' = IF i = Remote[w] THEN HoldingOf(i) \ {w} ELSE HoldingOf(i)
    BY DEF HoldingOf
  <2> QED
    BY <1>1, <1>2, <2>1 DEF PreAuthInv, CountersExact
<1>7. \A i \in Ip : Cardinality(preAuth'[i]) <= MaxPreAuthPerIp
  <2> SUFFICES ASSUME NEW i \in Ip PROVE Cardinality(preAuth'[i]) <= MaxPreAuthPerIp
    OBVIOUS
  <2>1. preAuth'[i] \subseteq preAuth[i] /\ IsFiniteSet(preAuth[i])
    BY <1>1, HoldingFinite DEF PreAuthInv, CountersExact
  <2>2. /\ Cardinality(preAuth'[i]) <= Cardinality(preAuth[i])
        /\ Cardinality(preAuth'[i]) \in Nat /\ Cardinality(preAuth[i]) \in Nat
    BY <2>1, FS_Subset, FS_CardinalityType
  <2> QED
    BY <2>2, CapAssumption DEF PreAuthInv, CountersCapped
<1>8. preAuthTotal' <= MaxPreAuthTotal
  BY <1>3, <1>4, <1>5, CapAssumption DEF PreAuthInv, CountersExact, CountersCapped
<1>9. preAuth' \in [Ip -> SUBSET Ws] /\ preAuthTotal' \in Nat
  BY <1>1, <1>4, <1>5 DEF PreAuthInv, ServerTypeOK
<1> QED
  BY <1>5, <1>6, <1>7, <1>8, <1>9 DEF CountersExact, CountersCapped

\* Taking a slot below both caps keeps to them.
LEMMA ConnectionStep ==
  ASSUME PreAuthInv, NEW w \in Ws, OnConnection(w), ~OverCap(w)
  PROVE  PreAuthInv'
<1>1. /\ stage[w] = "new" /\ stage' = [stage EXCEPT ![w] = "hello"]
      /\ preAuth' = [preAuth EXCEPT ![Remote[w]] = @ \cup {w}]
      /\ preAuthTotal' = preAuthTotal + 1
      /\ UNCHANGED <<up, released>>
  BY DEF OnConnection
<1>2. Remote[w] \in Ip /\ ~released[w] /\ w \notin Holding
  BY <1>1, SocketAssumption DEF PreAuthInv, ReleasedInTime, Holding
<1>3. Holding' = Holding \cup {w}
  BY <1>1, <1>2 DEF Holding, PreAuthInv, ServerTypeOK
<1>4. \A i \in Ip : HoldingOf(i)' =
        IF i = Remote[w] THEN HoldingOf(i) \cup {w} ELSE HoldingOf(i)
  BY <1>3 DEF HoldingOf
<1>5. /\ Cardinality(Holding') = Cardinality(Holding) + 1
      /\ Cardinality(Holding) \in Nat
  BY <1>2, <1>3, HoldingFinite, FS_AddElement, FS_CardinalityType
<1>6. CountersExact'
  BY <1>1, <1>2, <1>4, <1>5 DEF PreAuthInv, CountersExact
<1>7. CountersCapped'
  <2>1. preAuthTotal' <= MaxPreAuthTotal
    BY <1>1, <1>5, CapAssumption DEF OverCap, PreAuthInv, CountersExact
  <2>2. ASSUME NEW i \in Ip PROVE Cardinality(preAuth'[i]) <= MaxPreAuthPerIp
    <3>1. CASE i = Remote[w]
      <4>1. IsFiniteSet(preAuth[i]) /\ w \notin preAuth[i] /\ preAuth'[i] = preAuth[i] \cup {w}
        BY <1>1, <1>2, <3>1, HoldingFinite DEF PreAuthInv, CountersExact, HoldingOf
      <4>2. /\ Cardinality(preAuth'[i]) = Cardinality(preAuth[i]) + 1
            /\ Cardinality(preAuth[i]) \in Nat
        BY <4>1, FS_AddElement, FS_CardinalityType
      <4>3. ~(Cardinality(preAuth[i]) >= MaxPreAuthPerIp)
        BY <3>1 DEF OverCap
      <4> QED
        BY <4>2, <4>3, CapAssumption
    <3>2. CASE i # Remote[w]
      <4>1. preAuth'[i] = preAuth[i]
        BY <1>1, <3>2 DEF PreAuthInv, ServerTypeOK
      <4> QED
        BY <4>1 DEF PreAuthInv, CountersCapped
    <3> QED
      BY <3>1, <3>2
  <2> QED
    BY <2>1, <2>2 DEF CountersCapped
<1>8. ServerTypeOK'
  <2>0. ServerTypeOK
    BY DEF PreAuthInv
  <2>1. preAuth' \in [Ip -> SUBSET Ws]
    BY <1>1, <2>0 DEF ServerTypeOK
  <2>2. preAuthTotal' \in Nat
    BY <1>1, <2>0 DEF ServerTypeOK
  <2>3. stage' \in [Ws -> Stage]
    BY <1>1, <2>0 DEF ServerTypeOK, Stage
  <2> QED
    BY <1>1, <2>0, <2>1, <2>2, <2>3 DEF ServerTypeOK
<1>9. ReleasedInTime'
  <2>1. \A v \in Ws : stage'[v] = IF v = w THEN "hello" ELSE stage[v]
    BY <1>1 DEF PreAuthInv, ServerTypeOK
  <2>2. ReleasedInTime /\ up' = up /\ released' = released /\ stage[w] = "new"
    BY <1>1 DEF PreAuthInv
  <2>3. up[w] = "open"
    BY <2>2 DEF PreAuthInv, ReleasedInTime
  <2> QED
    BY <2>1, <2>2, <2>3, <1>2 DEF ReleasedInTime
<1> QED
  BY <1>6, <1>7, <1>8, <1>9 DEF PreAuthInv

\* What leaves the set of holding sockets and the counters alone keeps them exact.
LEMMA SameHolding ==
  ASSUME PreAuthInv, Holding' = Holding, UNCHANGED <<preAuth, preAuthTotal>>
  PROVE  CountersExact' /\ CountersCapped'
<1>1. \A i : HoldingOf(i)' = HoldingOf(i)
  BY DEF HoldingOf
<1> QED
  BY <1>1 DEF PreAuthInv, CountersExact, CountersCapped

\* A release, whether or not it is the first of this socket, by an action that
\* otherwise changes the socket's stage to st and its end to u.
LEMMA ReleaseStep ==
  ASSUME PreAuthInv, NEW w \in Ws, ReleasePreAuth(w),
         stage[w] \notin {"new", "refused"},
         NEW st \in Stage \ {"new", "refused"}, stage' = [stage EXCEPT ![w] = st],
         NEW u \in {"open", "closing", "closed"}, up' = [up EXCEPT ![w] = u],
         st = "peer" \/ u = "closed"
  PROVE  PreAuthInv'
<1>1. ServerTypeOK
  BY DEF PreAuthInv
<1>2. stage' \in [Ws -> Stage] /\ up' \in [Ws -> {"open", "closing", "closed"}]
  BY <1>1 DEF ServerTypeOK
<1>3. released' = [released EXCEPT ![w] = TRUE]
  BY <1>1 DEF ReleasePreAuth, ServerTypeOK
<1>4. ReleasedInTime'
  BY <1>1, <1>3 DEF PreAuthInv, ReleasedInTime, ServerTypeOK
<1>5. Holding' = Holding \ {w}
  BY <1>1, <1>3 DEF Holding, ServerTypeOK
<1>6. CASE released[w]
  <2>1. UNCHANGED <<preAuth, preAuthTotal, released>>
    BY <1>6 DEF ReleasePreAuth
  <2>2. Holding' = Holding
    BY <1>5, <1>6 DEF Holding
  <2>3. ServerTypeOK'
    BY <1>1, <1>2, <2>1 DEF ServerTypeOK
  <2> QED
    BY <1>4, <2>1, <2>2, <2>3, SameHolding DEF PreAuthInv
<1>7. CASE ~released[w]
  <2>1. w \in Holding
    BY <1>7 DEF Holding
  <2>2. /\ preAuth' \in [Ip -> SUBSET Ws] /\ preAuthTotal' \in Nat
        /\ CountersExact' /\ CountersCapped'
    BY <1>5, <2>1, ReleaseFacts
  <2>3. ServerTypeOK'
    BY <1>1, <1>2, <1>3, <2>2 DEF ServerTypeOK
  <2> QED
    BY <1>4, <2>2, <2>3 DEF PreAuthInv
<1> QED
  BY <1>6, <1>7

\* Every action keeps the counters equal to the sockets that hold a slot.
THEOREM PreAuthStep ==
  PreAuthInv /\ [ServerNext]_serverVars => PreAuthInv'
<1> SUFFICES ASSUME PreAuthInv, [ServerNext]_serverVars PROVE PreAuthInv'
  OBVIOUS
<1>0. ServerTypeOK /\ ReleasedInTime
  BY DEF PreAuthInv
<1>1. ASSUME NEW w \in Ws, OnConnection(w)
      PROVE  PreAuthInv'
  <2>1. CASE OverCap(w)
    <3>1. /\ stage[w] = "new" /\ stage' = [stage EXCEPT ![w] = "refused"]
          /\ up' = [up EXCEPT ![w] = "closing"]
          /\ UNCHANGED <<preAuth, preAuthTotal, released>>
      BY <1>1, <2>1 DEF OnConnection
    <3>2. Holding' = Holding
      BY <1>0, <3>1 DEF Holding, ServerTypeOK
    <3>3. ServerTypeOK' /\ ReleasedInTime'
      BY <1>0, <3>1 DEF ServerTypeOK, ReleasedInTime, Stage
    <3> QED
      BY <3>1, <3>2, <3>3, SameHolding DEF PreAuthInv
  <2>2. CASE ~OverCap(w)
    BY <1>1, <2>2, ConnectionStep
  <2> QED
    BY <2>1, <2>2
<1>2. ASSUME NEW w \in Ws, OnFirstHello(w)
      PROVE  PreAuthInv'
  <2>1. /\ stage[w] = "hello" /\ stage' = [stage EXCEPT ![w] = "verify"]
        /\ UNCHANGED <<preAuth, preAuthTotal, released, up>>
    BY <1>2 DEF OnFirstHello
  <2>2. Holding' = Holding
    BY <1>0, <2>1 DEF Holding, ServerTypeOK
  <2>3. ServerTypeOK' /\ ReleasedInTime'
    BY <1>0, <2>1 DEF ServerTypeOK, ReleasedInTime, Stage
  <2> QED
    BY <2>1, <2>2, <2>3, SameHolding DEF PreAuthInv
<1>3. ASSUME NEW w \in Ws, OnRefusal(w)
      PROVE  PreAuthInv'
  <2>1. /\ stage[w] \in {"hello", "verify"} /\ up[w] # "closed"
        /\ stage' = [stage EXCEPT ![w] = "done"]
        /\ up' = [up EXCEPT ![w] = "closing"]
        /\ UNCHANGED <<preAuth, preAuthTotal, released>>
    BY <1>3 DEF OnRefusal
  <2>2. Holding' = Holding
    BY <1>0, <2>1 DEF Holding, ServerTypeOK
  <2>3. ServerTypeOK' /\ ReleasedInTime'
    BY <1>0, <2>1 DEF ServerTypeOK, ReleasedInTime, Stage
  <2> QED
    BY <2>1, <2>2, <2>3, SameHolding DEF PreAuthInv
<1>4. ASSUME NEW w \in Ws, OnAccept(w)
      PROVE  PreAuthInv'
  <2>1. /\ stage[w] \notin {"new", "refused"} /\ ReleasePreAuth(w)
        /\ stage' = [stage EXCEPT ![w] = "peer"]
        /\ up' = [up EXCEPT ![w] = up[w]]
        /\ up[w] \in {"open", "closing", "closed"}
    BY <1>0, <1>4 DEF OnAccept, ServerTypeOK
  <2> QED
    BY <2>1, ReleaseStep DEF Stage
<1>5. ASSUME NEW w \in Ws, OnTimeout(w)
      PROVE  PreAuthInv'
  <2>1. /\ stage[w] \in {"hello", "verify"} /\ up[w] = "open"
        /\ up' = [up EXCEPT ![w] = "closing"]
        /\ UNCHANGED <<preAuth, preAuthTotal, released, stage>>
    BY <1>5 DEF OnTimeout, Timed
  <2>2. Holding' = Holding
    BY <2>1 DEF Holding
  <2>3. ServerTypeOK' /\ ReleasedInTime'
    BY <1>0, <2>1 DEF ServerTypeOK, ReleasedInTime
  <2> QED
    BY <2>1, <2>2, <2>3, SameHolding DEF PreAuthInv
<1>6. ASSUME NEW w \in Ws, OnClose(w)
      PROVE  PreAuthInv'
  <2>0. /\ stage[w] # "new" /\ up' = [up EXCEPT ![w] = "closed"] /\ stage' = stage
    BY <1>6 DEF OnClose
  <2>1. CASE stage[w] = "refused"
    <3>1. UNCHANGED <<preAuth, preAuthTotal, released>>
      BY <1>6, <2>1 DEF OnClose
    <3>2. Holding' = Holding
      BY <2>0, <3>1 DEF Holding
    <3>3. ServerTypeOK' /\ ReleasedInTime'
      BY <1>0, <2>0, <2>1, <3>1 DEF ServerTypeOK, ReleasedInTime
    <3> QED
      BY <3>1, <3>2, <3>3, SameHolding DEF PreAuthInv
  <2>2. CASE stage[w] # "refused"
    <3>1. ReleasePreAuth(w) /\ stage' = [stage EXCEPT ![w] = stage[w]]
          /\ stage[w] \in Stage \ {"new", "refused"}
      BY <1>0, <1>6, <2>0, <2>2 DEF OnClose, ServerTypeOK
    <3> QED
      BY <2>0, <3>1, ReleaseStep
  <2> QED
    BY <2>1, <2>2
<1>7. CASE UNCHANGED serverVars
  <2>1. Holding' = Holding
    BY <1>7 DEF serverVars, Holding
  <2>2. ServerTypeOK' /\ ReleasedInTime'
    BY <1>0, <1>7 DEF serverVars, ServerTypeOK, ReleasedInTime
  <2> QED
    BY <1>7, <2>1, <2>2, SameHolding DEF PreAuthInv, serverVars
<1> QED
  BY <1>1, <1>2, <1>3, <1>4, <1>5, <1>6, <1>7 DEF ServerNext

\* The strengthened invariant holds in every reachable state.
THEOREM PreAuthInvariant ==
  ServerSpec => []PreAuthInv
BY PreAuthInit, PreAuthStep, PTL DEF ServerSpec

------------------------------------------------------------------------------
(* Results.                                                                *)

\* The counters of the pre-auth cap keep their types for any sockets and addresses:
\* the total never leaves the naturals.
THEOREM PreAuthTypeCorrect ==
  ServerSpec => []ServerTypeOK
<1>1. PreAuthInv => ServerTypeOK
  BY DEF PreAuthInv
<1> QED
  BY <1>1, PreAuthInvariant, PTL

\* However many sockets come from however many addresses, those held open
\* without authentication keep to both caps.
THEOREM PreAuthCapsHold ==
  ServerSpec => []CapsHold
<1>1. PreAuthInv => CapsHold
  <2> SUFFICES ASSUME PreAuthInv PROVE CapsHold
    OBVIOUS
  <2>1. {w \in Ws : Anonymous(w)} \in SUBSET Holding
    BY DEF PreAuthInv, ReleasedInTime, Holding, Anonymous
  <2>2. Cardinality({w \in Ws : Anonymous(w)}) <= MaxPreAuthTotal
    <3>1. /\ Cardinality({w \in Ws : Anonymous(w)}) <= Cardinality(Holding)
          /\ Cardinality({w \in Ws : Anonymous(w)}) \in Nat
          /\ Cardinality(Holding) \in Nat
      BY <2>1, HoldingFinite, FS_Subset, FS_CardinalityType
    <3> QED
      BY <3>1, CapAssumption DEF PreAuthInv, CountersExact, CountersCapped
  <2>3. ASSUME NEW i \in Ip
        PROVE  Cardinality({w \in Ws : Anonymous(w) /\ Remote[w] = i}) <= MaxPreAuthPerIp
    <3> DEFINE A == {w \in Ws : Anonymous(w) /\ Remote[w] = i}
    <3>1. A \in SUBSET HoldingOf(i)
      BY <2>1 DEF HoldingOf
    <3>2. /\ Cardinality(A) <= Cardinality(HoldingOf(i))
          /\ Cardinality(A) \in Nat /\ Cardinality(HoldingOf(i)) \in Nat
      BY <3>1, HoldingFinite, FS_Subset, FS_CardinalityType
    <3>3. Cardinality(HoldingOf(i)) <= MaxPreAuthPerIp
      BY DEF PreAuthInv, CountersExact, CountersCapped
    <3> QED
      BY <3>2, <3>3, CapAssumption
  <2> QED
    BY <2>2, <2>3 DEF CapsHold
<1> QED
  BY <1>1, PreAuthInvariant, PTL

CountedIsHeld == Counted = Holding

LEMMA CountedIsHolding ==
  PreAuthInv => CountedIsHeld
<1> SUFFICES ASSUME PreAuthInv PROVE Counted = Holding
  BY DEF CountedIsHeld
<1>1. \A w \in Holding : Remote[w] \in Ip
  BY SocketAssumption DEF Holding
<1>2. \A i \in Ip : preAuth[i] = {w \in Holding : Remote[w] = i}
  BY DEF PreAuthInv, CountersExact, HoldingOf
<1> QED
  BY <1>1, <1>2 DEF Counted

\* What a step does to the set of holding sockets.
LEMMA HoldingStep ==
  ASSUME PreAuthInv, [ServerNext]_serverVars
  PROVE  \/ Holding' = Holding
         \/ \E w \in Ws : /\ w \notin Holding /\ preAuthTotal < MaxPreAuthTotal
                          /\ Holding' = Holding \cup {w}
         \/ \E w \in Ws : w \in Holding /\ Holding' = Holding \ {w}
<1>0. ServerTypeOK /\ ReleasedInTime /\ preAuthTotal \in Nat
  BY DEF PreAuthInv, ServerTypeOK
<1>1. ASSUME NEW w \in Ws, OnConnection(w), ~OverCap(w)
      PROVE  /\ w \notin Holding /\ preAuthTotal < MaxPreAuthTotal
             /\ Holding' = Holding \cup {w}
  <2>1. /\ stage[w] = "new" /\ stage' = [stage EXCEPT ![w] = "hello"]
        /\ released' = released
    BY <1>1 DEF OnConnection
  <2>2. preAuthTotal < MaxPreAuthTotal
    BY <1>0, <1>1, CapAssumption DEF OverCap
  <2>3. ~released[w]
    BY <1>0, <2>1 DEF ReleasedInTime
  <2> QED
    BY <1>0, <2>1, <2>2, <2>3 DEF Holding, ServerTypeOK
<1>2. ASSUME NEW w \in Ws, OnConnection(w), OverCap(w)
      PROVE  Holding' = Holding
  <2>1. /\ stage[w] = "new" /\ stage' = [stage EXCEPT ![w] = "refused"]
        /\ released' = released
    BY <1>2 DEF OnConnection
  <2> QED
    BY <1>0, <2>1 DEF Holding, ServerTypeOK
<1>3. ASSUME NEW w \in Ws, OnFirstHello(w) \/ OnRefusal(w) \/ OnTimeout(w)
      PROVE  Holding' = Holding
  <2>1. /\ released' = released
        /\ \/ stage' = stage
           \/ /\ stage[w] \in {"hello", "verify"}
              /\ \E st \in {"verify", "done"} : stage' = [stage EXCEPT ![w] = st]
    BY <1>3 DEF OnFirstHello, OnRefusal, OnTimeout
  <2> QED
    BY <1>0, <2>1 DEF Holding, ServerTypeOK
<1>4. ASSUME NEW w \in Ws, ReleasePreAuth(w), stage[w] \notin {"new", "refused"},
             stage' = stage \/ stage' = [stage EXCEPT ![w] = "peer"]
      PROVE  Holding' = Holding \/ (w \in Holding /\ Holding' = Holding \ {w})
  <2>1. released' = [released EXCEPT ![w] = TRUE]
    BY <1>0, <1>4 DEF ReleasePreAuth, ServerTypeOK
  <2>2. Holding' = Holding \ {w}
    BY <1>0, <1>4, <2>1 DEF Holding, ServerTypeOK
  <2> QED
    BY <2>2
<1>5. ASSUME NEW w \in Ws, OnAccept(w)
      PROVE  Holding' = Holding \/ (w \in Holding /\ Holding' = Holding \ {w})
  BY <1>4, <1>5 DEF OnAccept
<1>6. ASSUME NEW w \in Ws, OnClose(w)
      PROVE  Holding' = Holding \/ (w \in Holding /\ Holding' = Holding \ {w})
  <2>1. CASE stage[w] = "refused"
    BY <1>6, <2>1 DEF OnClose, Holding
  <2>2. CASE stage[w] # "refused"
    BY <1>4, <1>6, <2>2 DEF OnClose
  <2> QED
    BY <2>1, <2>2
<1>7. CASE UNCHANGED serverVars
  BY <1>7 DEF serverVars, Holding
<1> QED
  BY <1>1, <1>2, <1>3, <1>5, <1>6, <1>7 DEF ServerNext

\* The counters implement a pool of MaxPreAuthTotal slots: what they count is
\* taken and given back one socket at a time, and never exceeds the pool.
THEOREM PreAuthImplementsPool ==
  ServerSpec => PoolSpec
<1>1. ServerInit => Pool!Init
  BY CapAssumption DEF ServerInit, Pool!Init, Counted, Free
<1>2. PreAuthInv' => CountedIsHeld'
  BY CountedIsHolding, PTL
<1>3. PreAuthInv /\ PreAuthInv' /\ [ServerNext]_serverVars => [Pool!Next]_<<Counted, Free>>
  <2> SUFFICES ASSUME PreAuthInv, PreAuthInv', [ServerNext]_serverVars
               PROVE  [Pool!Next]_<<Counted, Free>>
    OBVIOUS
  <2>1. Counted = Holding /\ Counted' = Holding'
    BY <1>2, CountedIsHolding DEF CountedIsHeld
  <2>0. /\ Free = MaxPreAuthTotal - preAuthTotal /\ preAuthTotal = Cardinality(Holding)
        /\ Free' = MaxPreAuthTotal - preAuthTotal' /\ preAuthTotal' = Cardinality(Holding')
        /\ MaxPreAuthTotal \in Nat /\ preAuthTotal \in Nat
    BY CapAssumption DEF Free, PreAuthInv, CountersExact, ServerTypeOK
  <2>2. CASE Holding' = Holding
    BY <2>0, <2>1, <2>2
  <2>3. ASSUME NEW w \in Ws, w \notin Holding, preAuthTotal < MaxPreAuthTotal,
               Holding' = Holding \cup {w}
        PROVE  Pool!Next
    <3>1. Cardinality(Holding') = Cardinality(Holding) + 1
      BY <2>3, HoldingFinite, FS_AddElement
    <3>2. Free > 0 /\ Free' = Free - 1
      BY <2>0, <2>3, <3>1
    <3>3. Counted' = Counted \cup {w} /\ w \notin Counted
      BY <2>1, <2>3
    <3> QED
      BY <3>2, <3>3 DEF Pool!Next, Pool!Acquire
  <2>4. ASSUME NEW w \in Ws, w \in Holding, Holding' = Holding \ {w}
        PROVE  Pool!Next
    <3>1. Cardinality(Holding') = Cardinality(Holding) - 1
      BY <2>4, HoldingFinite, FS_RemoveElement
    <3>2. Free' = Free + 1
      BY <2>0, <3>1
    <3>3. Counted' = Counted \ {w} /\ w \in Counted
      BY <2>1, <2>4
    <3> QED
      BY <3>2, <3>3 DEF Pool!Next, Pool!Release
  <2> QED
    BY <2>2, <2>3, <2>4, HoldingStep
<1> QED
  BY <1>1, <1>3, PreAuthInvariant, PTL DEF ServerSpec, PoolSpec, Pool!Spec

------------------------------------------------------------------------------
(* PeerLink.  Messages, and the names of sockets and connections.          *)

\* A message is on its way.
Has(q, m) == \E i \in 1 .. Len(q) : q[i] = m

\* What is sent is on its way from then on; nothing else changes.
LEMMA HasAppend ==
  ASSUME NEW S, NEW q \in Seq(S), NEW m \in S, NEW x
  PROVE  Has(Append(q, m), x) <=> Has(q, x) \/ x = m
<1>1. /\ Len(Append(q, m)) = Len(q) + 1 /\ Len(q) \in Nat
      /\ Append(q, m)[Len(q) + 1] = m
      /\ \A i \in 1 .. Len(q) : Append(q, m)[i] = q[i]
  OBVIOUS
<1>2. ASSUME Has(q, x) PROVE Has(Append(q, m), x)
  BY <1>1, <1>2 DEF Has
<1>3. ASSUME x = m PROVE Has(Append(q, m), x)
  BY <1>1, <1>3 DEF Has
<1>4. ASSUME Has(Append(q, m), x) PROVE Has(q, x) \/ x = m
  BY <1>1, <1>4 DEF Has
<1> QED
  BY <1>2, <1>3, <1>4

\* What is not the first message stays on its way when that is taken.
LEMMA HasTail ==
  ASSUME NEW S, NEW q \in Seq(S), q # <<>>, NEW x
  PROVE  /\ Tail(q) \in Seq(S)
         /\ Has(q, x) <=> Has(Tail(q), x) \/ x = Head(q)
<1>1. /\ Len(Tail(q)) = Len(q) - 1 /\ Len(q) \in Nat \ {0} /\ Head(q) = q[1]
      /\ Tail(q) \in Seq(S)
      /\ \A i \in 1 .. Len(q) - 1 : Tail(q)[i] = q[i + 1]
  OBVIOUS
<1>2. ASSUME Has(Tail(q), x) PROVE Has(q, x)
  <2>1. PICK i \in 1 .. Len(q) - 1 : q[i + 1] = x
    BY <1>1, <1>2 DEF Has
  <2> QED
    BY <1>1, <2>1 DEF Has
<1>3. ASSUME x = Head(q) PROVE Has(q, x)
  BY <1>1, <1>3 DEF Has
<1>4. ASSUME Has(q, x), x # Head(q) PROVE Has(Tail(q), x)
  <2>1. PICK i \in 1 .. Len(q) : q[i] = x
    BY <1>4 DEF Has
  <2>2. i # 1 /\ i - 1 \in 1 .. Len(q) - 1
    BY <1>1, <1>4, <2>1
  <2>3. Tail(q)[i - 1] = x
    BY <1>1, <2>1, <2>2
  <2> QED
    BY <1>1, <2>2, <2>3 DEF Has
<1> QED
  BY <1>1, <1>2, <1>3, <1>4

\* A connection that breaks loses messages and makes none up.
LEMMA HasPrefix ==
  ASSUME NEW S, NEW q \in Seq(S), NEW i \in 0 .. Len(q), NEW x
  PROVE  /\ SubSeq(q, 1, i) \in Seq(S)
         /\ Has(SubSeq(q, 1, i), x) => Has(q, x)
<1>1. /\ Len(SubSeq(q, 1, i)) = i /\ Len(q) \in Nat
      /\ SubSeq(q, 1, i) \in Seq(S)
      /\ \A j \in 1 .. i : SubSeq(q, 1, i)[j] = q[j]
  OBVIOUS
<1> QED
  BY <1>1 DEF Has

\* How sockets, PeerConnections and their names belong together.
LEMMA Refs ==
  /\ \A c \in Outbound : c[1] \in Node /\ c[2] \in Dials /\ c = <<c[1], c[2]>>
  /\ \A c \in Outbound, k \in Slots :
       SocketOf(c, k) \in Socket /\ Owner(SocketOf(c, k)) = c /\ SocketOf(c, k)[3] = k
  /\ \A s \in Socket : /\ s[1] \in Node /\ s[3] \in Slots /\ s[3] # 0
                       /\ Owner(s) \in Outbound /\ Owner(s)[1] = s[1]
                       /\ SocketOf(Owner(s), s[3]) = s
  /\ \A s, u \in Socket : Owner(s) = Owner(u) /\ s[3] = u[3] => s = u
  /\ NoConn \notin Outbound /\ NoConn \notin Socket
  /\ \A s \in Socket : s \notin Outbound
  /\ 0 \notin Slots /\ Slots \subseteq Nat
<1>1. \A c \in Outbound : c[1] \in Node /\ c[2] \in Dials /\ c = <<c[1], c[2]>>
  BY DEF Outbound
<1>2. \A s \in Socket : /\ s[1] \in Node /\ s[2] \in Dials /\ s[3] \in Slots
                       /\ s = <<s[1], s[2], s[3]>>
  BY DEF Socket
<1>3. \A s \in Socket : Owner(s) \in Outbound /\ Owner(s)[1] = s[1] /\ Owner(s)[2] = s[2]
  BY <1>2 DEF Outbound, Owner
<1>4. \A c \in Outbound, k \in Slots :
       SocketOf(c, k) \in Socket /\ Owner(SocketOf(c, k)) = c /\ SocketOf(c, k)[3] = k
  BY <1>1 DEF Socket, Owner, SocketOf
<1>5. \A s \in Socket : SocketOf(Owner(s), s[3]) = s
  BY <1>2, <1>3 DEF SocketOf
<1>6. NoConn \notin Outbound /\ NoConn \notin Socket
  BY <1>1, <1>2 DEF NoConn
<1>7. \A s \in Socket : s \notin Outbound
  <2> SUFFICES ASSUME NEW s \in Socket, s \in Outbound PROVE FALSE
    OBVIOUS
  <2>1. s = <<s[1], s[2], s[3]>> /\ s = <<s[1], s[2]>>
    BY <1>1, <1>2
  <2>2. Len(<<s[1], s[2], s[3]>>) = 3 /\ Len(<<s[1], s[2]>>) = 2
    OBVIOUS
  <2> QED
    BY <2>1, <2>2
<1>8. \A s, u \in Socket : Owner(s) = Owner(u) /\ s[3] = u[3] => s = u
  BY <1>2, <1>3
<1>9. 0 \notin Slots /\ Slots \subseteq Nat
  BY PlanAssumption
<1> QED
  BY <1>1, <1>2, <1>3, <1>4, <1>5, <1>6, <1>7, <1>8, <1>9

\* There are two bridges: each has one other.
LEMMA Pair ==
  \A n \in Node : Peer(n) \in Node /\ Peer(n) # n
<1> SUFFICES ASSUME NEW n \in Node PROVE \E m \in Node : m # n
  BY DEF Peer
<1>1. ASSUME Node = {n} PROVE FALSE
  BY <1>1, NodeAssumption, FS_Singleton
<1> QED
  BY <1>1

------------------------------------------------------------------------------
(* PeerLink.  One socket: its two ends, its PeerConnection, its handshake. *)

\* A socket its dialling end has not done with.
Alive(e) == e.d \in {"connecting", "open", "closing"}

\* What is so of a socket s in state e whose PeerConnection is in state c.
Fits(e, c, s) ==
  /\ e.d = "none" => e = NoSock
  /\ e.d = "connecting" => /\ e.r = "none" /\ ~e.ropen /\ e.handlers = 0
                           /\ e.toR = <<>> /\ e.toD = <<>>
  /\ Alive(e) <=> c.cur = s[3]
  /\ e.d \in {"connecting", "open"} => c.status = "live"
  /\ c.status = "unborn" => e.d = "none"
  /\ e.d = "open" => e.r # "none"
  /\ e.d = "open" /\ ~e.ropen => Has(e.toD, "fin")
  /\ e.ropen => e.r \notin {"none", "closed"}

\* What is so of the handshake on it.
Waits(e, c, s, timers) ==
  /\ e.handlers <= c.listeners
  /\ e.handlers > 0 => e.d \in {"open", "closing"}
  /\ e.d = "closing" /\ c.status = "live" => e.handlers = 0
  /\ timers = 0 =>
       /\ e.handlers > 0 /\ c.status = "destroyed" => s[1] # Lower
       /\ e.r \in {"hello", "verify"} /\ ~e.ropen => e.handlers = 0 /\ ~Has(e.toR, "verify")

\* What is so of a socket, all told.
Right(e, c, s, timers) == Fits(e, c, s) /\ Waits(e, c, s, timers)

\* The accepting end holds s; the dialling end holds it, or is about to be accepted.
HeldIn(e)  == e.r = "accepted" /\ e.ropen
HeldOut(e) == e.d = "open" /\ (Has(e.toR, "verify") \/ e.r = "accepted")

\* The messages of each direction.
ToR == {"hello", "verify", "app", "fin"}
ToD == {"cr", "fin"}

\* The fields of a socket, one by one.
LEMMA SockFields ==
  \A e \in Sock :
    /\ e.d \in {"none", "connecting", "open", "closing", "closed"}
    /\ e.r \in {"none", "hello", "verify", "accepted", "done", "closed"}
    /\ e.ropen \in BOOLEAN /\ e.handlers \in 0 .. 2
    /\ e.toR \in Seq(ToR) /\ e.toD \in Seq(ToD)
BY DEF Sock, ToR, ToD

\* A closing end sends fin and changes nothing else.
LEMMA FinSent ==
  \A e \in Sock :
    /\ Append(e.toR, "fin") \in Seq(ToR) /\ Append(e.toD, "fin") \in Seq(ToD)
    /\ \A x : Has(Append(e.toR, "fin"), x) <=> Has(e.toR, x) \/ x = "fin"
    /\ \A x : Has(Append(e.toD, "fin"), x) <=> Has(e.toD, x) \/ x = "fin"
<1>1. "fin" \in ToR /\ "fin" \in ToD
  BY DEF ToR, ToD
<1> QED
  BY <1>1, HasAppend, SockFields

\* The dialling end that closes says fin to an open connection.
LEMMA ClosedD ==
  ASSUME NEW e \in Sock
  PROVE  /\ CloseD(e) \in Sock
         /\ CloseD(e).d = IF e.d \in {"connecting", "open"} THEN "closing" ELSE e.d
         /\ CloseD(e).r = e.r /\ CloseD(e).ropen = e.ropen /\ CloseD(e).handlers = e.handlers
         /\ \A x : Has(CloseD(e).toR, x) => Has(e.toR, x) \/ x = "fin"
         /\ e.d \notin {"connecting", "open"} => CloseD(e) = e
<1>1. CASE e.d = "connecting"
  <2>1. CloseD(e) = [e EXCEPT !.d = "closing", !.toD = Append(@, "fin")]
    BY <1>1 DEF CloseD
  <2>2. /\ CloseD(e) \in Sock /\ CloseD(e).d = "closing" /\ CloseD(e).r = e.r
        /\ CloseD(e).ropen = e.ropen /\ CloseD(e).handlers = e.handlers
        /\ CloseD(e).toR = e.toR
    BY FinSent, <2>1 DEF Sock, ToD
  <2> QED
    BY <1>1, <2>2
<1>2. CASE e.d = "open"
  <2>1. CloseD(e) = [e EXCEPT !.d = "closing", !.toR = Append(@, "fin")]
    BY <1>2 DEF CloseD
  <2>2. /\ CloseD(e) \in Sock /\ CloseD(e).d = "closing" /\ CloseD(e).r = e.r
        /\ CloseD(e).ropen = e.ropen /\ CloseD(e).handlers = e.handlers
        /\ CloseD(e).toR = Append(e.toR, "fin")
    BY FinSent, <2>1 DEF Sock, ToR
  <2> QED
    BY <1>2, <2>2, FinSent
<1>3. CASE e.d \notin {"connecting", "open"}
  BY <1>3 DEF CloseD
<1> QED
  BY <1>1, <1>2, <1>3

\* The accepting end that closes says fin.
LEMMA ClosedR ==
  ASSUME NEW e \in Sock
  PROVE  /\ CloseR(e) \in Sock
         /\ CloseR(e).d = e.d /\ CloseR(e).r = e.r /\ CloseR(e).toR = e.toR
         /\ CloseR(e).handlers = e.handlers /\ CloseR(e).ropen = FALSE
         /\ Has(e.toD, "fin") \/ e.ropen => Has(CloseR(e).toD, "fin")
         /\ ~e.ropen => CloseR(e) = e
<1>1. CASE e.ropen
  <2>1. CloseR(e) = [e EXCEPT !.ropen = FALSE, !.toD = Append(@, "fin")]
    BY <1>1 DEF CloseR
  <2>2. /\ CloseR(e) \in Sock /\ CloseR(e).d = e.d /\ CloseR(e).r = e.r /\ CloseR(e).toR = e.toR
        /\ CloseR(e).handlers = e.handlers /\ CloseR(e).ropen = FALSE
        /\ CloseR(e).toD = Append(e.toD, "fin")
    BY FinSent, <2>1 DEF Sock, ToD
  <2> QED
    BY <1>1, <2>2, FinSent
<1>2. CASE ~e.ropen
  BY <1>2, SockFields DEF CloseR
<1> QED
  BY <1>1, <1>2

\* A closing end of a socket leaves it as it should be.
LEMMA RightClosed ==
  ASSUME NEW s \in Socket, NEW e \in Sock, NEW c \in Conn, NEW timers, Right(e, c, s, timers)
  PROVE  /\ e.r \notin {"hello", "verify"} \/ timers # 0 \/ ~e.ropen
              => Right(CloseR(e), c, s, timers)
         /\ e.handlers = 0 => Right(CloseD(e), c, s, timers)
         /\ (timers = 0 /\ e.handlers > 0 => s[1] # Lower) /\ c.cur = s[3]
              => Right(CloseD(e), [c EXCEPT !.status = "destroyed"], s, timers)
<1>1. ASSUME e.r \notin {"hello", "verify"} \/ timers # 0 \/ ~e.ropen
      PROVE  Right(CloseR(e), c, s, timers)
  <2>1. CASE e.ropen
    <3>1. e.d \notin {"none", "connecting"}
      BY <2>1 DEF Right, Fits, NoSock
    <3> QED
      BY <1>1, <2>1, <3>1, ClosedR DEF Right, Fits, Waits, Alive
  <2>2. CASE ~e.ropen
    BY <2>2, ClosedR
  <2> QED
    BY <2>1, <2>2
<1>2. ASSUME e.handlers = 0 PROVE Right(CloseD(e), c, s, timers)
  <2>1. CASE e.d \in {"connecting", "open"}
    BY <1>2, <2>1, ClosedD DEF Right, Fits, Waits, Alive
  <2>2. CASE e.d \notin {"connecting", "open"}
    BY <2>2, ClosedD
  <2> QED
    BY <2>1, <2>2
<1>3. ASSUME timers = 0 /\ e.handlers > 0 => s[1] # Lower, c.cur = s[3]
      PROVE  Right(CloseD(e), [c EXCEPT !.status = "destroyed"], s, timers)
  <2> DEFINE dead == [c EXCEPT !.status = "destroyed"]
  <2>1. /\ dead \in Conn /\ dead.status = "destroyed"
        /\ dead.cur = c.cur /\ dead.listeners = c.listeners
    BY DEF Conn
  <2> HIDE DEF dead
  <2>2. Alive(e)
    BY <1>3 DEF Right, Fits
  <2>3. CloseD(e).d = "closing"
    BY <2>2, ClosedD DEF Alive
  <2>4. Fits(CloseD(e), dead, s)
    BY <1>3, <2>1, <2>2, <2>3, ClosedD DEF Right, Fits, Alive
  <2>5. Waits(CloseD(e), dead, s, timers)
    BY <1>3, <2>1, <2>2, <2>3, ClosedD DEF Right, Waits, Alive
  <2> QED
    BY <2>4, <2>5 DEF Right, dead
<1> QED
  BY <1>1, <1>2, <1>3

\* Every socket stands as it should to its PeerConnection, under way of a step too:
\* ss and cs are the sockets and connections between two assignments of an action.
Coherent(ss, cs, timers) ==
  /\ ss \in [Socket -> Sock] /\ cs \in [Outbound -> Conn]
  /\ \A s \in Socket : Right(ss[s], cs[Owner(s)], s, timers)

\* A PeerConnection that is destroyed when no socket of its own is up.
LEMMA RightDestroyed ==
  ASSUME NEW s \in Socket, NEW e \in Sock, NEW c \in Conn, NEW timers,
         Right(e, c, s, timers), c.cur # s[3]
  PROVE  Right(e, [c EXCEPT !.status = "destroyed"], s, timers)
<1> DEFINE dead == [c EXCEPT !.status = "destroyed"]
<1>1. dead.status = "destroyed" /\ dead.cur = c.cur /\ dead.listeners = c.listeners
  BY DEF Conn
<1> HIDE DEF dead
<1>2. ~Alive(e)
  BY DEF Right, Fits
<1>3. e.handlers \in 0 .. 2
  BY SockFields
<1> QED
  BY <1>1, <1>2, <1>3 DEF Right, Fits, Waits, Alive, dead

\* What destroying a PeerConnection does to the sockets and connections.
LEMMA Destroys ==
  ASSUME NEW ss, NEW cs, NEW timers, Coherent(ss, cs, timers), conn \in [Outbound -> Conn],
         \A c \in Outbound : cs[c].cur = conn[c].cur,
         NEW ref \in Outbound \cup Socket \cup {NoConn},
         ref \in Socket => ss[ref].r \notin {"hello", "verify"},
         \A s \in Socket : Owner(s) = ref /\ timers = 0 /\ ss[s].handlers > 0
                             => s[1] # Lower
  PROVE  /\ Coherent(DestroySock(ss, ref), DestroyConn(cs, ref), timers)
         /\ \A c \in Outbound :
              LET d == DestroyConn(cs, ref)[c]
              IN  /\ d.cur = cs[c].cur /\ d.key = cs[c].key /\ d.listeners = cs[c].listeners
                  /\ d.status = IF c = ref THEN "destroyed" ELSE cs[c].status
                  /\ c # ref => d = cs[c]
         /\ \A s \in Socket :
              LET e == DestroySock(ss, ref)[s]
              IN  /\ e.r = ss[s].r /\ e.handlers = ss[s].handlers
                  /\ HeldIn(e) => HeldIn(ss[s]) /\ s # ref
                  /\ HeldOut(e) => HeldOut(ss[s]) /\ Owner(s) # ref
                  /\ s # ref /\ Owner(s) # ref => e = ss[s]
<1> DEFINE SS == DestroySock(ss, ref)
           CC == DestroyConn(cs, ref)
<1>1. CASE ref = NoConn
  <2>1. SS = ss /\ CC = cs
    BY <1>1, Refs DEF DestroySock, DestroyConn, IsOutbound
  <2>2. \A s \in Socket : s # ref /\ Owner(s) # ref
    BY <1>1, Refs
  <2>3. \A c \in Outbound : c # ref
    BY <1>1, Refs
  <2> QED
    BY <2>1, <2>2, <2>3
<1>2. CASE ref \in Socket
  <2>1. SS = [ss EXCEPT ![ref] = CloseR(ss[ref])] /\ CC = cs /\ ref \notin Outbound
    BY <1>2, Refs DEF DestroySock, DestroyConn, IsOutbound
  <2>2. \A s \in Socket : SS[s] = IF s = ref THEN CloseR(ss[s]) ELSE ss[s]
    BY <2>1 DEF Coherent
  <2>3. \A s \in Socket : Owner(s) # ref
    BY <2>1, Refs
  <2>4. Right(CloseR(ss[ref]), cs[Owner(ref)], ref, timers)
    <3>1. Right(ss[ref], cs[Owner(ref)], ref, timers) /\ ss[ref] \in Sock /\ cs[Owner(ref)] \in Conn
      BY <1>2, Refs DEF Coherent
    <3> QED
      BY <1>2, <3>1, RightClosed
  <2>5. SS \in [Socket -> Sock]
    <3>1. ss \in [Socket -> Sock] /\ CloseR(ss[ref]) \in Sock
      BY <1>2, ClosedR DEF Coherent
    <3> HIDE DEF SS
    <3> QED
      BY <1>2, <2>1, <3>1
  <2>6. Coherent(SS, CC, timers)
    BY <2>1, <2>2, <2>4, <2>5 DEF Coherent
  <2>7. \A s \in Socket :
          /\ SS[s].r = ss[s].r /\ SS[s].handlers = ss[s].handlers
          /\ HeldIn(SS[s]) => HeldIn(ss[s]) /\ s # ref
          /\ HeldOut(SS[s]) => HeldOut(ss[s])
          /\ s # ref => SS[s] = ss[s]
    <3> HIDE DEF SS
    <3> TAKE s \in Socket
    <3>1. ss[s] \in Sock
      BY DEF Coherent
    <3>2. CASE s = ref
      <4>1. SS[s] = CloseR(ss[s])
        BY <2>2, <3>2
      <4>2. /\ CloseR(ss[s]).d = ss[s].d /\ CloseR(ss[s]).r = ss[s].r
            /\ CloseR(ss[s]).toR = ss[s].toR /\ CloseR(ss[s]).handlers = ss[s].handlers
            /\ ~CloseR(ss[s]).ropen
        BY <3>1, ClosedR
      <4> QED
        BY <3>2, <4>1, <4>2 DEF HeldIn, HeldOut
    <3>3. CASE s # ref
      BY <2>2, <3>3
    <3> QED
      BY <3>2, <3>3
  <2> HIDE DEF SS
  <2> QED
    BY <2>1, <2>3, <2>6, <2>7 DEF SS
<1>3. CASE ref \in Outbound
  <2> DEFINE dead == [cs[ref] EXCEPT !.status = "destroyed"]
             k == conn[ref].cur
  <2>1. ref # NoConn /\ ref \notin Socket /\ CC = [cs EXCEPT ![ref].status = "destroyed"]
    BY <1>3, Refs DEF DestroyConn, IsOutbound
  <2>2. \A c \in Outbound : CC[c] = IF c = ref THEN dead ELSE cs[c]
    BY <1>3, <2>1 DEF Coherent
  <2>3. dead \in Conn /\ dead.status = "destroyed" /\ dead.cur = k /\ dead.key = cs[ref].key
        /\ dead.listeners = cs[ref].listeners
    BY <1>3 DEF Coherent, Conn
  <2>4. CC \in [Outbound -> Conn]
    BY <1>3, <2>1, <2>3 DEF Coherent
  <2>5. k \in Slots \cup {0}
    BY <1>3 DEF Conn
  <2>6. \A s \in Socket : SS[s] = IF Owner(s) = ref /\ s[3] = k THEN CloseD(ss[s]) ELSE ss[s]
    <3>1. CASE k = 0
      <4>1. SS = ss
        BY <1>3, <2>1, <3>1 DEF DestroySock, IsOutbound
      <4> QED
        BY <3>1, <4>1, Refs
    <3>2. CASE k # 0
      <4>1. SS = [ss EXCEPT ![SocketOf(ref, k)] = CloseD(ss[SocketOf(ref, k)])]
        BY <1>3, <2>1, <3>2 DEF DestroySock, IsOutbound, CurSock
      <4>2. SocketOf(ref, k) \in Socket /\ Owner(SocketOf(ref, k)) = ref
            /\ SocketOf(ref, k)[3] = k
        BY <1>3, <2>5, <3>2, Refs
      <4>3. \A s \in Socket : Owner(s) = ref /\ s[3] = k <=> s = SocketOf(ref, k)
        BY <4>2, Refs
      <4> HIDE DEF k
      <4> QED
        BY <4>1, <4>2, <4>3 DEF Coherent
    <3> QED
      BY <3>1, <3>2
  <2>7. SS \in [Socket -> Sock]
    <3>1. SS = [s \in Socket |-> SS[s]]
      BY <1>3, <2>1 DEF DestroySock, IsOutbound, Coherent, CurSock
    <3>2. \A s \in Socket : SS[s] \in Sock
      BY <2>6, ClosedD DEF Coherent
    <3> HIDE DEF SS
    <3> QED
      BY <3>1, <3>2
  <2> HIDE DEF SS, dead, k
  <2>8. \A s \in Socket : Right(SS[s], CC[Owner(s)], s, timers)
    <3> TAKE s \in Socket
    <3>1. Right(ss[s], cs[Owner(s)], s, timers) /\ ss[s] \in Sock /\ Owner(s) \in Outbound
          /\ cs[Owner(s)] \in Conn
      BY Refs DEF Coherent
    <3>2. CASE Owner(s) # ref
      BY <2>2, <2>6, <3>1, <3>2
    <3>3. CASE Owner(s) = ref /\ s[3] = k
      <4>1. cs[Owner(s)].cur = s[3]
        BY <1>3, <3>3 DEF k
      <4>2. Right(CloseD(ss[s]), dead, s, timers)
        BY <3>1, <3>3, <4>1, RightClosed DEF dead
      <4> QED
        BY <2>2, <2>6, <3>1, <3>3, <4>2
    <3>4. CASE Owner(s) = ref /\ s[3] # k
      <4>1. cs[Owner(s)].cur # s[3]
        BY <1>3, <3>4 DEF k
      <4>2. Right(ss[s], dead, s, timers)
        BY <3>1, <3>4, <4>1, RightDestroyed DEF dead
      <4> QED
        BY <2>2, <2>6, <3>1, <3>4, <4>2
    <3> QED
      BY <3>2, <3>3, <3>4
  <2>9. Coherent(SS, CC, timers)
    BY <2>4, <2>7, <2>8 DEF Coherent
  <2>10. \A s \in Socket :
          /\ SS[s].r = ss[s].r /\ SS[s].handlers = ss[s].handlers
          /\ HeldIn(SS[s]) => HeldIn(ss[s])
          /\ HeldOut(SS[s]) => HeldOut(ss[s]) /\ Owner(s) # ref
          /\ Owner(s) # ref => SS[s] = ss[s]
    <3> TAKE s \in Socket
    <3>1. ss[s] \in Sock /\ SS[s] \in Sock
      BY <2>7 DEF Coherent
    <3>2. CASE Owner(s) = ref /\ s[3] = k
      BY <2>6, <3>1, <3>2, ClosedD DEF HeldIn, HeldOut
    <3>3. CASE ~(Owner(s) = ref /\ s[3] = k)
      <4>1. SS[s] = ss[s]
        BY <2>6, <3>3
      <4>2. Owner(s) = ref => ss[s].d # "open"
        BY <1>3, <3>3 DEF Coherent, Right, Fits, Alive, k
      <4> QED
        BY <4>1, <4>2 DEF HeldOut
    <3> QED
      BY <3>2, <3>3
  <2>11. \A c \in Outbound :
           /\ CC[c].cur = cs[c].cur /\ CC[c].key = cs[c].key /\ CC[c].listeners = cs[c].listeners
           /\ CC[c].status = IF c = ref THEN "destroyed" ELSE cs[c].status
           /\ c # ref => CC[c] = cs[c]
    BY <1>3, <2>2, <2>3 DEF k
  <2>12. \A s \in Socket : s # ref
    BY <2>1
  <2> HIDE DEF CC
  <2> QED
    BY <2>9, <2>10, <2>11, <2>12 DEF SS, CC
<1> QED
  BY <1>1, <1>2, <1>3

------------------------------------------------------------------------------
(* PeerLink.  The invariant: what holds of all sockets, and of the maps.   *)

\* A PeerConnection not made yet has no socket and no listener.
Unborn ==
  \A c \in Outbound : conn[c].status = "unborn" => conn[c].cur = 0 /\ conn[c].listeners = 0

\* A bridge starts handshakes on one PeerConnection only, ...
Listening ==
  /\ \A c, d \in Outbound :
       c[1] = d[1] /\ conn[c].listeners > 0 /\ conn[d].listeners > 0 => c = d
  /\ \A c \in Outbound : conn[c].listeners = 2 => c[1] \in plan.rediscover

\* ... which its map shows, if it has neither a placeholder nor an anchor in its place.
Shown ==
  \A c \in Outbound :
    /\ conn[c].status = "live" /\ conn[c].listeners > 0
    /\ c[1] \notin plan.aliased \cup plan.anchoring
    => peers[c[1]]["id"] = c

\* A socket an end counts on is the one its map shows: the accepting end from its
\* verify on, the dialling end from the moment its verify is on its way.
MapsHold ==
  \A s \in Socket : /\ HeldIn(sock[s]) => peers[Acceptor(s)]["id"] = s
                    /\ HeldOut(sock[s]) => peers[s[1]]["id"] = Owner(s)

\* The inductive invariant.
LinkInv ==
  /\ TypeOK /\ Unborn /\ Listening /\ Shown /\ MapsHold
  /\ Coherent(sock, conn, plan.timeouts)

\* TypeOK, but for the shape of the maps.
LEMMA Types ==
  TypeOK <=>
    /\ peers \in [Node -> [Key -> Outbound \cup Socket \cup {NoConn}]]
    /\ conn \in [Outbound -> Conn] /\ sock \in [Socket -> Sock]
    /\ trusts \in [Node -> BOOLEAN]
    /\ budget \in [plan : Plans, breaks : Nat, timeouts : Nat, apps : Nat]
    /\ budget.breaks <= plan.breaks /\ budget.timeouts <= plan.timeouts
    /\ budget.apps <= plan.apps
    /\ \A n \in Node, k \in Key :
         /\ peers[n][k] \in Outbound =>
              LET c == peers[n][k]
              IN  c[1] = n /\ conn[c].key = k /\ conn[c].status # "unborn"
         /\ peers[n][k] \in Socket =>
              LET s == peers[n][k]
              IN  Acceptor(s) = n /\ k = "id" /\ sock[s].r = "accepted"
<1>1. \A p \in Plans : p.breaks \in Nat /\ p.timeouts \in Nat /\ p.apps \in Nat
  BY PlanAssumption DEF Plan
<1> QED
  BY <1>1 DEF TypeOK, plan

\* The invariant holds when neither bridge has dialled.
LEMMA LinkInit == Init => LinkInv
<1> SUFFICES ASSUME Init PROVE LinkInv
  OBVIOUS
<1> USE DEF Init
<1>1. PICK p \in Plans :
        /\ budget = [plan |-> p, breaks |-> p.breaks, timeouts |-> p.timeouts, apps |-> p.apps]
        /\ trusts \in [Node -> BOOLEAN]
  OBVIOUS
<1>2. p \in Plan
  BY PlanAssumption
<1>3. NoSock \in Sock
  BY DEF NoSock, Sock
<1>4. \A c \in Outbound : conn[c] \in Conn /\ conn[c].cur = 0 /\ conn[c].status = "unborn"
                          /\ conn[c].listeners = 0
  BY DEF Conn, Key
<1>5. TypeOK
  <2>1. /\ budget \in [plan : Plans, breaks : Nat, timeouts : Nat, apps : Nat]
        /\ budget.breaks <= plan.breaks /\ budget.timeouts <= plan.timeouts
        /\ budget.apps <= plan.apps
    BY <1>1, <1>2 DEF Plan, plan
  <2>2. peers \in [Node -> [Key -> Outbound \cup Socket \cup {NoConn}]]
    OBVIOUS
  <2>3. conn \in [Outbound -> Conn] /\ sock \in [Socket -> Sock]
    BY <1>3, <1>4
  <2>4. \A n \in Node, k \in Key : peers[n][k] = NoConn
    OBVIOUS
  <2> QED
    BY <1>1, <2>1, <2>2, <2>3, <2>4, Refs, Types
<1>6. Unborn /\ Listening /\ Shown
  BY <1>4 DEF Unborn, Listening, Shown
<1>7. MapsHold
  BY DEF MapsHold, HeldIn, HeldOut, NoSock
<1>8. Coherent(sock, conn, plan.timeouts)
  <2>1. \A s \in Socket : Right(sock[s], conn[Owner(s)], s, plan.timeouts)
    <3> TAKE s \in Socket
    <3>1. sock[s] = NoSock /\ conn[Owner(s)].cur = 0 /\ conn[Owner(s)].status = "unborn"
          /\ conn[Owner(s)].listeners = 0 /\ s[3] # 0
      BY <1>4, Refs
    <3> QED
      BY <3>1 DEF Right, Fits, Waits, Alive, NoSock
  <2> QED
    BY <1>5, <2>1 DEF Coherent, TypeOK
<1> QED
  BY <1>5, <1>6, <1>7, <1>8 DEF LinkInv

\* A step that changes sockets only, and accepts none.
LEMMA SocketsOnly ==
  ASSUME LinkInv, UNCHANGED <<peers, conn>>, trusts' \in [Node -> BOOLEAN],
         budget' \in [plan : Plans, breaks : Nat, timeouts : Nat, apps : Nat],
         plan' = plan, budget'.breaks <= budget.breaks,
         budget'.timeouts <= budget.timeouts, budget'.apps <= budget.apps,
         sock' \in [Socket -> Sock],
         \A s \in Socket :
           /\ Right(sock'[s], conn[Owner(s)], s, plan.timeouts)
           /\ sock[s].r = "accepted" => sock'[s].r = "accepted"
           /\ HeldIn(sock'[s]) => HeldIn(sock[s])
           /\ HeldOut(sock'[s]) => HeldOut(sock[s])
  PROVE  LinkInv'
<1>1. plan \in Plan
  BY Types, PlanAssumption DEF LinkInv, plan
<1>2. TypeOK'
  <2>1. budget'.breaks <= plan.breaks /\ budget'.timeouts <= plan.timeouts
        /\ budget'.apps <= plan.apps
    BY <1>1, Types DEF LinkInv, Plan
  <2> QED
    BY <2>1, Types DEF LinkInv, TypeOK
<1>3. Unborn' /\ Listening' /\ Shown'
  BY DEF LinkInv, Unborn, Listening, Shown
<1>4. MapsHold'
  BY DEF LinkInv, MapsHold, HeldIn, HeldOut
<1>5. Coherent(sock, conn, plan.timeouts)'
  BY DEF LinkInv, Coherent
<1> QED
  BY <1>2, <1>3, <1>4, <1>5 DEF LinkInv

------------------------------------------------------------------------------
(* PeerLink.  The steps of one socket.                                     *)

\* The accepting end has taken a message, or moved on in its handshake.
Took(e)      == [e EXCEPT !.toR = Tail(@)]
Staged(e, r)  == [e EXCEPT !.r = r]

\* A message taken leaves a socket as it should be.
LEMMA RightTook ==
  ASSUME NEW s \in Socket, NEW e \in Sock, NEW c \in Conn, NEW timers, Right(e, c, s, timers),
         e.toR # <<>>
  PROVE  /\ Took(e) \in Sock /\ Right(Took(e), c, s, timers)
         /\ Took(e).d = e.d /\ Took(e).r = e.r /\ Took(e).ropen = e.ropen
         /\ Took(e).handlers = e.handlers /\ Took(e).toD = e.toD
         /\ \A x : Has(Took(e).toR, x) => Has(e.toR, x)
         /\ e.d \notin {"none", "connecting"} /\ Has(e.toR, Head(e.toR))
<1>1. /\ e.toR \in Seq(ToR) /\ Tail(e.toR) \in Seq(ToR)
      /\ \A x : Has(e.toR, x) <=> Has(Tail(e.toR), x) \/ x = Head(e.toR)
  BY SockFields, HasTail
<1>2. /\ Took(e) \in Sock
      /\ Took(e).d = e.d /\ Took(e).r = e.r /\ Took(e).ropen = e.ropen
      /\ Took(e).handlers = e.handlers /\ Took(e).toD = e.toD /\ Took(e).toR = Tail(e.toR)
  BY <1>1 DEF Took, Sock, ToR
<1>3. e.d \notin {"none", "connecting"}
  BY DEF Right, Fits, NoSock
<1> QED
  BY <1>1, <1>2, <1>3 DEF Right, Fits, Waits, Alive

\* So does the next stage of the accepting end, unless it waits on a closed socket.
LEMMA RightStaged ==
  ASSUME NEW s \in Socket, NEW e \in Sock, NEW c \in Conn, NEW timers, Right(e, c, s, timers),
         e.d \notin {"none", "connecting"},
         NEW r \in {"hello", "verify", "accepted", "done"},
         timers = 0 /\ r \in {"hello", "verify"} /\ ~e.ropen => e.r \in {"hello", "verify"}
  PROVE  /\ Staged(e, r) \in Sock /\ Right(Staged(e, r), c, s, timers)
         /\ Staged(e, r).d = e.d /\ Staged(e, r).r = r /\ Staged(e, r).ropen = e.ropen
         /\ Staged(e, r).handlers = e.handlers /\ Staged(e, r).toD = e.toD
         /\ Staged(e, r).toR = e.toR
<1>1. /\ Staged(e, r) \in Sock
      /\ Staged(e, r).d = e.d /\ Staged(e, r).r = r /\ Staged(e, r).ropen = e.ropen
      /\ Staged(e, r).handlers = e.handlers /\ Staged(e, r).toD = e.toD
      /\ Staged(e, r).toR = e.toR
  BY DEF Staged, Sock
<1> QED
  BY <1>1 DEF Right, Fits, Waits, Alive

\* An error is sent and the socket closed.
Turned(e) == [CloseR(e) EXCEPT !.r = "done"]

\* A handshake turned down leaves a socket as it should be, accepted by nobody.
LEMMA RightTurned ==
  ASSUME NEW s \in Socket, NEW e \in Sock, NEW c \in Conn, NEW timers, Right(e, c, s, timers),
         e.d \notin {"none", "connecting"}
  PROVE  /\ Turned(e) \in Sock /\ Right(Turned(e), c, s, timers)
         /\ ~HeldIn(Turned(e)) /\ (HeldOut(Turned(e)) => HeldOut(e))
<1>1. /\ CloseR(e) \in Sock
      /\ CloseR(e).d = e.d /\ CloseR(e).toR = e.toR /\ CloseR(e).handlers = e.handlers
      /\ CloseR(e).ropen = FALSE /\ (Has(e.toD, "fin") \/ e.ropen => Has(CloseR(e).toD, "fin"))
  BY ClosedR
<1>2. /\ Turned(e) \in Sock /\ Turned(e).d = e.d /\ Turned(e).toR = e.toR
      /\ Turned(e).handlers = e.handlers /\ Turned(e).ropen = FALSE
      /\ Turned(e).r = "done" /\ Turned(e).toD = CloseR(e).toD
  BY <1>1 DEF Turned, Sock
<1> QED
  BY <1>1, <1>2 DEF Right, Fits, Waits, Alive, HeldIn, HeldOut

\* What the invariant says of one socket.
LEMMA Known ==
  ASSUME LinkInv, NEW s \in Socket
  PROVE  /\ sock[s] \in Sock /\ Owner(s) \in Outbound /\ conn[Owner(s)] \in Conn
         /\ Right(sock[s], conn[Owner(s)], s, plan.timeouts)
BY Refs DEF LinkInv, Coherent

\* A step of one socket that accepts nobody.
LEMMA OneSocket ==
  ASSUME LinkInv, NEW s \in Socket, NEW f \in Sock, sock' = [sock EXCEPT ![s] = f],
         UNCHANGED <<peers, conn>>, trusts' \in [Node -> BOOLEAN],
         budget' \in [plan : Plans, breaks : Nat, timeouts : Nat, apps : Nat],
         plan' = plan, budget'.breaks <= budget.breaks,
         budget'.timeouts <= budget.timeouts, budget'.apps <= budget.apps,
         Right(f, conn[Owner(s)], s, plan.timeouts),
         sock[s].r = "accepted" => f.r = "accepted",
         HeldIn(f) => HeldIn(sock[s]),
         HeldOut(f) => HeldOut(sock[s])
  PROVE  LinkInv'
<1>1. sock \in [Socket -> Sock]
  BY DEF LinkInv, Coherent
<1>2. sock' \in [Socket -> Sock] /\ \A u \in Socket : sock'[u] = IF u = s THEN f ELSE sock[u]
  BY <1>1
<1>3. \A u \in Socket :
        /\ Right(sock'[u], conn[Owner(u)], u, plan.timeouts)
        /\ sock[u].r = "accepted" => sock'[u].r = "accepted"
        /\ HeldIn(sock'[u]) => HeldIn(sock[u])
        /\ HeldOut(sock'[u]) => HeldOut(sock[u])
  BY <1>2, Known
<1> QED
  BY <1>2, <1>3, SocketsOnly

\* The same, when the budget is left alone.
LEMMA OneSocketFree ==
  ASSUME LinkInv, NEW s \in Socket, NEW f \in Sock, sock' = [sock EXCEPT ![s] = f],
         UNCHANGED <<peers, conn, trusts, budget>>,
         Right(f, conn[Owner(s)], s, plan.timeouts),
         sock[s].r = "accepted" => f.r = "accepted",
         HeldIn(f) => HeldIn(sock[s]),
         HeldOut(f) => HeldOut(sock[s])
  PROVE  LinkInv'
<1>1. /\ budget' = budget /\ plan' = plan /\ trusts \in [Node -> BOOLEAN]
      /\ budget \in [plan : Plans, breaks : Nat, timeouts : Nat, apps : Nat]
  BY Types DEF LinkInv, plan
<1>2. budget.breaks <= budget.breaks /\ budget.timeouts <= budget.timeouts
      /\ budget.apps <= budget.apps
  BY <1>1
<1> QED
  BY <1>1, <1>2, OneSocket

\* hello preserves the invariant, ...
LEMMA HelloStep == ASSUME LinkInv, NEW s \in Socket, OnHello(s) PROVE LinkInv'
<1> DEFINE e == Took(sock[s])
           f == HandleHello(Acceptor(s), e)
<1>1. /\ sock[s].r = "hello" /\ sock[s].toR # <<>> /\ UNCHANGED <<peers, conn, trusts, budget>>
      /\ sock' = [sock EXCEPT ![s] = f]
  <2>1. Taken(s) = [sock EXCEPT ![s] = e]
    BY DEF Taken, Took
  <2>2. sock' = [[sock EXCEPT ![s] = e] EXCEPT ![s] = HandleHello(Acceptor(s), @)]
    BY <2>1 DEF OnHello
  <2>3. sock \in [Socket -> Sock]
    BY DEF LinkInv, Coherent
  <2> QED
    BY <2>2, <2>3 DEF OnHello, AtR
<1>2. /\ e \in Sock /\ Right(e, conn[Owner(s)], s, plan.timeouts)
      /\ e.d = sock[s].d /\ e.r = "hello" /\ e.ropen = sock[s].ropen
      /\ e.handlers = sock[s].handlers /\ e.toD = sock[s].toD
      /\ Has(e.toR, "verify") => Has(sock[s].toR, "verify")
      /\ e.d \notin {"none", "connecting"}
  BY <1>1, Known, RightTook
<1> HIDE DEF e
<1>3. CASE RegistryOk(Acceptor(s))
  <2> DEFINE g == Staged(e, "verify")
  <2>1. /\ g \in Sock /\ Right(g, conn[Owner(s)], s, plan.timeouts)
        /\ g.d = e.d /\ g.r = "verify" /\ g.ropen = e.ropen
        /\ g.handlers = e.handlers /\ g.toD = e.toD /\ g.toR = e.toR
    BY <1>2, Known, RightStaged
  <2>2. /\ Append(g.toD, "cr") \in Seq(ToD)
        /\ \A x : Has(Append(g.toD, "cr"), x) <=> Has(g.toD, x) \/ x = "cr"
    <3>1. g.toD \in Seq(ToD) /\ "cr" \in ToD
      BY <2>1, SockFields DEF ToD
    <3> QED
      BY <3>1, HasAppend
  <2>3. f = [g EXCEPT !.toD = IF e.ropen THEN Append(@, "cr") ELSE @]
    BY <1>2, <1>3 DEF HandleHello, Staged, Sock
  <2>4. /\ f \in Sock /\ f.d = g.d /\ f.r = g.r /\ f.ropen = g.ropen /\ f.handlers = g.handlers
        /\ f.toR = g.toR
        /\ Has(g.toD, "fin") => Has(f.toD, "fin")
    <3> HIDE DEF f, g
    <3> QED
      BY <2>1, <2>2, <2>3 DEF Sock, ToD
  <2> HIDE DEF f, g
  <2>5. Right(f, conn[Owner(s)], s, plan.timeouts)
    BY <1>2, <2>1, <2>4 DEF Right, Fits, Waits, Alive
  <2>6. ~HeldIn(f) /\ (HeldOut(f) => HeldOut(sock[s]))
    BY <1>2, <2>1, <2>4 DEF HeldIn, HeldOut
  <2> QED
    BY <1>1, <2>4, <2>5, <2>6, OneSocketFree
<1>4. CASE ~RegistryOk(Acceptor(s))
  <2>1. f = Turned(e)
    BY <1>4 DEF HandleHello, Turned
  <2>2. /\ f \in Sock /\ Right(f, conn[Owner(s)], s, plan.timeouts)
        /\ ~HeldIn(f) /\ (HeldOut(f) => HeldOut(e))
    BY <1>2, <2>1, Known, RightTurned
  <2>3. HeldOut(e) => HeldOut(sock[s])
    BY <1>1, <1>2 DEF HeldOut
  <2> HIDE DEF f
  <2> QED
    BY <1>1, <2>2, <2>3, OneSocketFree
<1> QED
  BY <1>3, <1>4

\* ... so does a message that is not the one awaited, ...
LEMMA UnexpectedStep == ASSUME LinkInv, NEW s \in Socket, OnUnexpected(s) PROVE LinkInv'
<1> DEFINE e == Took(sock[s])
           f == Turned(e)
<1>1. /\ sock[s].r # "accepted" /\ sock[s].toR # <<>>
      /\ UNCHANGED <<peers, conn, trusts, budget>> /\ sock' = [sock EXCEPT ![s] = f]
  <2>1. Taken(s) = [sock EXCEPT ![s] = e]
    BY DEF Taken, Took
  <2>2. sock' = [[sock EXCEPT ![s] = e] EXCEPT ![s] = [CloseR(@) EXCEPT !.r = "done"]]
    BY <2>1 DEF OnUnexpected
  <2>3. sock \in [Socket -> Sock]
    BY DEF LinkInv, Coherent
  <2> QED
    BY <2>2, <2>3 DEF OnUnexpected, AtR, Turned
<1>2. /\ e \in Sock /\ Right(e, conn[Owner(s)], s, plan.timeouts)
      /\ e.d = sock[s].d /\ e.r = sock[s].r
      /\ Has(e.toR, "verify") => Has(sock[s].toR, "verify")
      /\ e.d \notin {"none", "connecting"}
  BY <1>1, Known, RightTook
<1> HIDE DEF e
<1>3. /\ f \in Sock /\ Right(f, conn[Owner(s)], s, plan.timeouts)
      /\ ~HeldIn(f) /\ (HeldOut(f) => HeldOut(e))
  BY <1>2, Known, RightTurned
<1>4. HeldOut(e) => HeldOut(sock[s])
  BY <1>1, <1>2 DEF HeldOut
<1> HIDE DEF f
<1> QED
  BY <1>1, <1>3, <1>4, OneSocketFree

\* ... and one for a handshake that is over.
LEMMA LaterStep == ASSUME LinkInv, NEW s \in Socket, OnLaterMessage(s) PROVE LinkInv'
<1> DEFINE f == Took(sock[s])
<1>1. /\ sock[s].toR # <<>>
      /\ UNCHANGED <<peers, conn, trusts, budget>> /\ sock' = [sock EXCEPT ![s] = f]
  BY DEF OnLaterMessage, AtR, Taken, Took
<1>2. /\ f \in Sock /\ Right(f, conn[Owner(s)], s, plan.timeouts)
      /\ f.d = sock[s].d /\ f.r = sock[s].r /\ f.ropen = sock[s].ropen
      /\ Has(f.toR, "verify") => Has(sock[s].toR, "verify")
  BY <1>1, Known, RightTook
<1> HIDE DEF f
<1>3. (HeldIn(f) => HeldIn(sock[s])) /\ (HeldOut(f) => HeldOut(sock[s]))
  BY <1>2 DEF HeldIn, HeldOut
<1> QED
  BY <1>1, <1>2, <1>3, OneSocketFree

\* A dialled socket that opens sends one hello for each listener.
LEMMA OpenStep == ASSUME LinkInv, NEW s \in Socket, OnOpen(s) PROVE LinkInv'
<1> DEFINE e == sock[s]
           c == conn[Owner(s)]
           hellos == [i \in 1 .. c.listeners |-> "hello"]
           f == [e EXCEPT !.d = "open", !.r = "hello", !.ropen = TRUE,
                          !.handlers = c.listeners, !.toR = hellos]
<1>1. /\ e \in Sock /\ c \in Conn /\ Right(e, c, s, plan.timeouts) /\ e.d = "connecting"
      /\ UNCHANGED <<peers, conn, trusts, budget>> /\ sock' = [sock EXCEPT ![s] = f]
  BY Known DEF OnOpen
<1>2. c.listeners \in 0 .. 2 /\ hellos \in Seq(ToR) /\ ~Has(hellos, "verify")
  <2>1. c.listeners \in 0 .. 2
    BY <1>1 DEF Conn
  <2>2. hellos \in Seq(ToR) /\ Len(hellos) = c.listeners
        /\ \A i \in 1 .. c.listeners : hellos[i] = "hello"
    BY <2>1 DEF ToR
  <2> QED
    BY <2>1, <2>2 DEF Has
<1>3. /\ f \in Sock /\ f.d = "open" /\ f.r = "hello" /\ f.ropen = TRUE
      /\ f.handlers = c.listeners /\ f.toR = hellos
  BY <1>1, <1>2 DEF Sock, ToR
<1> HIDE DEF f, hellos
<1>4. Right(f, c, s, plan.timeouts)
  BY <1>1, <1>2, <1>3 DEF Right, Fits, Waits, Alive
<1>5. ~HeldIn(f) /\ ~HeldOut(f) /\ e.r # "accepted"
  BY <1>1, <1>2, <1>3 DEF HeldIn, HeldOut, Right, Fits
<1> QED
  BY <1>1, <1>3, <1>4, <1>5, OneSocketFree

\* A step takes from one bound of the budget.
LEMMA Spent ==
  ASSUME LinkInv
  PROVE  /\ budget.breaks > 0 /\ budget' = [budget EXCEPT !.breaks = @ - 1]
              => /\ budget' \in [plan : Plans, breaks : Nat, timeouts : Nat, apps : Nat]
                 /\ plan' = plan /\ budget'.breaks <= budget.breaks
                 /\ budget'.timeouts <= budget.timeouts /\ budget'.apps <= budget.apps
         /\ budget.timeouts > 0 /\ budget' = [budget EXCEPT !.timeouts = @ - 1]
              => /\ budget' \in [plan : Plans, breaks : Nat, timeouts : Nat, apps : Nat]
                 /\ plan' = plan /\ budget'.breaks <= budget.breaks
                 /\ budget'.timeouts <= budget.timeouts /\ budget'.apps <= budget.apps
                 /\ plan.timeouts # 0
         /\ budget.apps > 0 /\ budget' = [budget EXCEPT !.apps = @ - 1]
              => /\ budget' \in [plan : Plans, breaks : Nat, timeouts : Nat, apps : Nat]
                 /\ plan' = plan /\ budget'.breaks <= budget.breaks
                 /\ budget'.timeouts <= budget.timeouts /\ budget'.apps <= budget.apps
         /\ budget' = budget
              => /\ budget' \in [plan : Plans, breaks : Nat, timeouts : Nat, apps : Nat]
                 /\ plan' = plan /\ budget'.breaks <= budget.breaks
                 /\ budget'.timeouts <= budget.timeouts /\ budget'.apps <= budget.apps
         /\ trusts \in [Node -> BOOLEAN]
<1>1. /\ budget \in [plan : Plans, breaks : Nat, timeouts : Nat, apps : Nat]
      /\ trusts \in [Node -> BOOLEAN] /\ budget.timeouts <= plan.timeouts
  BY Types DEF LinkInv
<1>2. plan.timeouts \in Nat
  BY <1>1, PlanAssumption DEF plan, Plan
<1> QED
  BY <1>1, <1>2 DEF plan

\* A connection that breaks says fin to both ends after what had been sent.
LEMMA BreakStep == ASSUME LinkInv, NEW s \in Socket, Break(s) PROVE LinkInv'
<1> DEFINE e == sock[s]
<1>1. PICK i \in 0 .. Len(e.toR), j \in 0 .. Len(e.toD) :
        sock' = [sock EXCEPT ![s].toR = Append(SubSeq(@, 1, i), "fin"),
                             ![s].toD = Append(SubSeq(@, 1, j), "fin")]
  BY DEF Break
<1> DEFINE f == [e EXCEPT !.toR = Append(SubSeq(@, 1, i), "fin"),
                          !.toD = Append(SubSeq(@, 1, j), "fin")]
<1>2. sock' = [sock EXCEPT ![s] = f]
  BY <1>1, Known DEF LinkInv, Coherent
<1>3. e \in Sock /\ Right(e, conn[Owner(s)], s, plan.timeouts) /\ e.d = "open" /\ e.ropen
  BY Known DEF Break
<1>4. /\ Append(SubSeq(e.toR, 1, i), "fin") \in Seq(ToR)
      /\ Append(SubSeq(e.toD, 1, j), "fin") \in Seq(ToD)
      /\ Has(Append(SubSeq(e.toR, 1, i), "fin"), "verify") => Has(e.toR, "verify")
      /\ Has(Append(SubSeq(e.toD, 1, j), "fin"), "fin")
  <2>1. e.toR \in Seq(ToR) /\ e.toD \in Seq(ToD) /\ "fin" \in ToR /\ "fin" \in ToD
    BY <1>3, SockFields DEF ToR, ToD
  <2>2. /\ SubSeq(e.toR, 1, i) \in Seq(ToR) /\ SubSeq(e.toD, 1, j) \in Seq(ToD)
        /\ Has(SubSeq(e.toR, 1, i), "verify") => Has(e.toR, "verify")
    BY <2>1, HasPrefix
  <2>3. \A q \in Seq(ToR) : /\ Append(q, "fin") \in Seq(ToR)
                            /\ Has(Append(q, "fin"), "verify") => Has(q, "verify")
    BY <2>1, HasAppend
  <2>4. \A q \in Seq(ToD) : /\ Append(q, "fin") \in Seq(ToD)
                            /\ Has(Append(q, "fin"), "fin")
    BY <2>1, HasAppend
  <2> QED
    BY <2>2, <2>3, <2>4
<1>5. /\ f \in Sock /\ f.d = e.d /\ f.r = e.r /\ f.ropen = e.ropen /\ f.handlers = e.handlers
      /\ Has(f.toR, "verify") => Has(e.toR, "verify")
      /\ Has(f.toD, "fin")
  BY <1>3, <1>4 DEF Sock, ToR, ToD
<1> HIDE DEF f
<1>6. Right(f, conn[Owner(s)], s, plan.timeouts)
  BY <1>3, <1>5 DEF Right, Fits, Waits, Alive
<1>7. (HeldIn(f) => HeldIn(e)) /\ (HeldOut(f) => HeldOut(e))
  BY <1>5 DEF HeldIn, HeldOut
<1>8. /\ UNCHANGED <<peers, conn, trusts>> /\ budget.breaks > 0
      /\ budget' = [budget EXCEPT !.breaks = @ - 1]
  BY DEF Break
<1> QED
  BY <1>2, <1>5, <1>6, <1>7, <1>8, Spent, OneSocket

\* A connection attempt may fail.
LEMMA FailsStep == ASSUME LinkInv, NEW s \in Socket, ConnectFails(s) PROVE LinkInv'
<1> DEFINE e == sock[s]
           f == CloseD(e)
<1>1. /\ sock' = [sock EXCEPT ![s] = f]
      /\ UNCHANGED <<peers, conn, trusts>> /\ budget.breaks > 0
      /\ budget' = [budget EXCEPT !.breaks = @ - 1] /\ e.d = "connecting"
  BY DEF ConnectFails
<1>2. e \in Sock /\ conn[Owner(s)] \in Conn /\ Right(e, conn[Owner(s)], s, plan.timeouts)
  BY Known
<1>3. e.handlers = 0
  BY <1>1, <1>2 DEF Right, Fits
<1>4. /\ f \in Sock /\ f.d = "closing" /\ f.r = e.r /\ f.ropen = e.ropen
      /\ Right(f, conn[Owner(s)], s, plan.timeouts)
  BY <1>1, <1>2, <1>3, ClosedD, RightClosed
<1>5. (HeldIn(f) => HeldIn(e)) /\ ~HeldOut(f)
  BY <1>4 DEF HeldIn, HeldOut
<1> HIDE DEF f
<1> QED
  BY <1>1, <1>4, <1>5, Spent, OneSocket

\* The accepting end closes a handshake that takes too long.
LEMMA AcceptTimeoutStep == ASSUME LinkInv, NEW s \in Socket, AcceptTimeout(s) PROVE LinkInv'
<1> DEFINE e == sock[s]
           f == CloseR(e)
<1>1. /\ sock' = [sock EXCEPT ![s] = f]
      /\ UNCHANGED <<peers, conn, trusts>>
      /\ e.r \in {"hello", "verify"} /\ e.ropen
      /\ \/ Stalled(s) /\ budget' = [budget EXCEPT !.timeouts = budget.timeouts]
         \/ ~Stalled(s) /\ budget.timeouts > 0 /\ budget' = [budget EXCEPT !.timeouts = @ - 1]
  BY DEF AcceptTimeout
<1>2. e \in Sock /\ conn[Owner(s)] \in Conn /\ Right(e, conn[Owner(s)], s, plan.timeouts)
  BY Known
<1>3. [budget EXCEPT !.timeouts = budget.timeouts] = budget
  BY Types DEF LinkInv
<1>4. /\ f \in Sock /\ f.d = e.d /\ f.r = e.r /\ f.toR = e.toR /\ f.handlers = e.handlers
      /\ f.ropen = FALSE /\ (Has(e.toD, "fin") \/ e.ropen => Has(f.toD, "fin"))
  BY <1>2, ClosedR
<1> HIDE DEF f
<1>5. (HeldIn(f) => HeldIn(e)) /\ (HeldOut(f) => HeldOut(e))
  BY <1>4 DEF HeldIn, HeldOut
<1>6. plan.timeouts = 0 => e.handlers = 0 /\ ~Has(e.toR, "verify")
  <2>1. Stalled(s) => e.handlers = 0 /\ ~Has(e.toR, "verify")
    BY DEF Stalled, Has
  <2> QED
    BY <1>1, <2>1, Spent
<1>7. Right(f, conn[Owner(s)], s, plan.timeouts)
  <2>1. e.d \notin {"none", "connecting"}
    BY <1>1, <1>2 DEF Right, Fits, NoSock
  <2>2. Fits(f, conn[Owner(s)], s)
    BY <1>1, <1>2, <1>4, <2>1 DEF Right, Fits, Alive
  <2>3. Waits(f, conn[Owner(s)], s, plan.timeouts)
    BY <1>2, <1>4, <1>6 DEF Right, Waits
  <2> QED
    BY <2>2, <2>3 DEF Right
<1> QED
  BY <1>1, <1>3, <1>4, <1>5, <1>7, Spent, OneSocket

\* A broadcast reaches the connections of the map, in the middle of a handshake too.
LEMMA BroadcastStep == ASSUME LinkInv, NEW n \in Node, AppBroadcast(n) PROVE LinkInv'
<1> DEFINE Reached(s) == /\ \E k \in Key : peers[n][k] = Owner(s)
                         /\ Connected(Owner(s)) /\ CurSock(Owner(s)) = s
           More(e) == [e EXCEPT !.toR = Append(@, "app")]
<1>1. /\ sock' = [s \in Socket |-> IF Reached(s) THEN More(sock[s]) ELSE sock[s]]
      /\ UNCHANGED <<peers, conn, trusts>> /\ budget.apps > 0
      /\ budget' = [budget EXCEPT !.apps = @ - 1]
  BY DEF AppBroadcast
<1>2. ASSUME NEW s \in Socket, Reached(s)
      PROVE  /\ More(sock[s]) \in Sock
             /\ Right(More(sock[s]), conn[Owner(s)], s, plan.timeouts)
             /\ sock[s].r = "accepted" => More(sock[s]).r = "accepted"
             /\ HeldIn(More(sock[s])) => HeldIn(sock[s])
             /\ HeldOut(More(sock[s])) => HeldOut(sock[s])
  <2> DEFINE e == sock[s]
             f == More(e)
  <2>1. e \in Sock /\ Right(e, conn[Owner(s)], s, plan.timeouts) /\ e.d = "open"
    BY <1>2, Known DEF Connected, IsOutbound
  <2>2. /\ Append(e.toR, "app") \in Seq(ToR)
        /\ Has(Append(e.toR, "app"), "verify") => Has(e.toR, "verify")
    <3>1. e.toR \in Seq(ToR) /\ "app" \in ToR
      BY <2>1, SockFields DEF ToR
    <3> QED
      BY <3>1, HasAppend
  <2>3. /\ f \in Sock /\ f.d = e.d /\ f.r = e.r /\ f.ropen = e.ropen /\ f.handlers = e.handlers
        /\ f.toD = e.toD
        /\ Has(f.toR, "verify") => Has(e.toR, "verify")
    BY <2>1, <2>2 DEF Sock, ToR
  <2> HIDE DEF f
  <2>4. Right(f, conn[Owner(s)], s, plan.timeouts)
    BY <2>1, <2>3 DEF Right, Fits, Waits, Alive
  <2>5. (HeldIn(f) => HeldIn(e)) /\ (HeldOut(f) => HeldOut(e))
    BY <2>3 DEF HeldIn, HeldOut
  <2> QED
    BY <2>3, <2>4, <2>5 DEF f
<1> HIDE DEF Reached, More
<1>3. \A s \in Socket : sock'[s] = IF Reached(s) THEN More(sock[s]) ELSE sock[s]
  BY <1>1
<1>4. \A s \in Socket :
        /\ sock'[s] \in Sock /\ Right(sock'[s], conn[Owner(s)], s, plan.timeouts)
        /\ sock[s].r = "accepted" => sock'[s].r = "accepted"
        /\ HeldIn(sock'[s]) => HeldIn(sock[s])
        /\ HeldOut(sock'[s]) => HeldOut(sock[s])
  BY <1>2, <1>3, Known
<1>5. sock' \in [Socket -> Sock]
  BY <1>1, <1>4
<1> QED
  BY <1>1, <1>4, <1>5, Spent, SocketsOnly

\* The registry learns of the other bridge.
LEMMA RegisterStep == ASSUME LinkInv, NEW n \in Node, Register(n) PROVE LinkInv'
<1>1. /\ UNCHANGED <<peers, conn, sock, budget>> /\ trusts' \in [Node -> BOOLEAN]
  BY Spent DEF Register
<1>2. /\ sock \in [Socket -> Sock]
      /\ \A s \in Socket : Right(sock[s], conn[Owner(s)], s, plan.timeouts)
  BY DEF LinkInv, Coherent
<1> QED
  BY <1>1, <1>2, Spent, SocketsOnly

------------------------------------------------------------------------------
(* PeerLink.  The steps that dial.                                         *)

\* What an end counts on is connected.
LEMMA HeldConnected ==
  ASSUME LinkInv, NEW s \in Socket
  PROVE  /\ HeldIn(sock[s]) => Connected(s)
         /\ sock[s].d = "open" => /\ Connected(Owner(s)) /\ CurSock(Owner(s)) = s
                                  /\ conn[Owner(s)].status = "live"
<1>1. HeldIn(sock[s]) => Connected(s)
  BY Refs DEF HeldIn, Connected, IsOutbound
<1>2. ASSUME sock[s].d = "open"
      PROVE  Connected(Owner(s)) /\ CurSock(Owner(s)) = s /\ conn[Owner(s)].status = "live"
  <2>1. Owner(s) \in Outbound /\ conn[Owner(s)].cur = s[3] /\ conn[Owner(s)].status = "live"
    BY <1>2, Known DEF Right, Fits, Alive
  <2>2. SocketOf(Owner(s), s[3]) = s /\ s[3] # 0
    BY Refs
  <2> QED
    BY <1>2, <2>1, <2>2 DEF Connected, CurSock, IsOutbound
<1> QED
  BY <1>1, <1>2

\* A connected outbound connection has an open socket.
LEMMA ConnectedSock ==
  ASSUME LinkInv, NEW c \in Outbound, Connected(c)
  PROVE  /\ CurSock(c) \in Socket /\ Owner(CurSock(c)) = c /\ sock[CurSock(c)].d = "open"
         /\ conn[c].status = "live" /\ conn[c].cur = CurSock(c)[3]
<1>1. conn[c].status = "live" /\ conn[c].cur # 0 /\ sock[CurSock(c)].d = "open"
  BY DEF Connected, IsOutbound
<1>2. conn[c].cur \in Slots
  BY <1>1, Types DEF LinkInv, Conn
<1> QED
  BY <1>1, <1>2, Refs DEF CurSock

\* A PeerConnection with no socket up gets one: the new one is connecting and the
\* others are left alone.
LEMMA Opening ==
  ASSUME LinkInv, NEW c \in Outbound, NEW k \in Slots, sock[SocketOf(c, k)].d = "none",
         conn[c].cur = 0, NEW d \in Conn, d.status = "live", d.cur = k,
         d.listeners >= conn[c].listeners,
         conn' = [conn EXCEPT ![c] = d],
         sock' = [sock EXCEPT ![SocketOf(c, k)].d = "connecting"]
  PROVE  /\ Coherent(sock', conn', plan.timeouts)
         /\ \A s \in Socket : /\ s # SocketOf(c, k) => sock'[s] = sock[s]
                              /\ ~HeldIn(sock'[SocketOf(c, k)])
                              /\ ~HeldOut(sock'[SocketOf(c, k)])
                              /\ sock[SocketOf(c, k)].r = "none"
<1> DEFINE s == SocketOf(c, k)
           f == [NoSock EXCEPT !.d = "connecting"]
<1>1. s \in Socket /\ Owner(s) = c /\ s[3] = k
  BY Refs
<1>2. sock \in [Socket -> Sock] /\ conn \in [Outbound -> Conn]
  BY DEF LinkInv, Coherent
<1>3. sock[s] = NoSock
  BY <1>1, Known DEF Right, Fits
<1>4. sock' = [sock EXCEPT ![s] = f]
  BY <1>2, <1>3, <1>1
<1>5. f \in Sock /\ f.d = "connecting" /\ f.r = "none" /\ f.ropen = FALSE /\ f.handlers = 0
      /\ f.toR = <<>> /\ f.toD = <<>>
  <2>1. NoSock \in Sock
    BY DEF NoSock, Sock
  <2>2. f \in Sock
    BY <2>1 DEF Sock
  <2> QED
    BY <2>2 DEF NoSock
<1> HIDE DEF s, f
<1>6. sock' \in [Socket -> Sock] /\ conn' \in [Outbound -> Conn]
  BY <1>1, <1>2, <1>4, <1>5
<1>7. /\ \A u \in Socket : sock'[u] = IF u = s THEN f ELSE sock[u]
      /\ \A b \in Outbound : conn'[b] = IF b = c THEN d ELSE conn[b]
  BY <1>1, <1>2, <1>4
<1>8. \A u \in Socket : Right(sock'[u], conn'[Owner(u)], u, plan.timeouts)
  <2> TAKE u \in Socket
  <2>1. Right(sock[u], conn[Owner(u)], u, plan.timeouts) /\ Owner(u) \in Outbound
        /\ sock[u] \in Sock /\ u[3] # 0
    BY Known, Refs
  <2>2. CASE Owner(u) # c
    BY <1>1, <1>7, <2>1, <2>2
  <2>3. CASE u = s
    <3>1. sock'[u] = f /\ conn'[Owner(u)] = d
      BY <1>1, <1>7, <2>1, <2>3
    <3>2. d.listeners \in 0 .. 2 /\ ~Has(f.toR, "verify")
      BY <1>5 DEF Conn, Has
    <3>3. Fits(f, d, u)
      BY <1>1, <1>5, <2>3 DEF Fits, Alive
    <3>4. Waits(f, d, u, plan.timeouts)
      BY <1>5, <3>2 DEF Waits
    <3> QED
      BY <3>1, <3>3, <3>4 DEF Right
  <2>4. CASE Owner(u) = c /\ u # s
    <3>1. sock'[u] = sock[u] /\ conn'[Owner(u)] = d /\ u[3] # k
      BY <1>1, <1>7, <2>1, <2>4, Refs
    <3>2. ~Alive(sock[u])
      BY <2>1, <2>4 DEF Right, Fits
    <3>3. sock[u].handlers = 0
      BY <2>1, <3>2, SockFields DEF Right, Waits, Alive
    <3>4. Fits(sock[u], d, u)
      BY <2>1, <3>1, <3>2 DEF Right, Fits, Alive
    <3>5. d.listeners \in 0 .. 2
      BY DEF Conn
    <3>6. Waits(sock[u], d, u, plan.timeouts)
      BY <2>1, <3>2, <3>3, <3>5 DEF Right, Waits, Alive
    <3> QED
      BY <3>1, <3>4, <3>6 DEF Right
  <2> QED
    BY <1>1, <2>2, <2>3, <2>4
<1>9. ~HeldIn(f) /\ ~HeldOut(f) /\ sock[s].r = "none"
  BY <1>3, <1>5 DEF HeldIn, HeldOut, NoSock
<1> QED
  BY <1>1, <1>6, <1>7, <1>8, <1>9 DEF Coherent, s

\* A PeerConnection is made and takes a place in the map that holds nothing connected.
LEMMA NewStep ==
  ASSUME LinkInv, NEW n \in Node, NEW key \in Key, NEW listeners \in {0, 1},
         NewConn(n, key, listeners),
         key = "id" /\ peers[n]["id"] # NoConn => ~Connected(peers[n]["id"]),
         listeners = 1 => /\ \A c \in Outbound : c[1] = n => conn[c].status = "unborn"
                          /\ n \notin plan.aliased => key = "id",
         listeners = 0 => n \in plan.anchoring
  PROVE  LinkInv'
<1>1. PICK i \in 1 .. plan.dials, k \in Slots :
        /\ conn[<<n, i>>].status = "unborn"
        /\ conn' = [conn EXCEPT ![<<n, i>>] = [status |-> "live", key |-> key,
                                               listeners |-> listeners, cur |-> k]]
        /\ sock' = [sock EXCEPT ![SocketOf(<<n, i>>, k)].d = "connecting"]
        /\ peers' = [peers EXCEPT ![n][key] = <<n, i>>]
        /\ UNCHANGED <<trusts, budget>>
  BY DEF NewConn
<1> DEFINE c == <<n, i>>
           d == [status |-> "live", key |-> key, listeners |-> listeners, cur |-> k]
           s == SocketOf(c, k)
<1>2. plan \in Plan
  BY Types, PlanAssumption DEF LinkInv, plan
<1>3. c \in Outbound /\ c[1] = n
  BY <1>2, PlanAssumption DEF Plan, Outbound
<1>4. d \in Conn
  BY DEF Conn
<1>5. s \in Socket /\ Owner(s) = c
  BY <1>3, Refs
<1>6. conn[c].status = "unborn" /\ conn[c].cur = 0 /\ conn[c].listeners = 0
      /\ sock[s].d = "none" /\ sock[s].r = "none"
  BY <1>1, <1>3, <1>5, Known DEF LinkInv, Unborn, Right, Fits, NoSock
<1>7. /\ Coherent(sock', conn', plan.timeouts)
      /\ \A u \in Socket : u # s => sock'[u] = sock[u]
      /\ ~HeldIn(sock'[s]) /\ ~HeldOut(sock'[s])
  <2>1. d.status = "live" /\ d.cur = k /\ d.listeners >= 0
    OBVIOUS
  <2> HIDE DEF d, c
  <2> QED
    BY <1>1, <1>3, <1>4, <1>5, <1>6, <2>1, Opening DEF c, d
<1>8. \A b \in Outbound : conn'[b] = IF b = c THEN d ELSE conn[b]
  BY <1>1, Types DEF LinkInv
<1>9. /\ peers' \in [Node -> [Key -> Outbound \cup Socket \cup {NoConn}]]
      /\ \A m \in Node, j \in Key :
           peers'[m][j] = IF m = n /\ j = key THEN c ELSE peers[m][j]
  <2>1. peers \in [Node -> [Key -> Outbound \cup Socket \cup {NoConn}]]
    BY Types DEF LinkInv
  <2> HIDE DEF c
  <2> QED
    BY <1>1, <1>3, <2>1 DEF c
<1>10. d.status = "live" /\ d.key = key /\ d.listeners = listeners /\ d.cur = k
  OBVIOUS
<1> HIDE DEF c, d, s
<1>11. TypeOK'
  <2>1. \A m \in Node, j \in Key :
          /\ peers'[m][j] \in Outbound =>
               LET b == peers'[m][j]
               IN  b[1] = m /\ conn'[b].key = j /\ conn'[b].status # "unborn"
          /\ peers'[m][j] \in Socket =>
               LET u == peers'[m][j]
               IN  Acceptor(u) = m /\ j = "id" /\ sock'[u].r = "accepted"
    <3> TAKE m \in Node, j \in Key
    <3>1. CASE m = n /\ j = key
      BY <1>3, <1>8, <1>9, <1>10, <3>1, Refs
    <3>2. CASE ~(m = n /\ j = key)
      <4>1. peers'[m][j] = peers[m][j]
        BY <1>9, <3>2
      <4>2. peers[m][j] \in Outbound =>
              LET b == peers[m][j]
              IN  b[1] = m /\ conn[b].key = j /\ conn[b].status # "unborn"
        BY Types DEF LinkInv
      <4>3. peers[m][j] \in Socket =>
               LET u == peers[m][j]
               IN  Acceptor(u) = m /\ j = "id" /\ sock[u].r = "accepted"
        BY Types DEF LinkInv
      <4> QED
        BY <1>6, <1>7, <1>8, <4>1, <4>2, <4>3
    <3> QED
      BY <3>1, <3>2
  <2>2. /\ trusts' \in [Node -> BOOLEAN]
        /\ budget' \in [plan : Plans, breaks : Nat, timeouts : Nat, apps : Nat]
        /\ budget'.breaks <= plan' .breaks /\ budget'.timeouts <= plan'.timeouts
        /\ budget'.apps <= plan'.apps
    BY <1>1, Types DEF LinkInv, plan
  <2> QED
    BY <1>7, <1>9, <2>1, <2>2, Types DEF Coherent, TypeOK
<1>12. plan' = plan
  BY <1>1 DEF plan
<1>13. Unborn'
  BY <1>8, <1>10 DEF LinkInv, Unborn
<1>14. Listening'
  <2>1. \A b \in Outbound : b # c => conn'[b] = conn[b]
    BY <1>8
  <2>2. conn'[c].listeners = listeners
    BY <1>3, <1>8, <1>10
  <2>3. listeners = 1 => \A b \in Outbound : b[1] = n => conn[b].listeners = 0
    BY DEF LinkInv, Unborn
  <2> QED
    BY <1>3, <1>12, <2>1, <2>2, <2>3 DEF LinkInv, Listening
<1>15. Shown'
  <2> SUFFICES ASSUME NEW b \in Outbound, conn'[b].status = "live", conn'[b].listeners > 0,
                      b[1] \notin plan.aliased \cup plan.anchoring
               PROVE  peers'[b[1]]["id"] = b
    BY <1>12 DEF Shown
  <2>1. CASE b = c
    BY <1>3, <1>8, <1>9, <1>10, <2>1
  <2>2. CASE b # c
    <3>1. conn'[b] = conn[b] /\ b[1] \in Node /\ "id" \in Key
      BY <1>8, <2>2, Refs DEF Key
    <3>2. b[1] # n
      BY <3>1
    <3> QED
      BY <1>9, <3>1, <3>2 DEF LinkInv, Shown
  <2> QED
    BY <2>1, <2>2
<1>16. MapsHold'
  <2> SUFFICES ASSUME NEW u \in Socket
               PROVE  /\ HeldIn(sock'[u]) => peers'[Acceptor(u)]["id"] = u
                      /\ HeldOut(sock'[u]) => peers'[u[1]]["id"] = Owner(u)
    BY DEF MapsHold
  <2>1. "id" \in Key /\ u[1] \in Node /\ Acceptor(u) \in Node /\ Owner(u) \in Outbound
        /\ u # NoConn /\ Owner(u) # NoConn
    BY Refs, Pair DEF Key, Acceptor
  <2>2. CASE u = s
    BY <1>7, <2>2
  <2>3. CASE u # s
    <3>1. sock'[u] = sock[u]
      BY <1>7, <2>3
    <3>2. HeldIn(sock[u]) => peers[Acceptor(u)]["id"] = u /\ Connected(u)
      BY HeldConnected DEF LinkInv, MapsHold
    <3>3. HeldOut(sock[u]) => peers[u[1]]["id"] = Owner(u) /\ Connected(Owner(u))
      BY HeldConnected DEF LinkInv, MapsHold, HeldOut
    <3> QED
      BY <1>9, <2>1, <3>1, <3>2, <3>3
  <2> QED
    BY <2>2, <2>3
<1> QED
  BY <1>7, <1>11, <1>12, <1>13, <1>14, <1>15, <1>16 DEF LinkInv

\* The first connection a bridge makes: its listener is the only one.
LEMMA ConnectStep == ASSUME LinkInv, NEW n \in Node, ConnectToPeer(n) PROVE LinkInv'
<1>1. \A c \in Outbound : c[1] = n => conn[c].status = "unborn"
  BY Refs DEF ConnectToPeer
<1>2. DialKey(n) \in Key /\ (n \notin plan.aliased => DialKey(n) = "id")
  BY DEF DialKey, Key
<1>3. peers[n][DialKey(n)] = NoConn /\ NewConn(n, DialKey(n), 1)
  BY DEF ConnectToPeer
<1> QED
  BY <1>1, <1>2, <1>3, NewStep

\* An anchor has a PeerConnection made that nothing listens to.
LEMMA AnchorStep == ASSUME LinkInv, NEW n \in Node, EnsureAnchor(n) PROVE LinkInv'
<1>1. "id" \in Key
  BY DEF Key
<1> QED
  BY <1>1, NewStep DEF EnsureAnchor

\* To connect once more adds a second listener, or makes a connection under another
\* key.
LEMMA AgainStep == ASSUME LinkInv, NEW n \in Node, ConnectAgain(n) PROVE LinkInv'
<1> DEFINE c == peers[n][DialKey(n)]
<1>1. /\ n \in plan.rediscover /\ c \in Outbound /\ conn[c].listeners = 1
      /\ conn' = [conn EXCEPT ![c].listeners = 2] /\ UNCHANGED <<peers, sock, trusts, budget>>
  BY DEF ConnectAgain, IsOutbound
<1>2. DialKey(n) \in Key
  BY DEF DialKey, Key
<1>3. c[1] = n /\ conn[c].status # "unborn"
  BY <1>1, <1>2, Types DEF LinkInv
<1> HIDE DEF c
<1>4. /\ conn' \in [Outbound -> Conn]
      /\ \A b \in Outbound :
           /\ conn'[b].status = conn[b].status /\ conn'[b].cur = conn[b].cur
           /\ conn'[b].key = conn[b].key
           /\ conn'[b].listeners = IF b = c THEN 2 ELSE conn[b].listeners
  <2>1. conn \in [Outbound -> Conn]
    BY Types DEF LinkInv
  <2>2. [conn[c] EXCEPT !.listeners = 2] \in Conn
    BY <1>1, <2>1 DEF Conn
  <2> QED
    BY <1>1, <2>1, <2>2 DEF Conn
<1>5. plan' = plan
  BY <1>1 DEF plan
<1>6. TypeOK'
  BY <1>1, <1>4, <1>5, Types DEF LinkInv, TypeOK
<1>7. Unborn' /\ Listening' /\ Shown'
  BY <1>1, <1>3, <1>4, <1>5 DEF LinkInv, Unborn, Listening, Shown
<1>8. MapsHold'
  BY <1>1 DEF LinkInv, MapsHold
<1>9. Coherent(sock', conn', plan.timeouts)
  <2>1. \A s \in Socket : Right(sock[s], conn'[Owner(s)], s, plan.timeouts)
    <3> TAKE s \in Socket
    <3>1. Right(sock[s], conn[Owner(s)], s, plan.timeouts) /\ Owner(s) \in Outbound
          /\ sock[s].handlers \in 0 .. 2
      BY Known, SockFields
    <3>2. Fits(sock[s], conn'[Owner(s)], s)
      BY <1>4, <3>1 DEF Right, Fits
    <3>3. Waits(sock[s], conn'[Owner(s)], s, plan.timeouts)
      BY <1>4, <3>1 DEF Right, Waits
    <3> QED
      BY <3>2, <3>3 DEF Right
  <2> QED
    BY <1>1, <1>4, <2>1 DEF LinkInv, Coherent
<1> QED
  BY <1>5, <1>6, <1>7, <1>8, <1>9 DEF LinkInv

\* A PeerConnection redials when its socket is gone.
LEMMA ReconnectStep == ASSUME LinkInv, NEW c \in Outbound, Reconnect(c) PROVE LinkInv'
<1>1. PICK k \in 1 .. plan.slots :
        /\ FreeSlot(c, k)
        /\ conn' = [conn EXCEPT ![c].cur = k]
        /\ sock' = [sock EXCEPT ![SocketOf(c, k)].d = "connecting"]
  BY DEF Reconnect
<1>2. conn[c].status = "live" /\ conn[c].cur = 0 /\ UNCHANGED <<peers, trusts, budget>>
  BY DEF Reconnect
<1>3. plan \in Plan
  BY Types, PlanAssumption DEF LinkInv, plan
<1>4. k \in Slots
  BY <1>3, PlanAssumption DEF Plan
<1> DEFINE d == [conn[c] EXCEPT !.cur = k]
           s == SocketOf(c, k)
<1>5. conn \in [Outbound -> Conn]
  BY Types DEF LinkInv
<1>6. conn' = [conn EXCEPT ![c] = d] /\ d \in Conn /\ d.status = "live" /\ d.cur = k
      /\ d.key = conn[c].key /\ d.listeners = conn[c].listeners
      /\ d.listeners >= conn[c].listeners
  BY <1>1, <1>2, <1>4, <1>5 DEF Conn
<1>7. s \in Socket /\ Owner(s) = c /\ sock[s].d = "none"
  BY <1>1, <1>4, Refs DEF FreeSlot
<1> HIDE DEF d, s
<1>8. /\ Coherent(sock', conn', plan.timeouts)
      /\ \A u \in Socket : u # s => sock'[u] = sock[u]
      /\ ~HeldIn(sock'[s]) /\ ~HeldOut(sock'[s]) /\ sock[s].r = "none"
  BY <1>1, <1>2, <1>4, <1>6, <1>7, Opening DEF s
<1>9. \A b \in Outbound : /\ conn'[b].status = conn[b].status /\ conn'[b].key = conn[b].key
                          /\ conn'[b].listeners = conn[b].listeners
                          /\ conn[b].status = "unborn" => conn'[b].cur = conn[b].cur
  BY <1>2, <1>5, <1>6
<1>10. plan' = plan
  BY <1>2 DEF plan
<1>11. TypeOK'
  <2>1. \A m \in Node, j \in Key : peers[m][j] \in Socket => peers[m][j] # s
    BY <1>8, Types DEF LinkInv
  <2>2. \A m \in Node, j \in Key :
         /\ peers[m][j] \in Outbound =>
              LET b == peers[m][j]
              IN  b[1] = m /\ conn'[b].key = j /\ conn'[b].status # "unborn"
         /\ peers[m][j] \in Socket =>
              LET u == peers[m][j]
              IN  Acceptor(u) = m /\ j = "id" /\ sock'[u].r = "accepted"
    BY <1>8, <1>9, <2>1, Types DEF LinkInv
  <2> QED
    BY <1>2, <1>8, <1>10, <2>2, Types DEF LinkInv, Coherent, TypeOK
<1>12. Unborn' /\ Listening' /\ Shown'
  BY <1>2, <1>9, <1>10 DEF LinkInv, Unborn, Listening, Shown
<1>13. MapsHold'
  BY <1>2, <1>8 DEF LinkInv, MapsHold
<1> QED
  BY <1>8, <1>10, <1>11, <1>12, <1>13 DEF LinkInv

------------------------------------------------------------------------------
(* PeerLink.  The steps that destroy connections.                          *)

\* The budget is what it was, or less.
Budgeted ==
  /\ budget' \in [plan : Plans, breaks : Nat, timeouts : Nat, apps : Nat]
  /\ plan' = plan
  /\ budget'.breaks <= budget.breaks /\ budget'.timeouts <= budget.timeouts
  /\ budget'.apps <= budget.apps

\* A step that makes no PeerConnection and adds no listener.
LEMMA Assembled ==
  ASSUME LinkInv, Budgeted, trusts' \in [Node -> BOOLEAN],
         peers' \in [Node -> [Key -> Outbound \cup Socket \cup {NoConn}]],
         Coherent(sock', conn', plan.timeouts),
         \A b \in Outbound :
           /\ conn'[b].listeners = conn[b].listeners
           /\ conn'[b].status = "unborn" => conn[b].status = "unborn" /\ conn'[b].cur = 0,
         \A m \in Node, j \in Key :
           /\ peers'[m][j] \in Outbound =>
                LET b == peers'[m][j]
                IN  b[1] = m /\ conn'[b].key = j /\ conn'[b].status # "unborn"
           /\ peers'[m][j] \in Socket =>
                LET u == peers'[m][j]
                IN  Acceptor(u) = m /\ j = "id" /\ sock'[u].r = "accepted",
         \A b \in Outbound :
           /\ conn'[b].status = "live" /\ conn[b].listeners > 0
           /\ b[1] \notin plan.aliased \cup plan.anchoring
           => peers'[b[1]]["id"] = b,
         \A u \in Socket : /\ HeldIn(sock'[u]) => peers'[Acceptor(u)]["id"] = u
                           /\ HeldOut(sock'[u]) => peers'[u[1]]["id"] = Owner(u)
  PROVE  LinkInv'
<1>1. plan \in Plan /\ plan' = plan
  BY Types, PlanAssumption DEF LinkInv, plan, Budgeted
<1>2. TypeOK'
  <2>1. /\ budget'.breaks <= plan'.breaks /\ budget'.timeouts <= plan'.timeouts
        /\ budget'.apps <= plan'.apps
    BY <1>1, Types DEF LinkInv, Plan, Budgeted
  <2> QED
    BY <2>1, Types DEF Coherent, Budgeted, TypeOK
<1>3. Unborn' /\ Listening'
  <2>1. \A b \in Outbound : conn'[b].listeners = conn[b].listeners
    OBVIOUS
  <2>2. Listening'
    BY <1>1, <2>1 DEF LinkInv, Listening
  <2>3. \A b \in Outbound : conn[b].status = "unborn" => conn[b].listeners = 0
    BY DEF LinkInv, Unborn
  <2>4. Unborn'
    BY <2>1, <2>3 DEF Unborn
  <2> QED
    BY <2>2, <2>4
<1>4. Shown' /\ MapsHold'
  BY <1>1 DEF Shown, MapsHold
<1> QED
  BY <1>1, <1>2, <1>3, <1>4 DEF LinkInv

\* What a map holds.
LEMMA Entries ==
  ASSUME LinkInv
  PROVE  /\ peers \in [Node -> [Key -> Outbound \cup Socket \cup {NoConn}]]
         /\ "id" \in Key /\ "alias" \in Key
         /\ conn \in [Outbound -> Conn] /\ sock \in [Socket -> Sock]
         /\ \A m \in Node, j \in Key :
              /\ peers[m][j] \in Outbound =>
                   /\ peers[m][j][1] = m /\ conn[peers[m][j]].key = j
                   /\ conn[peers[m][j]].status # "unborn"
              /\ peers[m][j] \in Socket =>
                   Acceptor(peers[m][j]) = m /\ j = "id" /\ sock[peers[m][j]].r = "accepted"
         /\ \A u \in Socket :
              /\ HeldIn(sock[u]) => peers[Acceptor(u)]["id"] = u
              /\ HeldOut(sock[u]) => peers[u[1]]["id"] = Owner(u)
              /\ Acceptor(u) \in Node /\ u[1] \in Node /\ Acceptor(u) # u[1]
BY Types, Refs, Pair DEF LinkInv, Key, MapsHold, Acceptor

\* As it is when nothing is spent.
LEMMA SameBudget == ASSUME LinkInv, budget' = budget PROVE Budgeted
BY Spent DEF Budgeted

\* A socket that closes at the accepting end leaves the map of that end, unless another
\* is there.
LEMMA CloseRStep == ASSUME LinkInv, NEW s \in Socket, OnCloseR(s) PROVE LinkInv'
<1> DEFINE e == sock[s]
           c == conn[Owner(s)]
           g == [CloseR(e) EXCEPT !.r = "closed", !.toR = <<>>]
           f == Cleared(g)
<1>1. /\ e.toR # <<>> /\ sock' = [sock EXCEPT ![s] = f]
      /\ peers' = IF e.r = "accepted" THEN Removed(Acceptor(s), s) ELSE peers
      /\ UNCHANGED <<conn, trusts, budget>>
  BY DEF OnCloseR, AtR
<1>2. /\ e \in Sock /\ Right(e, c, s, plan.timeouts) /\ c \in Conn
      /\ e.d \notin {"none", "connecting"}
  BY <1>1, Known, RightTook
<1>3. /\ g \in Sock /\ g.d = e.d /\ g.r = "closed" /\ g.toR = <<>> /\ g.ropen = FALSE
      /\ g.handlers = e.handlers
      /\ Has(e.toD, "fin") \/ e.ropen => Has(g.toD, "fin")
  <2> DEFINE h == CloseR(e)
  <2>1. /\ h \in Sock /\ h.d = e.d /\ h.handlers = e.handlers /\ h.ropen = FALSE
        /\ Has(e.toD, "fin") \/ e.ropen => Has(h.toD, "fin")
    BY <1>2, ClosedR
  <2>2. <<>> \in Seq({"hello", "verify", "app", "fin"})
    OBVIOUS
  <2> HIDE DEF h
  <2>3. /\ g \in Sock /\ g.d = h.d /\ g.r = "closed" /\ g.toR = <<>> /\ g.ropen = h.ropen
        /\ g.handlers = h.handlers /\ g.toD = h.toD
    BY <2>1, <2>2 DEF Sock, h
  <2> QED
    BY <2>1, <2>3
<1> HIDE DEF g
<1>4. f \in Sock /\ Right(f, c, s, plan.timeouts) /\ ~HeldIn(f) /\ ~HeldOut(f)
  <2>1. NoSock \in Sock /\ NoSock.handlers = 0 /\ NoSock.d = "none" /\ NoSock.r = "none"
        /\ NoSock.ropen = FALSE /\ NoSock.toR = <<>>
    BY DEF NoSock, Sock
  <2>2. ~Has(<<>>, "verify")
    BY DEF Has
  <2>3. CASE g.d = "closed"
    <3>1. f = NoSock
      BY <1>3, <2>3 DEF Cleared
    <3>2. ~Alive(e) /\ c.status # "unborn" /\ c.listeners \in 0 .. 2
      BY <1>2, <1>3, <2>3 DEF Alive, Right, Fits, Conn
    <3> HIDE DEF f, c
    <3>3. Fits(f, c, s)
      BY <1>2, <2>1, <3>1, <3>2 DEF Right, Fits, Alive
    <3>4. Waits(f, c, s, plan.timeouts)
      BY <2>1, <3>1, <3>2 DEF Waits
    <3> QED
      BY <2>1, <2>2, <3>1, <3>3, <3>4 DEF Right, HeldIn, HeldOut
  <2>4. CASE g.d # "closed"
    <3>1. f = g
      BY <1>2, <1>3, <2>4 DEF Cleared
    <3> HIDE DEF f, c
    <3>2. Fits(f, c, s)
      BY <1>2, <1>3, <3>1 DEF Right, Fits, Alive
    <3>3. Waits(f, c, s, plan.timeouts)
      BY <1>2, <1>3, <3>1 DEF Right, Waits
    <3> QED
      BY <1>3, <2>2, <3>1, <3>2, <3>3 DEF Right, HeldIn, HeldOut
  <2> QED
    BY <2>3, <2>4
<1> HIDE DEF f
<1>5. /\ \A u \in Socket : sock'[u] = IF u = s THEN f ELSE sock[u]
      /\ sock' \in [Socket -> Sock]
  BY <1>1, <1>4, Entries
<1>6. Coherent(sock', conn', plan.timeouts)
  BY <1>1, <1>4, <1>5, Known, Entries DEF Coherent
<1>7. /\ peers' \in [Node -> [Key -> Outbound \cup Socket \cup {NoConn}]]
      /\ \A m \in Node, j \in Key :
           peers'[m][j] = IF peers[m][j] = s THEN NoConn ELSE peers[m][j]
  <2>1. CASE e.r = "accepted"
    <3>1. \A m \in Node : peers'[m] = IF m = Acceptor(s)
             THEN [k \in Key |-> IF peers[m][k] = s THEN NoConn ELSE peers[m][k]] ELSE peers[m]
      BY <1>1, <2>1, Entries DEF Removed
    <3>2. peers' \in [Node -> [Key -> Outbound \cup Socket \cup {NoConn}]]
      BY <1>1, <2>1, Entries DEF Removed
    <3>3. \A m \in Node, j \in Key : peers[m][j] = s => m = Acceptor(s)
      BY Entries
    <3> QED
      BY <3>1, <3>2, <3>3
  <2>2. CASE e.r # "accepted"
    BY <1>1, <2>2, Entries
  <2> QED
    BY <2>1, <2>2
<1>8. s # NoConn /\ s \notin Outbound /\ NoConn \notin Outbound /\ NoConn \notin Socket
      /\ \A u \in Socket : Owner(u) \in Outbound
  BY Refs
<1>9. \A b \in Outbound : conn[b].status = "unborn" => conn[b].cur = 0
  BY DEF LinkInv, Unborn
<1>10. \A m \in Node, j \in Key :
           /\ peers'[m][j] \in Outbound =>
                LET b == peers'[m][j]
                IN  b[1] = m /\ conn'[b].key = j /\ conn'[b].status # "unborn"
           /\ peers'[m][j] \in Socket =>
                LET u == peers'[m][j]
                IN  Acceptor(u) = m /\ j = "id" /\ sock'[u].r = "accepted"
  BY <1>1, <1>5, <1>7, <1>8, Entries
<1>11. \A b \in Outbound :
           /\ conn'[b].status = "live" /\ conn[b].listeners > 0
           /\ b[1] \notin plan.aliased \cup plan.anchoring
           => peers'[b[1]]["id"] = b
  BY <1>1, <1>7, <1>8, Entries, Refs DEF LinkInv, Shown
<1>12. \A u \in Socket : /\ HeldIn(sock'[u]) => peers'[Acceptor(u)]["id"] = u
                         /\ HeldOut(sock'[u]) => peers'[u[1]]["id"] = Owner(u)
  <2> TAKE u \in Socket
  <2>1. (HeldIn(sock'[u]) => HeldIn(sock[u]) /\ u # s)
        /\ (HeldOut(sock'[u]) => HeldOut(sock[u]))
    BY <1>4, <1>5
  <2>2. HeldIn(sock'[u]) => peers'[Acceptor(u)]["id"] = u
    BY <1>7, <2>1, Entries
  <2>3. HeldOut(sock'[u]) => peers'[u[1]]["id"] = Owner(u)
    <3>1. Owner(u) # s
      BY <1>8
    <3> QED
      BY <1>7, <2>1, <3>1, Entries
  <2> QED
    BY <2>2, <2>3
<1> QED
  BY <1>1, <1>6, <1>7, <1>9, <1>10, <1>11, <1>12, Assembled, SameBudget, Spent

\* One that closes at the dialling end takes the entries of its PeerConnection along.
LEMMA CloseDStep == ASSUME LinkInv, NEW s \in Socket, OnCloseD(s) PROVE LinkInv'
<1> DEFINE e == sock[s]
           c == Owner(s)
           h == IF e.d = "open" THEN [e EXCEPT !.toR = Append(@, "fin")] ELSE e
           g == [h EXCEPT !.d = "closed", !.toD = <<>>, !.handlers = 0]
           f == Cleared(g)
           d == [conn[c] EXCEPT !.cur = 0]
<1>1. /\ e.toD # <<>> /\ e.d # "closed" /\ sock' = [sock EXCEPT ![s] = f]
      /\ conn' = [conn EXCEPT ![c].cur = 0]
      /\ peers' = IF conn[c].status = "destroyed" THEN Removed(s[1], c) ELSE peers
      /\ UNCHANGED <<trusts, budget>>
  BY DEF OnCloseD, AtD
<1>2. /\ e \in Sock /\ Right(e, conn[c], s, plan.timeouts) /\ conn[c] \in Conn /\ c \in Outbound
      /\ c[1] = s[1] /\ s[3] # 0
  BY Known, Refs
<1>3. e.d \in {"open", "closing"} /\ conn[c].cur = s[3] /\ conn[c].status # "unborn"
  BY <1>1, <1>2, SockFields DEF Right, Fits, NoSock, Alive
<1>4. /\ g \in Sock /\ g.d = "closed" /\ g.r = e.r /\ g.ropen = e.ropen /\ g.handlers = 0
      /\ Has(g.toR, "verify") => Has(e.toR, "verify")
  <2>1. /\ h \in Sock /\ h.r = e.r /\ h.ropen = e.ropen
        /\ Has(h.toR, "verify") => Has(e.toR, "verify")
    <3>1. Append(e.toR, "fin") \in Seq(ToR)
          /\ (Has(Append(e.toR, "fin"), "verify") => Has(e.toR, "verify"))
      BY <1>2, FinSent
    <3> QED
      BY <1>2, <3>1 DEF Sock, ToR
  <2>2. <<>> \in Seq({"cr", "fin"})
    OBVIOUS
  <2> HIDE DEF h
  <2>3. g \in Sock
    <3> DEFINE h1 == [h EXCEPT !.d = "closed"]
               h2 == [h1 EXCEPT !.handlers = 0]
    <3>1. h1 \in Sock
      BY <2>1 DEF Sock
    <3>2. h2 \in Sock
      <4> HIDE DEF h1
      <4> QED
        BY <3>1 DEF Sock
    <3>3. [h2 EXCEPT !.toD = <<>>] \in Sock
      <4> HIDE DEF h2
      <4> QED
        BY <2>2, <3>2 DEF Sock
    <3>4. g = [h2 EXCEPT !.toD = <<>>]
      BY <2>1 DEF Sock
    <3> QED
      BY <3>3, <3>4
  <2>4. /\ g.d = "closed" /\ g.r = h.r /\ g.ropen = h.ropen /\ g.handlers = 0
        /\ g.toR = h.toR
    BY <2>1 DEF Sock
  <2> QED
    BY <2>1, <2>3, <2>4
<1>5. d \in Conn /\ d.cur = 0 /\ d.status = conn[c].status /\ d.key = conn[c].key
      /\ d.listeners = conn[c].listeners
  BY <1>2 DEF Conn
<1> HIDE DEF g, d
<1>6. /\ f \in Sock /\ Right(f, d, s, plan.timeouts) /\ ~HeldOut(f)
      /\ HeldIn(f) => HeldIn(e)
      /\ e.r = "accepted" => f.r = "accepted"
  <2>1. NoSock \in Sock /\ NoSock.handlers = 0 /\ NoSock.d = "none" /\ NoSock.r = "none"
        /\ NoSock.ropen = FALSE /\ NoSock.toR = <<>>
    BY DEF NoSock, Sock
  <2>2. d.listeners \in 0 .. 2
    BY <1>5 DEF Conn
  <2>3. CASE e.r \in {"none", "closed"}
    <3>1. f = NoSock
      BY <1>4, <2>3 DEF Cleared
    <3> HIDE DEF f
    <3>2. Fits(f, d, s)
      BY <1>2, <1>3, <1>5, <2>1, <3>1 DEF Fits, Alive
    <3>3. Waits(f, d, s, plan.timeouts)
      BY <2>1, <2>2, <3>1 DEF Waits
    <3> QED
      BY <2>1, <2>3, <3>1, <3>2, <3>3 DEF Right, HeldIn, HeldOut
  <2>4. CASE e.r \notin {"none", "closed"}
    <3>1. f = g
      BY <1>4, <2>4 DEF Cleared
    <3> HIDE DEF f
    <3>2. Fits(f, d, s)
      BY <1>2, <1>3, <1>4, <1>5, <2>4, <3>1 DEF Fits, Alive
    <3>3. Waits(f, d, s, plan.timeouts)
      BY <1>2, <1>4, <2>2, <3>1 DEF Right, Waits
    <3> QED
      BY <1>4, <2>4, <3>1, <3>2, <3>3 DEF Right, HeldIn, HeldOut
  <2> QED
    BY <2>3, <2>4
<1> HIDE DEF f
<1>7. /\ \A u \in Socket : sock'[u] = IF u = s THEN f ELSE sock[u]
      /\ sock' \in [Socket -> Sock]
  BY <1>1, <1>6, Entries
<1>8. /\ \A b \in Outbound : conn'[b] = IF b = c THEN d ELSE conn[b]
      /\ conn' \in [Outbound -> Conn]
  <2>1. conn' = [conn EXCEPT ![c] = d]
    BY <1>1 DEF d
  <2> QED
    BY <2>1, <1>2, <1>5, Entries
<1>9. \A u \in Socket : u # s /\ Owner(u) = c => ~Alive(sock[u]) /\ u[3] # s[3]
  BY <1>2, <1>3, Known, Refs DEF Right, Fits
<1>10. Coherent(sock', conn', plan.timeouts)
  <2>1. \A u \in Socket : Right(sock'[u], conn'[Owner(u)], u, plan.timeouts)
    <3> TAKE u \in Socket
    <3>1. Right(sock[u], conn[Owner(u)], u, plan.timeouts) /\ Owner(u) \in Outbound
          /\ u[3] # 0 /\ sock[u] \in Sock
      BY Known, Refs
    <3>2. CASE u = s
      BY <1>2, <1>6, <1>7, <1>8, <3>2
    <3>3. CASE Owner(u) # c
      BY <1>7, <1>8, <3>1, <3>3
    <3>4. CASE u # s /\ Owner(u) = c
      <4>1. sock'[u] = sock[u] /\ conn'[Owner(u)] = d /\ ~Alive(sock[u])
        BY <1>7, <1>8, <1>9, <3>1, <3>4
      <4>2. Fits(sock[u], d, u)
        BY <1>3, <1>5, <3>1, <3>4, <4>1 DEF Right, Fits, Alive
      <4>3. Waits(sock[u], d, u, plan.timeouts)
        BY <1>5, <3>1, <3>4, <4>1 DEF Right, Waits
      <4> QED
        BY <4>1, <4>2, <4>3 DEF Right
    <3> QED
      BY <3>2, <3>3, <3>4
  <2> QED
    BY <1>7, <1>8, <2>1 DEF Coherent
<1>11. /\ peers' \in [Node -> [Key -> Outbound \cup Socket \cup {NoConn}]]
       /\ \A m \in Node, j \in Key :
            \/ peers'[m][j] = peers[m][j]
            \/ peers[m][j] = c /\ peers'[m][j] = NoConn /\ conn[c].status = "destroyed"
  <2>1. CASE conn[c].status = "destroyed"
    <3>1. \A m \in Node : peers'[m] = IF m = s[1]
             THEN [k \in Key |-> IF peers[m][k] = c THEN NoConn ELSE peers[m][k]] ELSE peers[m]
      BY <1>1, <2>1, Entries DEF Removed
    <3>2. peers' \in [Node -> [Key -> Outbound \cup Socket \cup {NoConn}]]
      BY <1>1, <2>1, Entries DEF Removed
    <3> QED
      BY <2>1, <3>1, <3>2, Entries
  <2>2. CASE conn[c].status # "destroyed"
    BY <1>1, <2>2, Entries
  <2> QED
    BY <2>1, <2>2
<1>12. c # NoConn /\ c \notin Socket /\ NoConn \notin Outbound /\ NoConn \notin Socket
       /\ \A u \in Socket : Owner(u) \in Outbound /\ u \notin Outbound
  BY <1>2, Refs
<1> HIDE DEF c
<1>13. \A b \in Outbound : /\ conn'[b].listeners = conn[b].listeners
                           /\ conn'[b].status = conn[b].status /\ conn'[b].key = conn[b].key
                           /\ conn[b].status = "unborn" => conn'[b].cur = 0
  BY <1>5, <1>8 DEF LinkInv, Unborn
<1>14. \A m \in Node, j \in Key :
           /\ peers'[m][j] \in Outbound =>
                LET b == peers'[m][j]
                IN  b[1] = m /\ conn'[b].key = j /\ conn'[b].status # "unborn"
           /\ peers'[m][j] \in Socket =>
                LET u == peers'[m][j]
                IN  Acceptor(u) = m /\ j = "id" /\ sock'[u].r = "accepted"
  <2> TAKE m \in Node, j \in Key
  <2>1. peers'[m][j] \in Outbound \cup Socket => peers'[m][j] = peers[m][j]
    BY <1>11, <1>12
  <2>2. peers[m][j] \in Socket => sock'[peers[m][j]].r = "accepted"
    BY <1>6, <1>7, Entries
  <2> QED
    BY <1>13, <2>1, <2>2, Entries
<1>15. \A b \in Outbound :
           /\ conn'[b].status = "live" /\ conn[b].listeners > 0
           /\ b[1] \notin plan.aliased \cup plan.anchoring
           => peers'[b[1]]["id"] = b
  <2> TAKE b \in Outbound
  <2>1. b[1] \in Node /\ "id" \in Key
    BY Refs, Entries
  <2>2. \/ peers'[b[1]]["id"] = peers[b[1]]["id"]
        \/ peers[b[1]]["id"] = c /\ conn[c].status = "destroyed"
    BY <1>11, <2>1
  <2> QED
    BY <1>13, <2>2 DEF LinkInv, Shown
<1>16. \A u \in Socket : /\ HeldIn(sock'[u]) => peers'[Acceptor(u)]["id"] = u
                         /\ HeldOut(sock'[u]) => peers'[u[1]]["id"] = Owner(u)
  <2> TAKE u \in Socket
  <2>1. HeldIn(sock'[u]) => HeldIn(sock[u])
    BY <1>6, <1>7
  <2>2. HeldOut(sock'[u]) => HeldOut(sock[u]) /\ Owner(u) # c
    BY <1>6, <1>7, <1>9 DEF HeldOut, Alive, c
  <2> QED
    BY <1>11, <1>12, <2>1, <2>2, Entries
<1> QED
  BY <1>1, <1>10, <1>11, <1>13, <1>14, <1>15, <1>16, Assembled, SameBudget, Spent

\* Two sockets of one PeerConnection are not up at once.
LEMMA OneUp ==
  ASSUME LinkInv, NEW s \in Socket, NEW u \in Socket, Owner(s) = Owner(u),
         Alive(sock[s]), Alive(sock[u])
  PROVE  u = s
BY Known, Refs DEF Right, Fits

\* A socket with a handshake is up.
LEMMA WaitsUp ==
  ASSUME LinkInv, NEW s \in Socket, sock[s].handlers > 0
  PROVE  Alive(sock[s]) /\ conn[Owner(s)].listeners > 0 /\ conn[Owner(s)].status # "unborn"
<1> DEFINE e == sock[s]
           c == conn[Owner(s)]
<1>1. Right(e, c, s, plan.timeouts) /\ e.handlers \in 0 .. 2 /\ c.listeners \in 0 .. 2
  BY Known, SockFields DEF Conn
<1>2. e.d \in {"open", "closing"}
  BY <1>1 DEF Right, Waits
<1>3. e.handlers <= c.listeners
  BY <1>1 DEF Right, Waits
<1>4. c.status # "unborn"
  BY <1>1, <1>2 DEF Right, Fits
<1> HIDE DEF c
<1> QED
  BY <1>1, <1>2, <1>3, <1>4 DEF Alive, c

\* The dialling end destroys a connection whose handshake takes too long.
LEMMA DialTimeoutStep == ASSUME LinkInv, NEW s \in Socket, DialTimeout(s) PROVE LinkInv'
<1> DEFINE gone == IF Connected(Owner(s)) THEN Owner(s) ELSE NoConn
           SS == DestroySock(sock, gone)
<1>1. /\ sock' = [SS EXCEPT ![s].handlers = 0] /\ conn' = DestroyConn(conn, gone)
      /\ UNCHANGED <<peers, trusts>> /\ budget.timeouts > 0
      /\ budget' = [budget EXCEPT !.timeouts = @ - 1]
  BY DEF DialTimeout
<1>2. plan.timeouts # 0 /\ Budgeted /\ trusts' \in [Node -> BOOLEAN]
  BY <1>1, Spent DEF Budgeted
<1>3. gone \in Outbound \cup Socket \cup {NoConn} /\ gone \notin Socket
      /\ (gone \in Outbound => conn[gone].status # "unborn")
  BY Refs, ConnectedSock
<1> HIDE DEF gone
<1>4. Coherent(sock, conn, plan.timeouts) /\ conn \in [Outbound -> Conn]
  BY Entries DEF LinkInv
<1>5. /\ Coherent(SS, conn', plan.timeouts)
      /\ \A b \in Outbound :
           /\ conn'[b].cur = conn[b].cur /\ conn'[b].key = conn[b].key
           /\ conn'[b].listeners = conn[b].listeners
           /\ conn'[b].status = IF b = gone THEN "destroyed" ELSE conn[b].status
      /\ \A u \in Socket : /\ SS[u].r = sock[u].r
                           /\ HeldIn(SS[u]) => HeldIn(sock[u])
                           /\ HeldOut(SS[u]) => HeldOut(sock[u])
  BY <1>1, <1>2, <1>3, <1>4, Destroys
<1> HIDE DEF SS
<1> DEFINE f == [SS[s] EXCEPT !.handlers = 0]
<1>6. /\ SS[s] \in Sock /\ Right(SS[s], conn'[Owner(s)], s, plan.timeouts)
      /\ SS \in [Socket -> Sock] /\ conn'[Owner(s)] \in Conn
  BY <1>5, Refs DEF Coherent
<1>7. /\ f \in Sock /\ f.d = SS[s].d /\ f.r = SS[s].r /\ f.ropen = SS[s].ropen /\ f.handlers = 0
      /\ f.toR = SS[s].toR /\ f.toD = SS[s].toD
  <2> DEFINE h == SS[s]
  <2>1. h \in Sock
    BY <1>6
  <2> HIDE DEF h
  <2>2. [h EXCEPT !.handlers = 0] \in Sock
    BY <2>1 DEF Sock
  <2>3. LET g == [h EXCEPT !.handlers = 0]
        IN  /\ g.d = h.d /\ g.r = h.r /\ g.ropen = h.ropen /\ g.handlers = 0
            /\ g.toR = h.toR /\ g.toD = h.toD
    BY <2>1 DEF Sock
  <2> QED
    BY <2>2, <2>3 DEF h
<1> HIDE DEF f
<1>8. Right(f, conn'[Owner(s)], s, plan.timeouts)
  <2>1. Fits(f, conn'[Owner(s)], s)
    <3>1. [NoSock EXCEPT !.handlers = 0] = NoSock
      BY DEF NoSock
    <3>2. SS[s] = NoSock => f = NoSock
      BY <3>1 DEF f
    <3> QED
      BY <1>6, <1>7, <3>2 DEF Right, Fits, Alive
  <2>2. conn'[Owner(s)].listeners \in 0 .. 2
    BY <1>6 DEF Conn
  <2>3. Waits(f, conn'[Owner(s)], s, plan.timeouts)
    BY <1>2, <1>7, <2>2 DEF Waits
  <2> QED
    BY <2>1, <2>3 DEF Right
<1>9. /\ sock' = [SS EXCEPT ![s] = f]
      /\ \A u \in Socket : sock'[u] = IF u = s THEN f ELSE SS[u]
  BY <1>1, <1>6 DEF f
<1>10. Coherent(sock', conn', plan.timeouts)
  BY <1>5, <1>6, <1>7, <1>8, <1>9 DEF Coherent
<1>11. \A u \in Socket : /\ HeldIn(sock'[u]) => HeldIn(sock[u])
                         /\ HeldOut(sock'[u]) => HeldOut(sock[u])
                         /\ sock'[u].r = sock[u].r
  BY <1>5, <1>7, <1>9 DEF HeldIn, HeldOut
<1>12. \A b \in Outbound :
          /\ conn'[b].listeners = conn[b].listeners /\ conn'[b].key = conn[b].key
          /\ conn'[b].status = "live" => conn[b].status = "live"
          /\ conn'[b].status = "unborn" => conn[b].status = "unborn" /\ conn'[b].cur = 0
          /\ conn[b].status # "unborn" => conn'[b].status # "unborn"
  BY <1>5 DEF LinkInv, Unborn
<1>13. \A m \in Node, j \in Key :
           /\ peers'[m][j] \in Outbound =>
                LET b == peers'[m][j]
                IN  b[1] = m /\ conn'[b].key = j /\ conn'[b].status # "unborn"
           /\ peers'[m][j] \in Socket =>
                LET u == peers'[m][j]
                IN  Acceptor(u) = m /\ j = "id" /\ sock'[u].r = "accepted"
  BY <1>1, <1>11, <1>12, Entries
<1>14. \A b \in Outbound :
           /\ conn'[b].status = "live" /\ conn[b].listeners > 0
           /\ b[1] \notin plan.aliased \cup plan.anchoring
           => peers'[b[1]]["id"] = b
  BY <1>1, <1>12 DEF LinkInv, Shown
<1>15. \A u \in Socket : /\ HeldIn(sock'[u]) => peers'[Acceptor(u)]["id"] = u
                         /\ HeldOut(sock'[u]) => peers'[u[1]]["id"] = Owner(u)
  BY <1>1, <1>11, Entries
<1>16. peers' \in [Node -> [Key -> Outbound \cup Socket \cup {NoConn}]]
  BY <1>1, Entries
<1> QED
  BY <1>2, <1>10, <1>12, <1>13, <1>14, <1>15, <1>16, Assembled

\* verify is accepted: the socket takes the entry of what the map had, which is
\* destroyed.
LEMMA VerifyStep == ASSUME LinkInv, NEW s \in Socket, OnVerify(s) PROVE LinkInv'
<1> DEFINE n == Acceptor(s)
           existing == peers[n]["id"]
           e == Took(sock[s])
           f == Staged(e, "accepted")
           base == [sock EXCEPT ![s] = f]
<1>1. /\ sock[s].r = "verify" /\ sock[s].toR # <<>> /\ Head(sock[s].toR) = "verify"
      /\ budget' = budget
  BY DEF OnVerify, AtR
<1>2. /\ e \in Sock /\ Right(e, conn[Owner(s)], s, plan.timeouts)
      /\ e.d = sock[s].d /\ e.r = sock[s].r /\ e.ropen = sock[s].ropen
      /\ e.handlers = sock[s].handlers
      /\ Has(e.toR, "verify") => Has(sock[s].toR, "verify")
      /\ e.d \notin {"none", "connecting"} /\ Has(sock[s].toR, "verify")
  BY <1>1, Known, RightTook
<1>3. Taken(s) = [sock EXCEPT ![s] = e]
  BY DEF Taken, Took
<1> HIDE DEF e
<1>4. CASE existing # NoConn /\ KeepsExisting(n, existing)
  <2>1. sock' = [sock EXCEPT ![s] = Turned(e)] /\ UNCHANGED <<peers, conn, trusts, budget>>
    <3>1. sock' = [[sock EXCEPT ![s] = e] EXCEPT ![s] = [CloseR(@) EXCEPT !.r = "done"]]
          /\ UNCHANGED <<peers, conn, trusts, budget>>
      BY <1>3, <1>4 DEF OnVerify
    <3> QED
      <4>1. sock \in [Socket -> Sock]
        BY Entries
      <4> QED
        BY <3>1, <4>1 DEF Turned
  <2>2. /\ Turned(e) \in Sock /\ Right(Turned(e), conn[Owner(s)], s, plan.timeouts)
        /\ ~HeldIn(Turned(e)) /\ (HeldOut(Turned(e)) => HeldOut(e))
    BY <1>2, Known, RightTurned
  <2>3. HeldOut(e) => HeldOut(sock[s])
    BY <1>2 DEF HeldOut
  <2> QED
    BY <1>1, <2>1, <2>2, <2>3, OneSocketFree
<1>5. CASE ~(existing # NoConn /\ KeepsExisting(n, existing))
  <2>1. /\ sock' = DestroySock(base, existing) /\ conn' = DestroyConn(conn, existing)
        /\ peers' = [peers EXCEPT ![n]["id"] = s]
        /\ trusts' = [trusts EXCEPT ![n] = @ \/ n \in plan.seeding]
    <3>1. [Taken(s) EXCEPT ![s].r = "accepted"] = base
      <4>1. sock \in [Socket -> Sock]
        BY Entries
      <4> QED
        BY <1>3, <4>1 DEF Staged
    <3> QED
      BY <1>5, <3>1 DEF OnVerify
  <2>2. /\ f \in Sock /\ Right(f, conn[Owner(s)], s, plan.timeouts)
        /\ f.d = e.d /\ f.r = "accepted" /\ f.ropen = e.ropen /\ f.handlers = e.handlers
    BY <1>2, Known, RightStaged
  <2> HIDE DEF f
  <2>3. /\ \A u \in Socket : base[u] = IF u = s THEN f ELSE sock[u]
        /\ base \in [Socket -> Sock]
    BY <2>2, Entries
  <2>4. n \in Node /\ s[1] \in Node /\ n # s[1]
        /\ existing \in Outbound \cup Socket \cup {NoConn}
        /\ (existing \in Outbound => existing[1] = n /\ conn[existing].status # "unborn")
        /\ (existing \in Socket => sock[existing].r = "accepted")
    BY Entries
  <2> HIDE DEF base
  <2>5. Coherent(base, conn, plan.timeouts)
    BY <2>2, <2>3, Known, Entries DEF Coherent
  <2>6. ASSUME NEW u \in Socket, Owner(u) = existing, plan.timeouts = 0, base[u].handlers > 0
        PROVE  u[1] # Lower
    <3>1. sock[u].handlers > 0 /\ u[1] = n /\ existing # NoConn
      BY <1>2, <2>2, <2>3, <2>4, <2>6, Refs
    <3>2. ~KeepsExisting(n, existing)
      BY <1>5, <3>1
    <3>3. CASE sock[u].d = "open"
      BY <2>6, <3>1, <3>2, <3>3, HeldConnected DEF KeepsExisting
    <3>4. CASE sock[u].d # "open"
      <4>1. sock[u].d = "closing" /\ conn[Owner(u)].status = "destroyed"
        BY <3>1, <3>4, Known, SockFields, WaitsUp DEF Right, Waits, Conn
      <4> QED
        BY <2>6, <3>1, <4>1, Known DEF Right, Waits
    <3> QED
      BY <3>3, <3>4
  <2>7. existing \in Socket => base[existing].r \notin {"hello", "verify"}
    BY <2>2, <2>3, <2>4
  <2>8. /\ Coherent(sock', conn', plan.timeouts)
        /\ \A b \in Outbound :
             /\ conn'[b].cur = conn[b].cur /\ conn'[b].key = conn[b].key
             /\ conn'[b].listeners = conn[b].listeners
             /\ conn'[b].status = IF b = existing THEN "destroyed" ELSE conn[b].status
        /\ \A u \in Socket :
             /\ sock'[u].r = base[u].r
             /\ HeldIn(sock'[u]) => HeldIn(base[u]) /\ u # existing
             /\ HeldOut(sock'[u]) => HeldOut(base[u]) /\ Owner(u) # existing
    BY <2>1, <2>4, <2>5, <2>6, <2>7, Entries, Destroys
  <2>9. /\ peers' \in [Node -> [Key -> Outbound \cup Socket \cup {NoConn}]]
        /\ \A m \in Node, j \in Key :
             peers'[m][j] = IF m = n /\ j = "id" THEN s ELSE peers[m][j]
    BY <2>1, <2>4, Entries
  <2>10. trusts' \in [Node -> BOOLEAN]
    BY <2>1, Spent
  <2>11. \A b \in Outbound :
          /\ conn'[b].listeners = conn[b].listeners /\ conn'[b].key = conn[b].key
          /\ conn'[b].status = "live" => conn[b].status = "live" /\ b # existing
          /\ conn'[b].status = "unborn" => conn[b].status = "unborn" /\ conn'[b].cur = 0
          /\ conn[b].status # "unborn" => conn'[b].status # "unborn"
    BY <2>4, <2>8 DEF LinkInv, Unborn
  <2>12. \A u \in Socket : sock[u].r = "accepted" => sock'[u].r = "accepted"
    BY <2>2, <2>3, <2>8
  <2>13. sock'[s].r = "accepted" /\ s \notin Outbound
    BY <2>2, <2>3, <2>8, Refs
  <2> HIDE DEF n, existing
  <2>14. \A m \in Node, j \in Key :
           /\ peers'[m][j] \in Outbound =>
                LET b == peers'[m][j]
                IN  b[1] = m /\ conn'[b].key = j /\ conn'[b].status # "unborn"
           /\ peers'[m][j] \in Socket =>
                LET u == peers'[m][j]
                IN  Acceptor(u) = m /\ j = "id" /\ sock'[u].r = "accepted"
    <3> TAKE m \in Node, j \in Key
    <3>1. CASE m = n /\ j = "id"
      BY <2>9, <2>13, <3>1 DEF n
    <3>2. CASE ~(m = n /\ j = "id")
      <4>1. peers'[m][j] = peers[m][j]
        BY <2>9, <3>2
      <4>2. peers[m][j] \in Outbound =>
              /\ peers[m][j][1] = m /\ conn[peers[m][j]].key = j
              /\ conn[peers[m][j]].status # "unborn"
        BY Entries
      <4>3. peers[m][j] \in Socket =>
              Acceptor(peers[m][j]) = m /\ j = "id" /\ sock[peers[m][j]].r = "accepted"
        BY Entries
      <4> QED
        BY <2>11, <2>12, <4>1, <4>2, <4>3
    <3> QED
      BY <3>1, <3>2
  <2>15. \A b \in Outbound :
           /\ conn'[b].status = "live" /\ conn[b].listeners > 0
           /\ b[1] \notin plan.aliased \cup plan.anchoring
           => peers'[b[1]]["id"] = b
    <3> SUFFICES ASSUME NEW b \in Outbound, conn'[b].status = "live", conn[b].listeners > 0,
                        b[1] \notin plan.aliased \cup plan.anchoring
                 PROVE  peers'[b[1]]["id"] = b
      OBVIOUS
    <3>1. conn[b].status = "live" /\ b # existing /\ b[1] \in Node
      BY <2>11, Refs
    <3>2. peers[b[1]]["id"] = b
      BY <3>1 DEF LinkInv, Shown
    <3> QED
      <4>1. b[1] # n
        BY <3>1, <3>2 DEF existing
      <4>2. "id" \in Key
        BY DEF Key
      <4> QED
        BY <2>9, <3>1, <3>2, <4>1, <4>2
  <2>16. \A u \in Socket : /\ HeldIn(sock'[u]) => peers'[Acceptor(u)]["id"] = u
                           /\ HeldOut(sock'[u]) => peers'[u[1]]["id"] = Owner(u)
    <3> TAKE u \in Socket
    <3>1. CASE u = s
      <4>1. HeldOut(sock'[s]) => HeldOut(sock[s])
        BY <1>2, <2>2, <2>3, <2>8 DEF HeldOut
      <4>2. HeldOut(sock[s]) => peers[s[1]]["id"] = Owner(s)
        BY Entries
      <4> QED
        BY <2>4, <2>9, <3>1, <4>1, <4>2, Entries DEF n
    <3>2. CASE u # s
      <4>1. base[u] = sock[u]
        BY <2>3, <3>2
      <4>2. HeldIn(sock'[u]) => peers[Acceptor(u)]["id"] = u /\ u # existing
        BY <2>8, <4>1, Entries
      <4>3. HeldOut(sock'[u]) => peers[u[1]]["id"] = Owner(u) /\ Owner(u) # existing
        BY <2>8, <4>1, Entries
      <4> QED
        <5>1. "id" \in Key /\ Acceptor(u) \in Node /\ u[1] \in Node
          BY Entries
        <5>2. HeldIn(sock'[u]) => Acceptor(u) # n
          BY <4>2 DEF existing
        <5>3. HeldOut(sock'[u]) => u[1] # n
          BY <4>3 DEF existing
        <5> QED
          BY <2>9, <4>2, <4>3, <5>1, <5>2, <5>3
    <3> QED
      BY <3>1, <3>2
  <2> QED
    BY <1>1, <2>8, <2>9, <2>10, <2>11, <2>14, <2>15, <2>16, Assembled, SameBudget
<1> QED
  BY <1>4, <1>5

------------------------------------------------------------------------------
(* PeerLink.  The challenge_response: it may destroy, rename and replace at once.*)

\* The dialling end has taken the challenge_response from the socket.
Answered(e) == [e EXCEPT !.toD = Tail(@), !.handlers = 0]

\* That leaves a socket as it should be.
LEMMA RightAnswered ==
  ASSUME NEW s \in Socket, NEW e \in Sock, NEW c \in Conn, NEW timers, Right(e, c, s, timers),
         e.toD # <<>>, Head(e.toD) = "cr"
  PROVE  /\ Answered(e) \in Sock /\ Right(Answered(e), c, s, timers)
         /\ Answered(e).d = e.d /\ Answered(e).r = e.r /\ Answered(e).ropen = e.ropen
         /\ Answered(e).handlers = 0 /\ Answered(e).toR = e.toR
         /\ e.d \notin {"none", "connecting"}
<1>1. /\ Tail(e.toD) \in Seq(ToD)
      /\ Has(e.toD, "fin") => Has(Tail(e.toD), "fin")
  <2>1. e.toD \in Seq(ToD)
    BY SockFields
  <2>2. /\ Tail(e.toD) \in Seq(ToD)
        /\ Has(e.toD, "fin") <=> Has(Tail(e.toD), "fin") \/ "fin" = Head(e.toD)
    BY <2>1, HasTail
  <2> QED
    BY <2>2
<1> DEFINE g == [e EXCEPT !.handlers = 0]
<1>2. g \in Sock
  BY DEF Sock
<1>3. [g EXCEPT !.toD = Tail(e.toD)] \in Sock
  <2> HIDE DEF g
  <2> QED
    BY <1>1, <1>2 DEF Sock, ToD
<1>4. Answered(e) = [g EXCEPT !.toD = Tail(e.toD)]
  BY DEF Answered, Sock
<1>5. /\ Answered(e).d = e.d /\ Answered(e).r = e.r /\ Answered(e).ropen = e.ropen
      /\ Answered(e).handlers = 0 /\ Answered(e).toR = e.toR
      /\ Answered(e).toD = Tail(e.toD)
  BY DEF Answered, Sock
<1>6. e.d \notin {"none", "connecting"}
  BY DEF Right, Fits, NoSock
<1>7. Fits(Answered(e), c, s)
  BY <1>1, <1>5, <1>6 DEF Right, Fits, Alive
<1>8. e.handlers \in 0 .. 2 /\ c.listeners \in 0 .. 2
  BY SockFields DEF Conn
<1>9. Waits(Answered(e), c, s, timers)
  BY <1>5, <1>8 DEF Right, Waits
<1> QED
  BY <1>3, <1>4, <1>5, <1>6, <1>7, <1>9 DEF Right

\* A live connection answers with verify.
Answering(e) == [e EXCEPT !.toR = Append(@, "verify")]

\* So does verify, unless the accepting end has closed while it awaited it.
LEMMA RightAnswering ==
  ASSUME NEW s \in Socket, NEW e \in Sock, NEW c \in Conn, NEW timers, Right(e, c, s, timers),
         e.d \notin {"none", "connecting"}, e.handlers = 0,
         timers = 0 => e.ropen \/ e.r \notin {"hello", "verify"}
  PROVE  /\ Answering(e) \in Sock /\ Right(Answering(e), c, s, timers)
         /\ Answering(e).d = e.d /\ Answering(e).r = e.r /\ Answering(e).ropen = e.ropen
         /\ Answering(e).handlers = 0
<1>1. Append(e.toR, "verify") \in Seq(ToR)
  BY SockFields DEF ToR
<1>2. /\ Answering(e) \in Sock
      /\ Answering(e).d = e.d /\ Answering(e).r = e.r /\ Answering(e).ropen = e.ropen
      /\ Answering(e).handlers = 0 /\ Answering(e).toD = e.toD
  BY <1>1 DEF Answering, Sock, ToR
<1>3. Fits(Answering(e), c, s)
  BY <1>2 DEF Right, Fits, Alive
<1>4. Waits(Answering(e), c, s, timers)
  BY <1>2 DEF Right, Waits
<1> QED
  BY <1>2, <1>3, <1>4 DEF Right

\* A connection takes the peer's key.
Named(c) == [conn EXCEPT ![c].key = "id"]

\* Nothing else of any connection changes.
LEMMA Renamed ==
  ASSUME LinkInv, NEW c \in Outbound
  PROVE  /\ Named(c) \in [Outbound -> Conn]
         /\ \A b \in Outbound :
              /\ Named(c)[b].cur = conn[b].cur /\ Named(c)[b].status = conn[b].status
              /\ Named(c)[b].listeners = conn[b].listeners
              /\ Named(c)[b].key = IF b = c THEN "id" ELSE conn[b].key
<1> DEFINE named == Named(c)
<1>1. conn \in [Outbound -> Conn]
  BY Entries
<1>2. \A b \in Outbound :
        /\ named[b].cur = conn[b].cur /\ named[b].status = conn[b].status
        /\ named[b].listeners = conn[b].listeners
        /\ named[b].key = IF b = c THEN "id" ELSE conn[b].key
  BY <1>1 DEF Conn, Named
<1>3. named \in [Outbound -> Conn]
  BY <1>1 DEF Conn, Key, Named
<1> QED
  BY <1>2, <1>3

\* The key of a PeerConnection is no matter of its sockets.
LEMMA KeyFree ==
  ASSUME NEW ss, NEW timers, Coherent(ss, conn, timers), NEW named \in [Outbound -> Conn],
         \A b \in Outbound :
           /\ named[b].cur = conn[b].cur /\ named[b].status = conn[b].status
           /\ named[b].listeners = conn[b].listeners
  PROVE  Coherent(ss, named, timers)
<1>1. \A s \in Socket : Right(ss[s], named[Owner(s)], s, timers)
  <2> TAKE s \in Socket
  <2>1. Right(ss[s], conn[Owner(s)], s, timers) /\ Owner(s) \in Outbound
    BY Refs DEF Coherent
  <2> QED
    BY <2>1 DEF Right, Fits, Waits
<1> QED
  BY <1>1 DEF Coherent

\* What the map holds after a connection has left its placeholder.
LEMMA Rekeys ==
  ASSUME LinkInv, NEW c \in Outbound
  PROVE  LET n == c[1]
             q == Rekeyed(n, c)
         IN  /\ q \in [Node -> [Key -> Outbound \cup Socket \cup {NoConn}]]
             /\ q[n]["id"] = peers[n]["id"]
             /\ \A m \in Node : q[m]["id"] = peers[m]["id"]
             /\ \A m \in Node, j \in Key :
                  /\ q[m][j] = peers[m][j] \/ q[m][j] = NoConn
                  /\ j # "id" => q[m][j] # c
<1> DEFINE n == c[1]
           q == Rekeyed(n, c)
<1>1. n \in Node /\ "id" \in Key /\ "alias" \in Key /\ Key = {"id", "alias"}
      /\ peers \in [Node -> [Key -> Outbound \cup Socket \cup {NoConn}]]
  BY Refs, Entries DEF Key
<1>2. /\ q \in [Node -> [Key -> Outbound \cup Socket \cup {NoConn}]]
      /\ \A m \in Node, j \in Key :
           q[m][j] = IF m = n /\ j = "alias" /\ conn[c].key = "alias" THEN NoConn ELSE peers[m][j]
  BY <1>1 DEF Rekeyed
<1>3. c # NoConn /\ \A m \in Node, j \in Key : peers[m][j] = c => m = n /\ conn[c].key = j
  BY Refs, Entries
<1> HIDE DEF q, n
<1> QED
  BY <1>1, <1>2, <1>3 DEF q, n

\* The sockets, once s has the answer.
TakenCr(s) == [sock EXCEPT ![s] = Answered(sock[s])]

\* What every case of OnChallengeResponse starts from.
LEMMA Answer ==
  ASSUME LinkInv, NEW s \in Socket, AtD(s, "cr")
  PROVE  LET f     == Answered(sock[s])
             taken == TakenCr(s)
         IN  /\ f \in Sock /\ Right(f, conn[Owner(s)], s, plan.timeouts)
             /\ f.d = sock[s].d /\ f.r = sock[s].r /\ f.ropen = sock[s].ropen
             /\ f.handlers = 0 /\ f.toR = sock[s].toR
             /\ Alive(sock[s]) /\ f.d \notin {"none", "connecting"}
             /\ conn[Owner(s)].status # "unborn"
             /\ Coherent(taken, conn, plan.timeouts)
             /\ \A u \in Socket : taken[u] = IF u = s THEN f ELSE sock[u]
<1> DEFINE f     == Answered(sock[s])
           taken == TakenCr(s)
<1>1. sock[s].toD # <<>> /\ Head(sock[s].toD) = "cr" /\ sock[s].d # "closed"
  BY DEF AtD
<1>2. /\ f \in Sock /\ Right(f, conn[Owner(s)], s, plan.timeouts)
      /\ f.d = sock[s].d /\ f.r = sock[s].r /\ f.ropen = sock[s].ropen
      /\ f.handlers = 0 /\ f.toR = sock[s].toR /\ f.d \notin {"none", "connecting"}
  BY <1>1, Known, RightAnswered
<1> HIDE DEF f
<1>3. Alive(sock[s]) /\ conn[Owner(s)].status # "unborn"
  BY <1>1, <1>2, Known, SockFields DEF Alive, Right, Fits
<1>4. /\ taken \in [Socket -> Sock]
      /\ \A u \in Socket : taken[u] = IF u = s THEN f ELSE sock[u]
  BY <1>2, Entries DEF TakenCr, f
<1>5. Coherent(taken, conn, plan.timeouts)
  BY <1>2, <1>4, Known, Entries DEF Coherent
<1> QED
  BY <1>2, <1>3, <1>4, <1>5 DEF f

\* Destroys, of a connection no handshake waits on.
LEMMA Idle ==
  ASSUME NEW ss, NEW cs, NEW timers, Coherent(ss, cs, timers), conn \in [Outbound -> Conn],
         \A c \in Outbound : cs[c].cur = conn[c].cur,
         NEW ref \in Outbound \cup Socket \cup {NoConn},
         ref \in Socket => ss[ref].r \notin {"hello", "verify"},
         \A s \in Socket : Owner(s) = ref => ss[s].handlers = 0,
         NEW tt, tt = DestroySock(ss, ref), NEW dd, dd = DestroyConn(cs, ref)
  PROVE  /\ Coherent(tt, dd, timers)
         /\ \A c \in Outbound :
              /\ dd[c].cur = cs[c].cur /\ dd[c].key = cs[c].key
              /\ dd[c].listeners = cs[c].listeners
              /\ dd[c].status = IF c = ref THEN "destroyed" ELSE cs[c].status
         /\ \A s \in Socket :
              /\ tt[s].r = ss[s].r /\ tt[s].handlers = ss[s].handlers
              /\ HeldIn(tt[s]) => HeldIn(ss[s]) /\ s # ref
              /\ HeldOut(tt[s]) => HeldOut(ss[s]) /\ Owner(s) # ref
<1>1. \A s \in Socket : Owner(s) = ref /\ timers = 0 /\ ss[s].handlers > 0 => s[1] # Lower
  OBVIOUS
<1> QED
  BY <1>1, Destroys

\* The connection is destroyed on its challenge_response; its entry stays.
LEMMA RefusedStep ==
  ASSUME LinkInv, NEW s \in Socket, AtD(s, "cr"), Budgeted, trusts' \in [Node -> BOOLEAN],
         NEW cs, \A b \in Outbound : /\ cs[b].cur = conn[b].cur
                                     /\ cs[b].status = conn[b].status
                                     /\ cs[b].listeners = conn[b].listeners,
         Coherent(TakenCr(s), cs, plan.timeouts),
         sock' = DestroySock(TakenCr(s), Owner(s)),
         conn' = DestroyConn(cs, Owner(s)),
         peers' \in [Node -> [Key -> Outbound \cup Socket \cup {NoConn}]],
         \A m \in Node : peers'[m]["id"] = peers[m]["id"],
         \A m \in Node, j \in Key :
           /\ peers'[m][j] = peers[m][j] \/ peers'[m][j] = NoConn
           /\ peers'[m][j] \in Outbound => cs[peers'[m][j]].key = j
  PROVE  LinkInv'
<1> DEFINE c     == Owner(s)
           f     == Answered(sock[s])
           taken == TakenCr(s)
<1>1. /\ f.d = sock[s].d /\ f.r = sock[s].r /\ f.ropen = sock[s].ropen
      /\ f.handlers = 0 /\ f.toR = sock[s].toR /\ Alive(sock[s])
      /\ \A u \in Socket : taken[u] = IF u = s THEN f ELSE sock[u]
  BY Answer
<1>2. c \in Outbound /\ c \notin Socket
  BY Refs
<1>3. \A u \in Socket : Owner(u) = c => taken[u].handlers = 0
  <2> SUFFICES ASSUME NEW u \in Socket, Owner(u) = c, u # s PROVE sock[u].handlers = 0
    BY <1>1
  <2>1. ~Alive(sock[u])
    BY <1>1, OneUp
  <2>2. sock[u].handlers \in 0 .. 2
    BY Known, SockFields
  <2> QED
    BY <2>1, <2>2, WaitsUp
<1> HIDE DEF f, taken, c
<1>4. /\ Coherent(sock', conn', plan.timeouts)
      /\ \A b \in Outbound :
           /\ conn'[b].cur = conn[b].cur /\ conn'[b].key = cs[b].key
           /\ conn'[b].listeners = conn[b].listeners
           /\ conn'[b].status = IF b = c THEN "destroyed" ELSE conn[b].status
      /\ \A u \in Socket :
           /\ sock'[u].r = taken[u].r
           /\ HeldIn(sock'[u]) => HeldIn(taken[u])
           /\ HeldOut(sock'[u]) => HeldOut(taken[u])
  <2>1. /\ sock' = DestroySock(taken, c) /\ conn' = DestroyConn(cs, c)
        /\ Coherent(taken, cs, plan.timeouts) /\ conn \in [Outbound -> Conn]
    BY Entries DEF taken, f, c
  <2>2. \A u \in Socket : Owner(u) = c /\ plan.timeouts = 0 /\ taken[u].handlers > 0
                             => u[1] # Lower
    BY <1>3
  <2>3. \A b \in Outbound : cs[b].cur = conn[b].cur
    OBVIOUS
  <2>4. c \in Outbound \cup Socket \cup {NoConn}
    BY <1>2
  <2>5. c \in Socket => taken[c].r \notin {"hello", "verify"}
    BY <1>2
  <2> DEFINE tt == DestroySock(taken, c)
             dd == DestroyConn(cs, c)
  <2>6. /\ Coherent(tt, dd, plan.timeouts)
        /\ \A b \in Outbound :
             /\ dd[b].cur = cs[b].cur /\ dd[b].key = cs[b].key
             /\ dd[b].listeners = cs[b].listeners
             /\ dd[b].status = IF b = c THEN "destroyed" ELSE cs[b].status
        /\ \A u \in Socket :
             /\ tt[u].r = taken[u].r
             /\ HeldIn(tt[u]) => HeldIn(taken[u])
             /\ HeldOut(tt[u]) => HeldOut(taken[u])
    BY <2>1, <2>2, <2>3, <2>4, <2>5, Destroys
  <2> HIDE DEF tt, dd
  <2>7. sock' = tt /\ conn' = dd
    BY <2>1 DEF tt, dd
  <2> QED
    BY <2>6, <2>7
<1>5. \A u \in Socket : /\ sock'[u].r = sock[u].r
                        /\ HeldIn(sock'[u]) => HeldIn(sock[u])
                        /\ HeldOut(sock'[u]) => HeldOut(sock[u])
  <2> TAKE u \in Socket
  <2>1. /\ taken[u].d = sock[u].d /\ taken[u].r = sock[u].r /\ taken[u].ropen = sock[u].ropen
        /\ taken[u].toR = sock[u].toR
    BY <1>1
  <2>2. (HeldIn(taken[u]) => HeldIn(sock[u])) /\ (HeldOut(taken[u]) => HeldOut(sock[u]))
    BY <2>1 DEF HeldIn, HeldOut
  <2> QED
    BY <1>4, <2>1, <2>2
<1>6. \A b \in Outbound :
          /\ conn'[b].listeners = conn[b].listeners
          /\ conn'[b].status = "live" => conn[b].status = "live"
          /\ conn'[b].status = "unborn" => conn[b].status = "unborn" /\ conn'[b].cur = 0
          /\ conn[b].status # "unborn" => conn'[b].status # "unborn"
  BY <1>4 DEF LinkInv, Unborn
<1>7. \A m \in Node, j \in Key :
           /\ peers'[m][j] \in Outbound =>
                LET b == peers'[m][j]
                IN  b[1] = m /\ conn'[b].key = j /\ conn'[b].status # "unborn"
           /\ peers'[m][j] \in Socket =>
                LET u == peers'[m][j]
                IN  Acceptor(u) = m /\ j = "id" /\ sock'[u].r = "accepted"
  <2> TAKE m \in Node, j \in Key
  <2>1. peers'[m][j] \in Outbound \cup Socket => peers'[m][j] = peers[m][j]
    BY Refs
  <2>2. peers[m][j] \in Outbound => peers[m][j][1] = m /\ conn[peers[m][j]].status # "unborn"
    BY Entries
  <2>3. peers[m][j] \in Socket =>
          Acceptor(peers[m][j]) = m /\ j = "id" /\ sock[peers[m][j]].r = "accepted"
    BY Entries
  <2>4. peers'[m][j] \in Outbound =>
          /\ peers'[m][j][1] = m /\ conn'[peers'[m][j]].key = j
          /\ conn'[peers'[m][j]].status # "unborn"
    BY <1>4, <1>6, <2>1, <2>2
  <2>5. peers'[m][j] \in Socket =>
          Acceptor(peers'[m][j]) = m /\ j = "id" /\ sock'[peers'[m][j]].r = "accepted"
    BY <1>5, <2>1, <2>3
  <2> QED
    BY <2>4, <2>5
<1>8. \A b \in Outbound :
           /\ conn'[b].status = "live" /\ conn[b].listeners > 0
           /\ b[1] \notin plan.aliased \cup plan.anchoring
           => peers'[b[1]]["id"] = b
  BY <1>6, Refs DEF LinkInv, Shown
<1>9. \A u \in Socket : /\ HeldIn(sock'[u]) => peers'[Acceptor(u)]["id"] = u
                        /\ HeldOut(sock'[u]) => peers'[u[1]]["id"] = Owner(u)
  BY <1>5, Entries
<1> QED
  BY <1>4, <1>6, <1>7, <1>8, <1>9, Assembled

\* The sockets, once the dialling end of s has answered with verify, if its
\* connection lives.
Replied(s) == IF conn[Owner(s)].status = "live"
              THEN [sock EXCEPT ![s] = Answering(Answered(sock[s]))] ELSE TakenCr(s)

\* The answer leaves the sockets coherent: where no timer fires, the accepting end is
\* still open when the dialling end answers.
LEMMA Verifying ==
  ASSUME LinkInv, NEW s \in Socket, AtD(s, "cr"), sock[s].handlers > 0
  PROVE  /\ Coherent(Replied(s), conn, plan.timeouts)
         /\ \A u \in Socket : u # s => Replied(s)[u] = sock[u]
         /\ Replied(s)[s].r = sock[s].r /\ Replied(s)[s].ropen = sock[s].ropen
         /\ Replied(s)[s].handlers = 0 /\ Replied(s)[s].d = sock[s].d
<1> DEFINE verified == Replied(s)
           c == Owner(s)
           f == Answered(sock[s])
           g == verified[s]
<1>1. /\ f \in Sock /\ Right(f, conn[c], s, plan.timeouts)
      /\ f.d = sock[s].d /\ f.r = sock[s].r /\ f.ropen = sock[s].ropen
      /\ f.handlers = 0 /\ f.d \notin {"none", "connecting"}
  BY Answer
<1> HIDE DEF f
<1>2. plan.timeouts = 0 => f.ropen \/ f.r \notin {"hello", "verify"}
  BY <1>1, Known DEF Right, Waits
<1>3. /\ g \in Sock /\ Right(g, conn[c], s, plan.timeouts)
      /\ g.d = f.d /\ g.r = f.r /\ g.ropen = f.ropen /\ g.handlers = 0
      /\ verified \in [Socket -> Sock]
      /\ \A u \in Socket : u # s => verified[u] = sock[u]
  <2>1. sock \in [Socket -> Sock]
    BY Entries
  <2>2. CASE conn[c].status = "live"
    <3>1. verified = [sock EXCEPT ![s] = Answering(f)]
      BY <2>2 DEF f, Replied
    <3>2. /\ Answering(f) \in Sock /\ Right(Answering(f), conn[c], s, plan.timeouts)
          /\ Answering(f).d = f.d /\ Answering(f).r = f.r
          /\ Answering(f).ropen = f.ropen /\ Answering(f).handlers = 0
      BY <1>1, <1>2, Known, RightAnswering
    <3> QED
      BY <2>1, <3>1, <3>2
  <2>3. CASE conn[c].status # "live"
    <3>1. verified = [sock EXCEPT ![s] = f]
      BY <2>3 DEF f, Replied, TakenCr
    <3> QED
      BY <1>1, <2>1, <3>1
  <2> QED
    BY <2>2, <2>3
<1> HIDE DEF g
<1>4. Coherent(verified, conn, plan.timeouts)
  <2>1. conn \in [Outbound -> Conn]
    BY Entries
  <2>2. \A u \in Socket : Right(verified[u], conn[Owner(u)], u, plan.timeouts)
    BY <1>3, Known DEF g
  <2>3. verified \in [Socket -> Sock]
    BY <1>3
  <2> QED
    BY <2>1, <2>2, <2>3 DEF Coherent
<1> QED
  BY <1>1, <1>3, <1>4 DEF g

\* Another connection a bridge holds under the peer's key.
Rival(c) == IF peers[c[1]]["id"] = c THEN NoConn ELSE peers[c[1]]["id"]

\* What such a connection is.
LEMMA Rivals ==
  ASSUME LinkInv, NEW c \in Outbound
  PROVE  /\ Rival(c) \in Outbound \cup Socket \cup {NoConn} /\ Rival(c) # c
         /\ Rival(c) # NoConn => Rival(c) = peers[c[1]]["id"]
         /\ peers[c[1]]["id"] \in {Rival(c), c}
         /\ Rival(c) \in Outbound => Rival(c)[1] = c[1] /\ conn[Rival(c)].status # "unborn"
         /\ Rival(c) \in Socket => sock[Rival(c)].r = "accepted"
<1> DEFINE x == peers[c[1]]["id"]
<1>1. c[1] \in Node /\ c # NoConn /\ NoConn \notin Outbound /\ NoConn \notin Socket
  BY Refs
<1>2. /\ x \in Outbound \cup Socket \cup {NoConn}
      /\ x \in Outbound => x[1] = c[1] /\ conn[x].status # "unborn"
      /\ x \in Socket => sock[x].r = "accepted"
  BY <1>1, Entries
<1>3. Rival(c) = IF x = c THEN NoConn ELSE x
  BY DEF Rival
<1> HIDE DEF x
<1> QED
  BY <1>1, <1>2, <1>3 DEF x

\* The challenge_response makes the connection the peer's.
LEMMA NamedStep ==
  ASSUME LinkInv, NEW s \in Socket, Budgeted, trusts' \in [Node -> BOOLEAN],
         sock[s].handlers > 0,
         NEW existing \in Outbound \cup Socket \cup {NoConn}, existing # Owner(s),
         peers[s[1]]["id"] \in {existing, Owner(s)},
         existing \in Outbound => existing[1] = s[1] /\ conn[existing].status # "unborn",
         existing \in Socket => sock[existing].r = "accepted",
         NEW verified, Coherent(verified, conn, plan.timeouts),
         \A u \in Socket : u # s => verified[u] = sock[u],
         verified[s].r = sock[s].r, verified[s].ropen = sock[s].ropen,
         verified[s].handlers = 0,
         NEW named \in [Outbound -> Conn],
         \A b \in Outbound :
           /\ named[b].cur = conn[b].cur /\ named[b].status = conn[b].status
           /\ named[b].listeners = conn[b].listeners
           /\ named[b].key = IF b = Owner(s) THEN "id" ELSE conn[b].key,
         NEW spare \in {Owner(s), NoConn},
         sock' = DestroySock(DestroySock(verified, existing), spare),
         conn' = DestroyConn(DestroyConn(named, existing), spare),
         peers' = [Rekeyed(s[1], Owner(s)) EXCEPT ![s[1]]["id"] = Owner(s)]
  PROVE  LinkInv'
<1> DEFINE c  == Owner(s)
           n  == s[1]
           S1 == DestroySock(verified, existing)
           C1 == DestroyConn(named, existing)
<1>1. c \in Outbound /\ c \notin Socket /\ c # NoConn /\ c[1] = n /\ n \in Node
  BY Refs
<1>2. Alive(sock[s]) /\ conn[c].status # "unborn" /\ conn[c].listeners > 0
  BY WaitsUp
<1> HIDE DEF n
<1>3. /\ Coherent(verified, named, plan.timeouts)
      /\ \A b \in Outbound :
           /\ named[b].cur = conn[b].cur /\ named[b].status = conn[b].status
           /\ named[b].listeners = conn[b].listeners
           /\ named[b].key = IF b = c THEN "id" ELSE conn[b].key
  BY KeyFree
<1>4. /\ existing \in Outbound \cup Socket \cup {NoConn} /\ existing # c
      /\ peers[n]["id"] \in {existing, c}
      /\ (existing \in Outbound => existing[1] = n /\ conn[existing].status # "unborn")
  BY DEF n
<1>5. \A u \in Socket : Owner(u) = existing => verified[u].handlers = 0
  <2> SUFFICES ASSUME NEW u \in Socket, Owner(u) = existing PROVE verified[u].handlers = 0
    OBVIOUS
  <2>1. existing \in Outbound /\ existing[1] = n /\ u # s
    BY <1>4, Refs
  <2>2. conn[existing].listeners = 0
    <3>1. conn[existing].listeners \in 0 .. 2
      BY <2>1, Entries DEF Conn
    <3> QED
      BY <1>1, <1>2, <1>4, <2>1, <3>1 DEF LinkInv, Listening
  <2>3. sock[u].handlers \in 0 .. 2
    BY Known, SockFields
  <2>4. sock[u].handlers = 0
    BY <2>2, <2>3, WaitsUp
  <2> QED
    BY <2>1, <2>4
<1>6. /\ Coherent(S1, C1, plan.timeouts)
      /\ \A b \in Outbound :
           /\ C1[b].cur = named[b].cur /\ C1[b].key = named[b].key
           /\ C1[b].listeners = named[b].listeners
           /\ C1[b].status = IF b = existing THEN "destroyed" ELSE named[b].status
      /\ \A u \in Socket :
           /\ S1[u].r = verified[u].r /\ S1[u].handlers = verified[u].handlers
           /\ HeldIn(S1[u]) => HeldIn(verified[u]) /\ u # existing
           /\ HeldOut(S1[u]) => HeldOut(verified[u]) /\ Owner(u) # existing
  <2>1. existing \in Socket => verified[existing].r \notin {"hello", "verify"}
    OBVIOUS
  <2>2. conn \in [Outbound -> Conn] /\ \A b \in Outbound : named[b].cur = conn[b].cur
    BY <1>3, Entries
  <2>3. Coherent(verified, named, plan.timeouts)
        /\ existing \in Outbound \cup Socket \cup {NoConn}
    BY <1>3, <1>4
  <2>4. S1 = DestroySock(verified, existing) /\ C1 = DestroyConn(named, existing)
    OBVIOUS
  <2> HIDE DEF c, S1, C1
  <2> QED
    BY <1>5, <2>1, <2>2, <2>3, <2>4, Idle
<1>7. sock' = DestroySock(S1, spare) /\ conn' = DestroyConn(C1, spare)
  OBVIOUS
<1> HIDE DEF S1, C1
<1>8. \A u \in Socket : Owner(u) = c => S1[u].handlers = 0
  <2> SUFFICES ASSUME NEW u \in Socket, Owner(u) = c PROVE verified[u].handlers = 0
    BY <1>6
  <2>1. CASE u = s
    BY <2>1
  <2>2. CASE u # s
    <3>1. ~Alive(sock[u])
      BY <1>2, <2>2, OneUp
    <3>2. sock[u].handlers \in 0 .. 2
      BY Known, SockFields
    <3> QED
      BY <2>2, <3>1, <3>2, WaitsUp
  <2> QED
    BY <2>1, <2>2
<1>9. /\ Coherent(sock', conn', plan.timeouts)
      /\ \A b \in Outbound :
           /\ conn'[b].cur = C1[b].cur /\ conn'[b].key = C1[b].key
           /\ conn'[b].listeners = C1[b].listeners
           /\ conn'[b].status = IF b = spare THEN "destroyed" ELSE C1[b].status
      /\ \A u \in Socket :
           /\ sock'[u].r = S1[u].r
           /\ HeldIn(sock'[u]) => HeldIn(S1[u])
           /\ HeldOut(sock'[u]) => HeldOut(S1[u])
  <2>1. \A u \in Socket : Owner(u) = spare /\ plan.timeouts = 0 /\ S1[u].handlers > 0
                             => u[1] # Lower
    BY <1>8, Refs
  <2>2. spare \in Outbound \cup Socket \cup {NoConn} /\ spare \notin Socket
    BY <1>1, Refs
  <2>3. conn \in [Outbound -> Conn] /\ \A b \in Outbound : C1[b].cur = conn[b].cur
    BY <1>3, <1>6, Entries
  <2>4. spare \in Socket => S1[spare].r \notin {"hello", "verify"}
    BY <2>2
  <2> DEFINE tt == DestroySock(S1, spare)
             dd == DestroyConn(C1, spare)
  <2>5. Coherent(S1, C1, plan.timeouts)
    BY <1>6
  <2> HIDE DEF c
  <2>6. /\ Coherent(tt, dd, plan.timeouts)
        /\ \A b \in Outbound :
             /\ dd[b].cur = C1[b].cur /\ dd[b].key = C1[b].key
             /\ dd[b].listeners = C1[b].listeners
             /\ dd[b].status = IF b = spare THEN "destroyed" ELSE C1[b].status
        /\ \A u \in Socket :
             /\ tt[u].r = S1[u].r
             /\ HeldIn(tt[u]) => HeldIn(S1[u])
             /\ HeldOut(tt[u]) => HeldOut(S1[u])
    BY <2>1, <2>2, <2>3, <2>4, <2>5, Destroys
  <2> HIDE DEF tt, dd
  <2>7. sock' = tt /\ conn' = dd
    BY <1>7 DEF tt, dd
  <2> QED
    BY <2>6, <2>7
<1>10. \A b \in Outbound :
          /\ conn'[b].listeners = conn[b].listeners
          /\ conn'[b].key = IF b = c THEN "id" ELSE conn[b].key
          /\ conn'[b].status = "live" => conn[b].status = "live" /\ b # existing
          /\ conn'[b].status = "unborn" => conn[b].status = "unborn" /\ conn'[b].cur = 0
          /\ conn[b].status # "unborn" => conn'[b].status # "unborn"
  <2> TAKE b \in Outbound
  <2>1. /\ conn'[b].listeners = conn[b].listeners /\ conn'[b].cur = conn[b].cur
        /\ conn'[b].key = IF b = c THEN "id" ELSE conn[b].key
        /\ conn'[b].status = IF b = spare \/ b = existing THEN "destroyed" ELSE conn[b].status
    <3> HIDE DEF c
    <3>1. /\ conn'[b].cur = C1[b].cur /\ conn'[b].key = C1[b].key
          /\ conn'[b].listeners = C1[b].listeners
          /\ conn'[b].status = IF b = spare THEN "destroyed" ELSE C1[b].status
      BY <1>9
    <3>2. /\ C1[b].cur = named[b].cur /\ C1[b].key = named[b].key
          /\ C1[b].listeners = named[b].listeners
          /\ C1[b].status = IF b = existing THEN "destroyed" ELSE named[b].status
      BY <1>6
    <3>3. /\ named[b].cur = conn[b].cur /\ named[b].status = conn[b].status
          /\ named[b].listeners = conn[b].listeners
          /\ named[b].key = IF b = c THEN "id" ELSE conn[b].key
      BY <1>3
    <3> QED
      BY <3>1, <3>2, <3>3
  <2>2. conn[b].status = "unborn" => conn[b].cur = 0
    BY DEF LinkInv, Unborn
  <2> HIDE DEF c
  <2> QED
    BY <2>1, <2>2
<1>11. \A u \in Socket :
          /\ sock'[u].r = sock[u].r
          /\ HeldIn(sock'[u]) => HeldIn(sock[u]) /\ u # existing
          /\ u # s => (HeldOut(sock'[u]) => HeldOut(sock[u]) /\ Owner(u) # existing)
  <2> TAKE u \in Socket
  <2>1. /\ sock'[u].r = verified[u].r
        /\ HeldIn(sock'[u]) => HeldIn(verified[u]) /\ u # existing
        /\ HeldOut(sock'[u]) => HeldOut(verified[u]) /\ Owner(u) # existing
    <3>1. /\ sock'[u].r = S1[u].r
          /\ HeldIn(sock'[u]) => HeldIn(S1[u])
          /\ HeldOut(sock'[u]) => HeldOut(S1[u])
      BY <1>9
    <3>2. /\ S1[u].r = verified[u].r
          /\ HeldIn(S1[u]) => HeldIn(verified[u]) /\ u # existing
          /\ HeldOut(S1[u]) => HeldOut(verified[u]) /\ Owner(u) # existing
      BY <1>6
    <3> QED
      BY <3>1, <3>2
  <2>2. /\ verified[u].r = sock[u].r /\ verified[u].ropen = sock[u].ropen
        /\ u # s => verified[u] = sock[u]
    OBVIOUS
  <2>3. HeldIn(verified[u]) => HeldIn(sock[u])
    BY <2>2 DEF HeldIn
  <2> QED
    BY <2>1, <2>2, <2>3
<1>12. /\ peers' \in [Node -> [Key -> Outbound \cup Socket \cup {NoConn}]]
       /\ peers'[n]["id"] = c
       /\ \A m \in Node : m # n => peers'[m]["id"] = peers[m]["id"]
       /\ \A m \in Node, j \in Key :
            \/ m = n /\ j = "id"
            \/ /\ peers'[m][j] = peers[m][j] \/ peers'[m][j] = NoConn
               /\ j # "id" => peers'[m][j] # c
  <2> DEFINE q == Rekeyed(n, c)
  <2>1. /\ q \in [Node -> [Key -> Outbound \cup Socket \cup {NoConn}]]
        /\ \A m \in Node : q[m]["id"] = peers[m]["id"]
        /\ \A m \in Node, j \in Key :
             /\ q[m][j] = peers[m][j] \/ q[m][j] = NoConn
             /\ j # "id" => q[m][j] # c
    BY <1>1, Rekeys
  <2>2. peers' = [q EXCEPT ![n]["id"] = c]
    BY DEF n
  <2>3. "id" \in Key
    BY DEF Key
  <2> HIDE DEF q, c
  <2>4. peers' \in [Node -> [Key -> Outbound \cup Socket \cup {NoConn}]]
    <3>1. [q[n] EXCEPT !["id"] = c] \in [Key -> Outbound \cup Socket \cup {NoConn}]
      BY <1>1, <2>1, <2>3
    <3>2. peers' = [q EXCEPT ![n] = [q[n] EXCEPT !["id"] = c]]
      BY <2>2
    <3> QED
      BY <1>1, <2>1, <3>1, <3>2
  <2>5. \A m \in Node, j \in Key :
          peers'[m][j] = IF m = n /\ j = "id" THEN c ELSE q[m][j]
    BY <1>1, <2>1, <2>2, <2>3
  <2> QED
    BY <1>1, <2>1, <2>3, <2>4, <2>5
<1> HIDE DEF c
<1>13. \A m \in Node, j \in Key :
           /\ peers'[m][j] \in Outbound =>
                LET b == peers'[m][j]
                IN  b[1] = m /\ conn'[b].key = j /\ conn'[b].status # "unborn"
           /\ peers'[m][j] \in Socket =>
                LET u == peers'[m][j]
                IN  Acceptor(u) = m /\ j = "id" /\ sock'[u].r = "accepted"
  <2> TAKE m \in Node, j \in Key
  <2>1. CASE m = n /\ j = "id"
    <3>1. peers'[m][j] = c
      BY <1>12, <2>1
    <3>2. conn'[c].key = "id" /\ conn'[c].status # "unborn"
      BY <1>1, <1>2, <1>10 DEF c
    <3> QED
      BY <1>1, <2>1, <3>1, <3>2
  <2>2. CASE ~(m = n /\ j = "id")
    <3>1. peers'[m][j] \in Outbound \cup Socket => peers'[m][j] = peers[m][j]
      BY <1>12, <2>2, Refs
    <3>2. peers[m][j] \in Outbound =>
            /\ peers[m][j][1] = m /\ conn[peers[m][j]].key = j
            /\ conn[peers[m][j]].status # "unborn"
      BY Entries
    <3>3. peers[m][j] \in Socket =>
            Acceptor(peers[m][j]) = m /\ j = "id" /\ sock[peers[m][j]].r = "accepted"
      BY Entries
    <3>4. peers'[m][j] \in Outbound => peers'[m][j] # c \/ j = "id"
      BY <1>12, <2>2
    <3>5. peers'[m][j] \in Outbound =>
            /\ peers'[m][j][1] = m /\ conn'[peers'[m][j]].key = j
            /\ conn'[peers'[m][j]].status # "unborn"
      <4> DEFINE x == peers'[m][j]
      <4>1. x \in Outbound =>
              x[1] = m /\ conn[x].key = j /\ conn[x].status # "unborn" /\ (x # c \/ j = "id")
        BY <3>1, <3>2, <3>4
      <4> HIDE DEF x
      <4>2. x \in Outbound => conn'[x].key = j /\ conn'[x].status # "unborn"
        BY <1>10, <4>1
      <4> QED
        BY <4>1, <4>2 DEF x
    <3>6. peers'[m][j] \in Socket =>
            Acceptor(peers'[m][j]) = m /\ j = "id" /\ sock'[peers'[m][j]].r = "accepted"
      BY <1>11, <3>1, <3>3
    <3> QED
      BY <3>5, <3>6
  <2> QED
    BY <2>1, <2>2
<1>14. \A b \in Outbound :
           /\ conn'[b].status = "live" /\ conn[b].listeners > 0
           /\ b[1] \notin plan.aliased \cup plan.anchoring
           => peers'[b[1]]["id"] = b
  <2> SUFFICES ASSUME NEW b \in Outbound, conn'[b].status = "live", conn[b].listeners > 0,
                      b[1] \notin plan.aliased \cup plan.anchoring
               PROVE  peers'[b[1]]["id"] = b
    OBVIOUS
  <2>1. CASE b[1] = n
    <3>1. b = c
      BY <1>1, <1>2, <2>1 DEF LinkInv, Listening
    <3> QED
      BY <1>12, <2>1, <3>1
  <2>2. CASE b[1] # n
    <3>1. b[1] \in Node /\ conn[b].status = "live"
      BY <1>10, Refs
    <3>2. peers[b[1]]["id"] = b
      BY <3>1 DEF LinkInv, Shown
    <3> QED
      BY <1>12, <2>2, <3>1, <3>2
  <2> QED
    BY <2>1, <2>2
<1>15. \A u \in Socket : /\ HeldIn(sock'[u]) => peers'[Acceptor(u)]["id"] = u
                         /\ HeldOut(sock'[u]) => peers'[u[1]]["id"] = Owner(u)
  <2> TAKE u \in Socket
  <2>1. HeldIn(sock'[u]) => peers'[Acceptor(u)]["id"] = u
    <3>1. HeldIn(sock'[u]) => peers[Acceptor(u)]["id"] = u /\ u # existing
      BY <1>11, Entries
    <3>2. Acceptor(u) \in Node /\ u # c
      BY <1>1, Entries
    <3> QED
      BY <1>4, <1>12, <3>1, <3>2
  <2>2. HeldOut(sock'[u]) => peers'[u[1]]["id"] = Owner(u)
    <3>1. CASE u = s
      BY <1>12, <3>1 DEF c, n
    <3>2. CASE u # s
      <4>1. HeldOut(sock'[u]) => peers[u[1]]["id"] = Owner(u) /\ Owner(u) # existing
        BY <1>11, <3>2, Entries
      <4>2. u[1] \in Node
        BY Entries
      <4> QED
        BY <1>4, <1>12, <4>1, <4>2
    <3> QED
      BY <3>1, <3>2
  <2> QED
    BY <2>1, <2>2
<1> QED
  BY <1>9, <1>10, <1>12, <1>13, <1>14, <1>15, Assembled

\* A connection destroyed because a second listener finds the answer unsigned.
Spare(s) == IF Unsigned(s) THEN Owner(s) ELSE NoConn

\* The four cases of a challenge_response.
Refused(s) ==
  /\ sock' = DestroySock(TakenCr(s), Owner(s)) /\ conn' = DestroyConn(conn, Owner(s))
  /\ UNCHANGED <<peers, trusts>>

Dropped(s) ==
  /\ s[1] # Lower /\ Rival(Owner(s)) # NoConn /\ Connected(Rival(Owner(s)))
  /\ sock' = DestroySock(TakenCr(s), Owner(s))
  /\ conn' = DestroyConn(Named(Owner(s)), Owner(s))
  /\ peers' = Rekeyed(s[1], Owner(s)) /\ UNCHANGED trusts

Kept(s) ==
  /\ sock[s].handlers > 0
  /\ ~(s[1] # Lower /\ Rival(Owner(s)) # NoConn /\ Connected(Rival(Owner(s))))
  /\ peers' = [Rekeyed(s[1], Owner(s)) EXCEPT ![s[1]]["id"] = Owner(s)]
  /\ trusts' = [trusts EXCEPT ![s[1]] = @ \/ s[1] \in plan.seeding]
  /\ sock' = DestroySock(DestroySock(Replied(s), Rival(Owner(s))), Spare(s))
  /\ conn' = DestroyConn(DestroyConn(Named(Owner(s)), Rival(Owner(s))), Spare(s))

\* These are all there are, with a connection that has nobody waiting for the answer.
LEMMA AnswerCases ==
  ASSUME LinkInv, NEW s \in Socket, OnChallengeResponse(s)
  PROVE  /\ AtD(s, "cr") /\ budget' = budget
         /\ \/ sock' = TakenCr(s) /\ UNCHANGED <<peers, conn, trusts>>
            \/ Refused(s) \/ Dropped(s) \/ Kept(s)
<1> DEFINE n  == s[1]
           c  == Owner(s)
           e  == [sock[s] EXCEPT !.toD = Tail(@), !.handlers = 0]
           tk == [sock EXCEPT ![s] = e]
           vf == IF conn[c].status = "live" THEN [tk EXCEPT ![s].toR = Append(@, "verify")] ELSE tk
           rekeyed == Rekeyed(n, c)
           rival == IF rekeyed[n]["id"] = c THEN NoConn ELSE rekeyed[n]["id"]
           dropped == n # Lower /\ rival # NoConn /\ Connected(rival)
           spare == IF Unsigned(s) THEN c ELSE NoConn
<1>1. TakenCr(s) = tk
  BY DEF TakenCr, Answered
<1>2. rival = Rival(c)
  <2>1. c \in Outbound /\ c[1] = n
    BY Refs
  <2>2. rekeyed[n]["id"] = peers[n]["id"]
    BY <2>1, Rekeys
  <2> QED
    BY <2>1, <2>2 DEF Rival
<1>3. vf = Replied(s)
  <2>1. sock \in [Socket -> Sock]
    BY Entries
  <2>2. e = Answered(sock[s])
    BY DEF Answered
  <2> HIDE DEF e
  <2>3. [tk EXCEPT ![s].toR = Append(@, "verify")] = [sock EXCEPT ![s] = Answering(e)]
    BY <2>1 DEF Answering
  <2> QED
    BY <1>1, <2>2, <2>3 DEF Replied
<1>4. /\ AtD(s, "cr") /\ budget' = budget
      /\ CASE sock[s].handlers = 0 ->
                sock' = tk /\ UNCHANGED <<peers, conn, trusts>>
           [] sock[s].handlers > 0 /\ ~Verifies(s) ->
                /\ sock' = DestroySock(tk, c)
                /\ conn' = DestroyConn(conn, c)
                /\ UNCHANGED <<peers, trusts>>
           [] Verifies(s) /\ dropped ->
                /\ sock' = DestroySock(tk, c)
                /\ conn' = DestroyConn(Named(c), c)
                /\ peers' = rekeyed
                /\ UNCHANGED trusts
           [] OTHER ->
                /\ peers' = [rekeyed EXCEPT ![n]["id"] = c]
                /\ trusts' = [trusts EXCEPT ![n] = @ \/ n \in plan.seeding]
                /\ sock' = DestroySock(DestroySock(vf, rival), spare)
                /\ conn' = DestroyConn(DestroyConn(Named(c), rival), spare)
  BY DEF OnChallengeResponse, Named
<1>5. sock[s].handlers \in 0 .. 2
  BY Known, SockFields
<1>6. spare = Spare(s)
  BY DEF Spare
<1> HIDE DEF tk, vf, rival, spare
<1>7. Verifies(s) => sock[s].handlers > 0
  BY DEF Verifies
<1>8. CASE sock[s].handlers = 0
  BY <1>1, <1>4, <1>7, <1>8
<1>9. CASE sock[s].handlers > 0 /\ ~Verifies(s)
  BY <1>1, <1>4, <1>9 DEF Refused
<1>10. CASE Verifies(s) /\ dropped
  BY <1>1, <1>2, <1>4, <1>7, <1>10 DEF Dropped
<1>11. CASE Verifies(s) /\ ~dropped
  BY <1>2, <1>3, <1>4, <1>6, <1>7, <1>11 DEF Kept
<1> QED
  BY <1>5, <1>8, <1>9, <1>10, <1>11

\* challenge_response preserves the invariant: the connection is refused, gives way to
\* another, or is the one the map holds from now on.
LEMMA ChallengeStep == ASSUME LinkInv, NEW s \in Socket, OnChallengeResponse(s) PROVE LinkInv'
<1> DEFINE n == s[1]
           c == Owner(s)
           f == Answered(sock[s])
<1>1. /\ AtD(s, "cr") /\ budget' = budget
      /\ \/ sock' = TakenCr(s) /\ UNCHANGED <<peers, conn, trusts>>
         \/ Refused(s) \/ Dropped(s) \/ Kept(s)
  BY AnswerCases
<1>2. c \in Outbound /\ c[1] = n /\ n \in Node
  BY Refs
<1>3. Budgeted /\ trusts \in [Node -> BOOLEAN]
  BY <1>1, SameBudget, Spent
<1>4. /\ Named(c) \in [Outbound -> Conn]
      /\ \A b \in Outbound :
           /\ Named(c)[b].cur = conn[b].cur /\ Named(c)[b].status = conn[b].status
           /\ Named(c)[b].listeners = conn[b].listeners
           /\ Named(c)[b].key = IF b = c THEN "id" ELSE conn[b].key
  BY <1>2, Renamed
<1>5. /\ f \in Sock /\ Right(f, conn[c], s, plan.timeouts)
      /\ f.d = sock[s].d /\ f.r = sock[s].r /\ f.ropen = sock[s].ropen /\ f.toR = sock[s].toR
      /\ Coherent(TakenCr(s), conn, plan.timeouts)
  BY <1>1, Answer
<1>6. CASE sock' = TakenCr(s) /\ UNCHANGED <<peers, conn, trusts>>
  <2>1. (HeldIn(f) => HeldIn(sock[s])) /\ (HeldOut(f) => HeldOut(sock[s]))
    BY <1>5 DEF HeldIn, HeldOut
  <2>2. sock' = [sock EXCEPT ![s] = f]
    BY <1>6 DEF TakenCr
  <2> HIDE DEF f
  <2> QED
    BY <1>1, <1>5, <1>6, <2>1, <2>2, OneSocketFree
<1>7. CASE Refused(s)
  <2>1. /\ \A m \in Node : peers'[m]["id"] = peers[m]["id"]
        /\ peers' \in [Node -> [Key -> Outbound \cup Socket \cup {NoConn}]]
        /\ \A m \in Node, j \in Key :
             /\ peers'[m][j] = peers[m][j] \/ peers'[m][j] = NoConn
             /\ peers'[m][j] \in Outbound => conn[peers'[m][j]].key = j
    BY <1>7, Entries DEF Refused
  <2>2. \A b \in Outbound : /\ conn[b].cur = conn[b].cur
                            /\ conn[b].status = conn[b].status
                            /\ conn[b].listeners = conn[b].listeners
    OBVIOUS
  <2>3. sock' = DestroySock(TakenCr(s), c) /\ conn' = DestroyConn(conn, c)
        /\ trusts' \in [Node -> BOOLEAN]
    BY <1>3, <1>7 DEF Refused
  <2> QED
    BY <1>1, <1>3, <1>5, <2>1, <2>2, <2>3, RefusedStep
<1>8. CASE Dropped(s)
  <2>1. /\ \A m \in Node : peers'[m]["id"] = peers[m]["id"]
        /\ peers' \in [Node -> [Key -> Outbound \cup Socket \cup {NoConn}]]
        /\ \A m \in Node, j \in Key :
             /\ peers'[m][j] = peers[m][j] \/ peers'[m][j] = NoConn
             /\ j # "id" => peers'[m][j] # c
    <3>1. peers' = Rekeyed(c[1], c)
      BY <1>2, <1>8 DEF Dropped
    <3> HIDE DEF c
    <3> QED
      BY <1>2, <3>1, Rekeys
  <2>2. \A m \in Node, j \in Key :
             peers'[m][j] \in Outbound => Named(c)[peers'[m][j]].key = j
    <3> TAKE m \in Node, j \in Key
    <3>1. peers[m][j] \in Outbound => conn[peers[m][j]].key = j
      BY Entries
    <3> HIDE DEF c
    <3>2. peers'[m][j] = peers[m][j] \/ peers'[m][j] = NoConn
      BY <2>1
    <3>3. NoConn \notin Outbound /\ (peers'[m][j] = c => j = "id")
      BY <2>1, Refs
    <3> DEFINE x == peers'[m][j]
    <3>4. x \in Outbound => conn[x].key = j /\ (x = c => j = "id")
      BY <3>1, <3>2, <3>3
    <3> HIDE DEF x
    <3>5. x \in Outbound => Named(c)[x].key = j
      BY <1>4, <3>4
    <3> QED
      BY <3>5 DEF x
  <2>3. sock' = DestroySock(TakenCr(s), c) /\ conn' = DestroyConn(Named(c), c)
        /\ trusts' \in [Node -> BOOLEAN]
    BY <1>3, <1>8 DEF Dropped
  <2>4. Coherent(TakenCr(s), Named(c), plan.timeouts)
    BY <1>4, <1>5, KeyFree
  <2> QED
    BY <1>1, <1>3, <1>4, <2>1, <2>2, <2>3, <2>4, RefusedStep
<1>9. CASE Kept(s)
  <2>1. /\ sock[s].handlers > 0
        /\ peers' = [Rekeyed(n, c) EXCEPT ![n]["id"] = c]
        /\ sock' = DestroySock(DestroySock(Replied(s), Rival(c)), Spare(s))
        /\ conn' = DestroyConn(DestroyConn(Named(c), Rival(c)), Spare(s))
        /\ trusts' \in [Node -> BOOLEAN]
    BY <1>3, <1>9 DEF Kept
  <2>2. /\ Coherent(Replied(s), conn, plan.timeouts)
        /\ \A u \in Socket : u # s => Replied(s)[u] = sock[u]
        /\ Replied(s)[s].r = sock[s].r /\ Replied(s)[s].ropen = sock[s].ropen
        /\ Replied(s)[s].handlers = 0
    BY <1>1, <2>1, Verifying
  <2>3. /\ Rival(c) \in Outbound \cup Socket \cup {NoConn} /\ Rival(c) # c
        /\ peers[n]["id"] \in {Rival(c), c}
        /\ Rival(c) \in Outbound => Rival(c)[1] = n /\ conn[Rival(c)].status # "unborn"
        /\ Rival(c) \in Socket => sock[Rival(c)].r = "accepted"
    BY <1>2, Rivals
  <2>4. Spare(s) \in {c, NoConn}
    BY DEF Spare
  <2> QED
    BY <1>3, <1>4, <2>1, <2>2, <2>3, <2>4, NamedStep
<1> QED
  BY <1>1, <1>6, <1>7, <1>8, <1>9

------------------------------------------------------------------------------
(* PeerLink.  The invariant holds, and what follows from it.               *)

\* Every step of PeerLink preserves the invariant.
LEMMA LinkStep == LinkInv /\ [Next]_vars => LinkInv'
<1> SUFFICES ASSUME LinkInv, [Next]_vars PROVE LinkInv'
  OBVIOUS
<1>1. CASE UNCHANGED vars
  BY <1>1 DEF vars, LinkInv, TypeOK, Unborn, Listening, Shown, MapsHold, plan
<1>2. CASE \E n \in Node : ConnectToPeer(n)
  BY <1>2, ConnectStep
<1>3. CASE \E n \in Node : ConnectAgain(n)
  BY <1>3, AgainStep
<1>4. CASE \E n \in Node : EnsureAnchor(n)
  BY <1>4, AnchorStep
<1>5. CASE \E n \in Node : AppBroadcast(n)
  BY <1>5, BroadcastStep
<1>6. CASE \E n \in Node : Register(n)
  BY <1>6, RegisterStep
<1>7. CASE \E c \in Outbound : Reconnect(c)
  BY <1>7, ReconnectStep
<1>8. CASE \E s \in Socket : OnOpen(s)
  BY <1>8, OpenStep
<1>9. CASE \E s \in Socket : OnHello(s)
  BY <1>9, HelloStep
<1>10. CASE \E s \in Socket : OnUnexpected(s)
  BY <1>10, UnexpectedStep
<1>11. CASE \E s \in Socket : OnLaterMessage(s)
  BY <1>11, LaterStep
<1>12. CASE \E s \in Socket : OnVerify(s)
  BY <1>12, VerifyStep
<1>13. CASE \E s \in Socket : OnCloseR(s)
  BY <1>13, CloseRStep
<1>14. CASE \E s \in Socket : OnChallengeResponse(s)
  BY <1>14, ChallengeStep
<1>15. CASE \E s \in Socket : OnCloseD(s)
  BY <1>15, CloseDStep
<1>16. CASE \E s \in Socket : Break(s)
  BY <1>16, BreakStep
<1>17. CASE \E s \in Socket : ConnectFails(s)
  BY <1>17, FailsStep
<1>18. CASE \E s \in Socket : AcceptTimeout(s)
  BY <1>18, AcceptTimeoutStep
<1>19. CASE \E s \in Socket : DialTimeout(s)
  BY <1>19, DialTimeoutStep
<1> QED
  BY <1>1, <1>2, <1>3, <1>4, <1>5, <1>6, <1>7, <1>8, <1>9, <1>10, <1>11, <1>12, <1>13, <1>14,
     <1>15, <1>16, <1>17, <1>18, <1>19 DEF Next

\* Whatever the two bridges do, and whatever connections break, attempts fail and
\* timers fire, every socket stands as it should to its PeerConnection and is in the
\* maps of the ends that count on it.
THEOREM LinkInvariant == Spec => []LinkInv
  BY LinkInit, LinkStep, PTL DEF Spec

\* Where nothing is under way, what the invariant says of each socket is agreement.
LEMMA HeldAgree == LinkInv => MapsAgree
<1> SUFFICES ASSUME LinkInv, Quiet
             PROVE  /\ \A s \in Socket : sock[s].d = "open" => LinkedBy(s)
                    /\ \A n \in Node :
                         peers[n]["id"] # NoConn /\ Connected(peers[n]["id"]) => Linked
  BY DEF MapsAgree
<1>1. ASSUME NEW s \in Socket, sock[s].d = "open" PROVE LinkedBy(s)
  <2>1. sock[s].r = "accepted" /\ sock[s].toD = <<>>
    BY <1>1, Known DEF Quiet, Right, Fits
  <2>2. sock[s].ropen
    BY <1>1, <2>1, Known DEF Right, Fits, Has
  <2>3. peers[Acceptor(s)]["id"] = s /\ peers[s[1]]["id"] = Owner(s)
    BY <1>1, <2>1, <2>2, Entries DEF HeldIn, HeldOut
  <2> QED
    BY <1>1, <2>1, <2>2, <2>3, HeldConnected DEF LinkedBy
<1>2. ASSUME NEW n \in Node, peers[n]["id"] # NoConn, Connected(peers[n]["id"]) PROVE Linked
  <2>1. peers[n]["id"] \in Outbound \cup Socket
    BY <1>2, Entries
  <2>2. CASE peers[n]["id"] \in Outbound
    <3>1. \E s \in Socket : sock[s].d = "open"
      BY <1>2, <2>2, ConnectedSock
    <3> QED
      BY <1>1, <3>1 DEF Linked
  <2>3. CASE peers[n]["id"] \in Socket
    <3> DEFINE s == peers[n]["id"]
    <3>1. sock[s].ropen
      BY <1>2, <2>3, Refs DEF Connected, IsOutbound
    <3>2. sock[s].d # "none"
      BY <2>3, <3>1, Known DEF Right, Fits, NoSock
    <3> HIDE DEF s
    <3>3. sock[s].d = "open"
      BY <2>3, <3>2 DEF Quiet, s
    <3> QED
      BY <1>1, <2>3, <3>3 DEF Linked, s
  <2> QED
    BY <2>1, <2>2, <2>3
<1> QED
  BY <1>1, <1>2

\* MapsConsistent for all bounds and plans: the maps have the shape TypeOK says, and
\* once nothing is under way both bridges hold the same connection, and no other socket
\* is open.
THEOREM LinkMapsConsistent == Spec => []MapsConsistent
<1>1. LinkInv => MapsConsistent
  BY HeldAgree DEF MapsConsistent, LinkInv
<1> QED
  BY <1>1, LinkInvariant, PTL

\* What destroying a connection leaves alone.
LEMMA SparedConn ==
  ASSUME NEW cs \in [Outbound -> Conn], NEW ref, NEW c \in Outbound, c # ref
  PROVE  DestroyConn(cs, ref)[c] = cs[c]
<1>1. CASE IsOutbound(ref)
  <2>1. DestroyConn(cs, ref) = [cs EXCEPT ![ref].status = "destroyed"]
    BY <1>1 DEF DestroyConn
  <2> QED
    BY <2>1
<1>2. CASE ~IsOutbound(ref)
  BY <1>2 DEF DestroyConn
<1> QED
  BY <1>1, <1>2

\* The same of sockets: only its own socket is closed.
LEMMA SparedSock ==
  ASSUME conn \in [Outbound -> Conn], NEW ss \in [Socket -> Sock],
         NEW ref \in Outbound \cup Socket \cup {NoConn},
         NEW s \in Socket, s # ref, Owner(s) # ref
  PROVE  DestroySock(ss, ref)[s] = ss[s]
<1>1. CASE ref = NoConn
  BY <1>1 DEF DestroySock
<1>2. CASE ref \in Socket
  BY <1>2, Refs DEF DestroySock, IsOutbound
<1>3. CASE ref \in Outbound
  <2>1. conn[ref].cur \in Slots \cup {0}
    BY <1>3 DEF Conn
  <2>2. conn[ref].cur # 0 => Owner(CurSock(ref)) = ref
    BY <1>3, <2>1, Refs DEF CurSock
  <2> QED
    BY <1>3, <2>2, Refs DEF DestroySock, IsOutbound
<1> QED
  BY <1>1, <1>2, <1>3

\* A new PeerConnection takes one entry of its own bridge.
LEMMA NewReplaces ==
  ASSUME LinkInv, NEW m \in Node, NEW key \in Key, NEW listeners, NewConn(m, key, listeners),
         NEW n \in Node, peers'[n]["id"] # peers[n]["id"]
  PROVE  m = n /\ key = "id"
<1>1. PICK c : peers' = [peers EXCEPT ![m][key] = c]
  BY DEF NewConn
<1> QED
  BY <1>1, Entries

\* A removal puts nothing in the place of what it removes.
LEMMA RemovedReplaces ==
  ASSUME LinkInv, NEW m \in Node, NEW ref, peers' = Removed(m, ref),
         NEW n \in Node, peers'[n]["id"] # peers[n]["id"]
  PROVE  peers'[n]["id"] = NoConn
<1>1. peers' = [peers EXCEPT ![m] =
                   [k \in Key |-> IF peers[m][k] = ref THEN NoConn ELSE peers[m][k]]]
  BY DEF Removed
<1>2. "id" \in Key /\ peers \in [Node -> [Key -> Outbound \cup Socket \cup {NoConn}]]
  BY Entries
<1>3. peers'[n] = IF n = m THEN [k \in Key |-> IF peers[m][k] = ref THEN NoConn ELSE peers[m][k]]
                  ELSE peers[n]
  BY <1>1, <1>2
<1> QED
  BY <1>2, <1>3

\* An inbound connection is accepted on a socket that is still open.
LEMMA VerifyReplaces ==
  ASSUME LinkInv, NEW s \in Socket, OnVerify(s), plan.timeouts = 0,
         NEW n \in Node, NEW b, peers'[n]["id"] = b, peers[n]["id"] # b
  PROVE  Connected(b)'
<1> DEFINE existing == peers[n]["id"]
           e == Took(sock[s])
           f == Staged(e, "accepted")
           base == [sock EXCEPT ![s] = f]
<1>1. /\ sock[s].r = "verify" /\ sock[s].toR # <<>> /\ Head(sock[s].toR) = "verify"
  BY DEF OnVerify, AtR
<1>2. /\ e \in Sock /\ Right(e, conn[Owner(s)], s, plan.timeouts)
      /\ e.ropen = sock[s].ropen /\ e.d \notin {"none", "connecting"}
      /\ Has(sock[s].toR, "verify")
  BY <1>1, Known, RightTook
<1>3. sock[s].ropen
  BY <1>1, <1>2, Known DEF Right, Waits
<1>4. Taken(s) = [sock EXCEPT ![s] = e] /\ sock \in [Socket -> Sock]
  BY Entries DEF Taken, Took
<1> HIDE DEF e
<1>5. /\ f \in Sock /\ f.r = "accepted" /\ f.ropen = e.ropen
  BY <1>2, Known, RightStaged
<1>6. [Taken(s) EXCEPT ![s].r = "accepted"] = base
  BY <1>4 DEF Staged
<1>7. Acceptor(s) \in Node /\ "id" \in Key
  BY Entries
<1>8. /\ n = Acceptor(s) /\ sock' = DestroySock(base, existing) /\ b = s
  <2>1. /\ peers' = [peers EXCEPT ![Acceptor(s)]["id"] = s]
        /\ sock' = DestroySock(base, peers[Acceptor(s)]["id"])
    BY <1>6 DEF OnVerify
  <2>2. peers \in [Node -> [Key -> Outbound \cup Socket \cup {NoConn}]]
    BY Entries
  <2> HIDE DEF base
  <2> QED
    BY <1>7, <2>1, <2>2
<1>9. /\ existing \in Outbound \cup Socket \cup {NoConn}
      /\ existing \in Outbound => existing[1] = n
  BY <1>7, Entries
<1>10. existing # s /\ Owner(s) # existing
  <2>1. existing # s
    BY <1>8
  <2>2. Owner(s) \in Outbound /\ Owner(s)[1] = s[1] /\ n # s[1]
    BY <1>8, Refs, Entries
  <2> QED
    BY <1>9, <2>1, <2>2
<1>11. base \in [Socket -> Sock] /\ base[s] = f
  BY <1>4, <1>5
<1> HIDE DEF base, f
<1>12. sock'[s] = f
  <2>1. conn \in [Outbound -> Conn]
    BY Entries
  <2>2. base \in [Socket -> Sock] /\ existing \in Outbound \cup Socket \cup {NoConn}
    BY <1>9, <1>11
  <2> HIDE DEF existing
  <2>3. DestroySock(base, existing)[s] = base[s]
    BY <1>10, <2>1, <2>2, SparedSock
  <2> QED
    BY <1>8, <1>11, <2>3
<1>13. ~IsOutbound(s)
  BY Refs DEF IsOutbound
<1> QED
  BY <1>2, <1>3, <1>5, <1>8, <1>12, <1>13 DEF Connected

\* An outbound connection that replaces a working one is not destroyed by it.
LEMMA AnswerReplaces ==
  ASSUME LinkInv, NEW s \in Socket, OnChallengeResponse(s), plan.timeouts = 0,
         NEW n \in Node, peers[n]["id"] # NoConn, Connected(peers[n]["id"]), ~Twice(n),
         NEW b, peers'[n]["id"] = b, peers[n]["id"] # b
  PROVE  Connected(b)'
<1> DEFINE c == Owner(s)
           rival == Rival(c)
<1>1. c \in Outbound /\ c[1] = s[1] /\ s[1] \in Node /\ s[3] # 0 /\ SocketOf(c, s[3]) = s
  BY Refs
<1>2. \A m \in Node : Rekeyed(s[1], c)[m]["id"] = peers[m]["id"]
  BY <1>1, Rekeys
<1>3. AtD(s, "cr") /\ Kept(s)
  BY <1>2, AnswerCases DEF Refused, Dropped
<1>4. /\ n = s[1] /\ b = c
  <2>1. peers' = [Rekeyed(s[1], c) EXCEPT ![s[1]]["id"] = c]
    BY <1>3 DEF Kept
  <2>2. Rekeyed(s[1], c) \in [Node -> [Key -> Outbound \cup Socket \cup {NoConn}]] /\ "id" \in Key
    BY <1>1, Rekeys, Entries
  <2> HIDE DEF c
  <2> QED
    BY <1>1, <1>2, <2>1, <2>2
<1>5. rival = peers[n]["id"] /\ n = Lower /\ sock[s].handlers > 0
  BY <1>1, <1>3, <1>4 DEF Rival, Kept
<1>6. /\ rival \in Outbound \cup Socket \cup {NoConn} /\ rival # c
      /\ rival # s
  <2>1. rival \in Socket => Acceptor(rival) = n
    BY <1>4, <1>5, Entries
  <2>2. Acceptor(s) # n
    BY <1>4, Entries
  <2> QED
    BY <1>1, <2>1, <2>2, Rivals
<1>7. sock[s].d = "open" /\ conn[c].status = "live" /\ conn[c].cur = s[3]
  <2>1. sock[s].d \in {"open", "closing"}
    BY <1>5, Known DEF Right, Waits
  <2>2. conn[c].status \in {"live", "destroyed"}
    BY <1>1, <2>1, Known DEF Right, Fits, Conn
  <2>3. sock[s].d # "closing"
    <3>1. /\ sock[s].d = "closing" /\ conn[c].status = "live" => sock[s].handlers = 0
          /\ sock[s].handlers > 0 /\ conn[c].status = "destroyed" => s[1] # Lower
      BY Known DEF Right, Waits
    <3> QED
      BY <1>4, <1>5, <2>2, <3>1
  <2> QED
    BY <2>1, <2>3, Known DEF Right, Fits, Alive
<1>8. Spare(s) = NoConn
  <2> SUFFICES ASSUME sock[s].handlers = 2 PROVE FALSE
    BY DEF Spare, Unsigned
  <2>1. conn[c].listeners = 2
    <3>1. conn[c].listeners \in 0 .. 2 /\ sock[s].handlers <= conn[c].listeners
      BY <1>1, Known DEF Right, Waits, Conn
    <3> QED
      BY <3>1
  <2>2. n \in plan.rediscover
    BY <1>1, <1>4, <2>1 DEF LinkInv, Listening
  <2>3. n \notin plan.aliased \cup plan.anchoring
    BY <2>2 DEF Twice
  <2>4. peers[n]["id"] = c
    BY <1>1, <1>4, <1>7, <2>1, <2>3 DEF LinkInv, Shown
  <2> QED
    BY <1>5, <1>6, <2>4
<1>9. /\ Replied(s) \in [Socket -> Sock] /\ Replied(s)[s].d = "open"
  BY <1>3, <1>5, <1>7, Verifying DEF Coherent
<1>10. /\ Named(c) \in [Outbound -> Conn] /\ Named(c)[c].status = "live"
       /\ Named(c)[c].cur = s[3]
  BY <1>1, <1>7, Renamed
<1>11. /\ sock' = DestroySock(DestroySock(Replied(s), rival), NoConn)
       /\ conn' = DestroyConn(DestroyConn(Named(c), rival), NoConn)
  BY <1>3, <1>8 DEF Kept
<1> HIDE DEF c, rival
<1>12. \A ss, cs : DestroySock(ss, NoConn) = ss /\ DestroyConn(cs, NoConn) = cs
  BY Refs DEF DestroySock, DestroyConn, IsOutbound
<1>13. sock' = DestroySock(Replied(s), rival) /\ conn' = DestroyConn(Named(c), rival)
  BY <1>11, <1>12
<1>14. sock'[s].d = "open" /\ conn'[c].status = "live" /\ conn'[c].cur = s[3]
  <2>1. Owner(s) # rival
    BY <1>6 DEF c
  <2>2. conn \in [Outbound -> Conn]
    BY Entries
  <2>3. DestroySock(Replied(s), rival)[s] = Replied(s)[s]
    BY <1>6, <1>9, <2>1, <2>2, SparedSock
  <2>4. DestroyConn(Named(c), rival)[c] = Named(c)[c]
    BY <1>1, <1>6, <1>10, SparedConn
  <2> QED
    BY <1>9, <1>10, <1>13, <2>3, <2>4
<1> QED
  BY <1>1, <1>4, <1>14 DEF Connected, IsOutbound, CurSock

\* No other step puts one connection in the place of a working one.
LEMMA ReplacesStep ==
  ASSUME LinkInv, [Next]_vars, plan.timeouts = 0, NEW n \in Node, ~Twice(n),
         NEW a \in Outbound \cup Socket, NEW b \in Outbound \cup Socket,
         peers[n]["id"] = a, Connected(a), peers'[n]["id"] = b, a # b
  PROVE  Connected(b)'
<1>1. a # NoConn /\ b # NoConn
  BY Refs
<1>2. "id" \in Key /\ \A m \in Node : DialKey(m) \in Key
  BY DEF Key, DialKey
<1>3. ASSUME NEW m \in Node, ConnectToPeer(m) PROVE FALSE
  BY <1>1, <1>2, <1>3, NewReplaces DEF ConnectToPeer
<1>4. ASSUME NEW m \in Node, EnsureAnchor(m) PROVE FALSE
  BY <1>1, <1>2, <1>4, NewReplaces DEF EnsureAnchor
<1>5. ASSUME NEW s \in Socket, OnCloseR(s) PROVE FALSE
  <2>1. peers' = Removed(Acceptor(s), s) /\ Acceptor(s) \in Node
    BY <1>5, Entries DEF OnCloseR
  <2> QED
    BY <1>1, <2>1, RemovedReplaces
<1>6. ASSUME NEW s \in Socket, OnCloseD(s) PROVE FALSE
  <2>1. peers' = Removed(s[1], Owner(s)) /\ s[1] \in Node
    BY <1>6, Entries DEF OnCloseD
  <2> QED
    BY <1>1, <2>1, RemovedReplaces
<1>7. ASSUME NEW s \in Socket, OnVerify(s) PROVE Connected(b)'
  BY <1>7, VerifyReplaces
<1>8. ASSUME NEW s \in Socket, OnChallengeResponse(s) PROVE Connected(b)'
  BY <1>1, <1>8, AnswerReplaces
<1>9. ASSUME peers' = peers PROVE FALSE
  BY <1>9
<1> QED
  BY <1>3, <1>4, <1>5, <1>6, <1>7, <1>8, <1>9
  DEF Next, vars, ConnectAgain, AppBroadcast, Register, Reconnect, OnOpen, OnHello,
      OnUnexpected, OnLaterMessage, Break, ConnectFails, AcceptTimeout, DialTimeout

\* ReplacedByWorking for all bounds and plans: where no timer fires, a connection that
\* works is replaced in the map only by one that works after the same step, whoever wins
\* the tie-break of two that meet.
THEOREM LinkReplacedByWorking == Spec => ReplacedByWorking
<1> DEFINE Replaces ==
      \A n \in Node, a, b \in Outbound \cup Socket :
        (/\ plan.timeouts = 0 /\ ~Twice(n)
         /\ peers[n]["id"] = a /\ Connected(a) /\ peers'[n]["id"] = b /\ a # b)
        => Connected(b)'
<1>1. LinkInv /\ [Next]_vars => [Replaces]_vars
  BY ReplacesStep
<1> QED
  BY <1>1, LinkInvariant, PTL DEF Spec, ReplacedByWorking
==============================================================================
