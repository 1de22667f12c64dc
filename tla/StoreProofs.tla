----------------------------- MODULE StoreProofs -----------------------------
(***************************************************************************)
(* Proofs about the two that keep what was paid in the store               *)
(* (packages/bridge/lib/persistent-store.js), for every value of their     *)
(* constants.                                                              *)
(*                                                                         *)
(* PaymentGate: for all prices, requests, gates, crashes and store errors, *)
(* what is served was paid for, and as long as no read of the store failed *)
(* a payment buys the answers of one route at one price, is refused to     *)
(* whoever comes later, and its receipt stays.                             *)
(*                                                                         *)
(* Wallet: for all transactions and plans, what has been handled as spent  *)
(* is not offered, nothing else is marked, and no broadcast is reported as *)
(* failed that is in the network.  The invariant says of every output who  *)
(* may still put or mark it: a record of it is made once, unless it is the *)
(* change of a send, and never after what spends it has been handled.      *)
(***************************************************************************)
EXTENDS PaymentGate, Wallet, FiniteSetTheorems, TLAPS

------------------------------------------------------------------------------
(* PaymentGate: the invariant.                                             *)

Locking == {"claiming", "putting"}
Holding == {"fetching", "finalizing", "releasing", "deleting"}
Working == Locking \cup Holding \cup {"conflict"}

\* A verification is pending at its gate, and nothing else is; who joined it came to
\* the same gate for the same route.
Owners ==
  /\ \A r \in Request : pc[r] \in Working => pending[via[r]][txOf[r]] = r
  /\ \A g \in Gate, t \in Txid : pending[g][t] # NoRequest =>
       LET o == pending[g][t] IN pc[o] \in Working /\ via[o] = g /\ txOf[o] = t
  /\ \A r \in Request : pc[r] = "joined" =>
       LET o == pending[via[r]][txOf[r]] IN o # NoRequest /\ RouteOf[o] = RouteOf[r]

\* Receipts are paid for, and a claim that is about to become one.
Paying ==
  /\ \A r \in Request : pc[r] = "finalizing" => Pays(r)
  /\ \A t \in Txid : records[t].status = "receipt" => records[t].satoshisRequired <= Paid[t]
  /\ PaidInFull

\* While no read has failed, the claim of a txid has one holder; what was served has a
\* receipt for its route and price; and who comes late finds a receipt, and no credit.
OneHolder ==
  /\ \A r \in Request : pc[r] = "putting" => records[txOf[r]] = None
  /\ \A r \in Request : pc[r] \in Holding => records[txOf[r]] = Claimed
  /\ \A r, s \in Request :
       pc[r] \in Holding /\ pc[s] \in Holding /\ txOf[r] = txOf[s] => r = s
Served(r) ==
  LET rec == records[txOf[r]] IN
  rec.status = "receipt" /\ rec.endpointKey = RouteOf[r] /\ rec.satoshisRequired = PriceOf(r)
TooLate(r) ==
  /\ pc[r] # "new" /\ result[r] # "ok" /\ records[txOf[r]].status = "receipt"
  /\ ~IsCredit(records[txOf[r]], RouteOf[r], PriceOf(r))
Receipts ==
  /\ \A r \in Request : result[r] = "ok" => Served(r)
  /\ \A r \in late : TooLate(r)

Used == faults.reads = 0 => OneHolder /\ Receipts

\* The inductive invariant.
GateInv == TypeOK /\ Owners /\ LocksMatchClaims /\ Paying /\ Used

------------------------------------------------------------------------------
(* PaymentGate: records.                                                   *)

\* The three kinds of record.
LEMMA RecordKinds ==
  /\ None \in Record /\ Claimed \in Record /\ None # Claimed
  /\ None.status # "receipt" /\ Claimed.status # "receipt"
  /\ \A a, b, c : /\ Receipt(a, b, c) # None /\ Receipt(a, b, c) # Claimed
                  /\ Receipt(a, b, c).status = "receipt"
                  /\ Receipt(a, b, c).endpointKey = a
                  /\ Receipt(a, b, c).satoshisRequired = b
                  /\ Receipt(a, b, c).credit = c
<1>1. None.status = "none" /\ Claimed.status = "claimed"
  BY DEF None, Claimed
<1> QED
  BY <1>1 DEF None, Claimed, Receipt, Record

\* To use the credit of a receipt changes nothing else.
LEMMA ReceiptFacts ==
  ASSUME NEW x \in Record, x.status = "receipt"
  PROVE  LET y == [x EXCEPT !.credit = FALSE] IN
         /\ x.satoshisRequired \in Nat /\ x # None /\ x # Claimed
         /\ y \in Record /\ y.status = "receipt" /\ ~y.credit
         /\ y.endpointKey = x.endpointKey /\ y.satoshisRequired = x.satoshisRequired
<1>1. x # None /\ x # Claimed
  BY RecordKinds
<1>2. x \in [status : {"receipt"}, endpointKey : Route, satoshisRequired : Nat, credit : BOOLEAN]
  BY <1>1 DEF Record
<1> QED
  BY <1>1, <1>2 DEF Record

\* A price is a natural number.
LEMMA PriceType ==
  ASSUME TypeOK, NEW r \in Request
  PROVE  PriceOf(r) \in Nat /\ txOf[r] \in Txid /\ via[r] \in Gate /\ Paid[txOf[r]] \in Nat
BY PriceAssumption, InputAssumption DEF TypeOK, PriceOf

------------------------------------------------------------------------------
(* PaymentGate: steps.                                                     *)

\* The invariant holds at the start.
LEMMA GateInit == Init => GateInv
<1> SUFFICES ASSUME Init PROVE GateInv
  OBVIOUS
<1>1. \A r \in Request : pc[r] = "new" /\ result[r] = "none" /\ via[r] = 0 /\ 0 \in Gate
  BY PriceAssumption DEF Init, Gate
<1>2. \A t \in Txid : records[t] = None
  BY DEF Init
<1>3. \A g \in Gate : \A t \in Txid : pending[g][t] = NoRequest
  BY DEF Init
<1>4. TypeOK
  <2>1. records \in [Txid -> Record] /\ locks \subseteq Txid /\ late \subseteq Request
    BY RecordKinds DEF Init
  <2>0. \A t \in Txid : records[t].status # "receipt"
    BY <1>2, RecordKinds
  <2>2. gate \in Gate /\ pending \in [Gate -> [Txid -> Request \cup {NoRequest}]]
        /\ negative \in [Gate -> SUBSET Txid]
    BY PriceAssumption DEF Init, Gate
  <2>3. pc \in [Request -> Stage] /\ result \in [Request -> Result] /\ txOf \in Naming
    BY DEF Init, Stage, Result
  <2>4. via \in [Request -> Gate]
    BY PriceAssumption DEF Init, Gate
  <2>5. faults \in [crashes : 0 .. MaxCrashes, reads : 0 .. MaxReadErrors,
                    stuck : 0 .. MaxStuckClaims]
    <3>1. 0 \in 0 .. MaxCrashes /\ 0 \in 0 .. MaxReadErrors /\ 0 \in 0 .. MaxStuckClaims
      BY BoundAssumption
    <3> QED
      BY <3>1 DEF Init
  <2> QED
    BY <1>1, <2>0, <2>1, <2>2, <2>3, <2>4, <2>5 DEF TypeOK, Stage
<1>5. Owners
  BY <1>1, <1>3 DEF Owners, Working, Locking, Holding
<1>6. LocksMatchClaims
  BY <1>1 DEF Init, LocksMatchClaims
<1>7. Paying
  <2>1. \A t \in Txid : records[t].status # "receipt"
    BY <1>2, RecordKinds
  <2> QED
    BY <1>1, <2>1 DEF Paying, PaidInFull
<1>8. Used
  BY <1>1 DEF Init, Used, OneHolder, Receipts, Holding
<1> QED
  BY <1>4, <1>5, <1>6, <1>7, <1>8 DEF GateInv

------------------------------------------------------------------------------
(* PaymentGate: what actions have in common.                               *)

\* A verification that goes on stays the owner of its txid at its gate.
LEMMA OwnersKeep ==
  ASSUME GateInv, NEW r \in Request, pc[r] \in Working, NEW st \in Working,
         pc' = [pc EXCEPT ![r] = st], UNCHANGED <<pending, txOf, via>>
  PROVE  Owners'
<1>1. /\ pc \in [Request -> Stage] /\ \A s \in Request : via[s] \in Gate /\ txOf[s] \in Txid
      /\ \A g \in Gate, t \in Txid : pending[g][t] \in Request \cup {NoRequest}
  BY PriceType DEF GateInv, TypeOK
<1>2. \A s \in Request : IF s = r THEN pc'[s] \in Working ELSE pc'[s] = pc[s]
  BY <1>1
<1>3. pc[r] # "joined" /\ pc'[r] # "joined"
  BY <1>2 DEF Working, Locking, Holding
<1> QED
  BY <1>1, <1>2, <1>3 DEF GateInv, Owners

\* A verification that ends leaves nothing pending that refers to it.
LEMMA Answering ==
  ASSUME GateInv, NEW r \in Request, pc[r] \in Working, NEW res \in Result \ {"none"},
         Answer(r, res), UNCHANGED <<txOf, via>>
  PROVE  /\ pc' \in [Request -> Stage] /\ result' \in [Request -> Result]
         /\ pending' \in [Gate -> [Txid -> Request \cup {NoRequest}]]
         /\ Owners'
         /\ r \in Answered(r)
         /\ \A s \in Answered(r) :
              /\ s \in Request /\ txOf[s] = txOf[r] /\ RouteOf[s] = RouteOf[r]
              /\ PriceOf(s) = PriceOf(r)
              /\ s # r => pc[s] = "joined"
              /\ pc'[s] = "answered" /\ result'[s] = res
         /\ \A s \in Request : s \notin Answered(r) => pc'[s] = pc[s] /\ result'[s] = result[s]
<1> USE DEF GateInv
<1>1. /\ pc \in [Request -> Stage] /\ result \in [Request -> Result]
      /\ \A s \in Request : via[s] \in Gate /\ txOf[s] \in Txid
      /\ pending \in [Gate -> [Txid -> Request \cup {NoRequest}]]
  BY PriceType DEF TypeOK
<1>2. /\ pc' = [s \in Request |-> IF s \in Answered(r) THEN "answered" ELSE pc[s]]
      /\ result' = [s \in Request |-> IF s \in Answered(r) THEN res ELSE result[s]]
      /\ pending' = [pending EXCEPT ![via[r]][txOf[r]] = NoRequest]
  BY DEF Answer
<1>3. pc' \in [Request -> Stage] /\ result' \in [Request -> Result]
  BY <1>1, <1>2 DEF Stage
<1>4. /\ pending' \in [Gate -> [Txid -> Request \cup {NoRequest}]]
      /\ \A g \in Gate, t \in Txid :
           pending'[g][t] = IF g = via[r] /\ t = txOf[r] THEN NoRequest ELSE pending[g][t]
  BY <1>1, <1>2
<1>5. pending[via[r]][txOf[r]] = r /\ r # NoRequest
  BY InputAssumption DEF Owners
<1>6. \A s \in Answered(r) : s \in Request /\ txOf[s] = txOf[r] /\ via[s] = via[r]
                             /\ (s # r => pc[s] = "joined")
  BY DEF Answered
<1>7. \A s \in Answered(r) : RouteOf[s] = RouteOf[r]
  BY <1>5, <1>6 DEF Owners
<1>8. \A s \in Answered(r) : PriceOf(s) = PriceOf(r)
  BY <1>6, <1>7 DEF PriceOf
<1>9. r \in Answered(r)
  BY DEF Answered
<1>10. Owners'
  <2>1. \A s \in Request : pc'[s] \in Working => s # r /\ pc[s] \in Working /\ pc'[s] = pc[s]
    BY <1>2, <1>9 DEF Working, Locking, Holding
  <2>2. ASSUME NEW s \in Request, pc'[s] \in Working PROVE pending'[via[s]][txOf[s]] = s
    <3>1. s # r /\ pending[via[s]][txOf[s]] = s
      BY <2>1, <2>2 DEF Owners
    <3>2. ~(via[s] = via[r] /\ txOf[s] = txOf[r])
      BY <1>5, <3>1
    <3> QED
      BY <1>1, <1>4, <3>1, <3>2
  <2>3. ASSUME NEW g \in Gate, NEW t \in Txid, pending'[g][t] # NoRequest
        PROVE  LET o == pending'[g][t] IN pc'[o] \in Working /\ via[o] = g /\ txOf[o] = t
    <3> DEFINE o == pending[g][t]
    <3>1. pending'[g][t] = o /\ o \in Request /\ ~(g = via[r] /\ t = txOf[r])
      BY <1>1, <1>4, <2>3
    <3>2. pc[o] \in Working /\ via[o] = g /\ txOf[o] = t
      BY <2>3, <3>1 DEF Owners
    <3>3. o \notin Answered(r)
      BY <1>6, <3>1, <3>2
    <3> QED
      BY <1>2, <3>1, <3>2, <3>3
  <2>4. ASSUME NEW s \in Request, pc'[s] = "joined"
        PROVE  LET o == pending'[via[s]][txOf[s]] IN o # NoRequest /\ RouteOf[o] = RouteOf[s]
    <3>1. s \notin Answered(r) /\ pc[s] = "joined"
      BY <1>2, <2>4
    <3>2. ~(via[s] = via[r] /\ txOf[s] = txOf[r])
      BY <3>1 DEF Answered
    <3> QED
      BY <1>1, <1>4, <3>1, <3>2 DEF Owners
  <2> QED
    BY <2>2, <2>3, <2>4 DEF Owners
<1> QED
  BY <1>2, <1>3, <1>4, <1>6, <1>7, <1>8, <1>9, <1>10

\* Locks stay right while nobody enters or leaves the critical section.
LEMMA LocksKeep ==
  ASSUME LocksMatchClaims, UNCHANGED <<locks, txOf>>,
         \A s \in Request : pc'[s] \in Locking <=> pc[s] \in Locking
  PROVE  LocksMatchClaims'
BY DEF LocksMatchClaims, Locking

\* They stay right when somebody leaves it and unlocks.
LEMMA LocksFreed ==
  ASSUME GateInv, NEW r \in Request, pc[r] \in Locking, locks' = Unlocked(txOf[r]),
         UNCHANGED txOf, pc'[r] \notin Locking,
         \A s \in Request : s # r => (pc'[s] \in Locking <=> pc[s] \in Locking)
  PROVE  LocksMatchClaims'
BY DEF GateInv, LocksMatchClaims, Locking, Unlocked

\* No request is served, no receipt written and no verification at its end.
LEMMA PayingKeeps ==
  ASSUME Paying, UNCHANGED <<txOf, via>>,
         \A s \in Request : pc'[s] = "finalizing" => pc[s] = "finalizing",
         \A s \in Request : result'[s] = "ok" => result[s] = "ok",
         \A t \in Txid : records'[t] = records[t] \/ records'[t].status # "receipt"
  PROVE  Paying'
BY DEF Paying, PaidInFull, Pays, PriceOf

\* Receipts stay, nobody is served and nobody else is late.
LEMMA ServedStay ==
  ASSUME Receipts, UNCHANGED <<txOf, via>>, late' = late, late \subseteq Request,
         \A s \in Request : pc'[s] = "new" => pc[s] = "new",
         \A s \in Request : result'[s] = "ok" => result[s] = "ok",
         \A s \in Request :
           records[txOf[s]].status = "receipt" => records'[txOf[s]] = records[txOf[s]]
  PROVE  Receipts'
<1>1. \A s \in Request : Served(s) => Served(s)'
  BY DEF Served, PriceOf
<1>2. \A s \in Request : TooLate(s) => TooLate(s)'
  BY DEF TooLate, PriceOf, IsCredit
<1> QED
  BY <1>1, <1>2 DEF Receipts

------------------------------------------------------------------------------
(* PaymentGate: the claim.                                                 *)

\* A step inside a verification: r goes on to stage st, and nobody is answered.
LEMMA GoingOn ==
  ASSUME GateInv, NEW r \in Request, pc[r] \in Working, NEW st \in Working,
         pc' = [pc EXCEPT ![r] = st], UNCHANGED <<gate, pending, negative, txOf, via, late>>,
         records' \in [Txid -> Record], locks' \subseteq Txid,
         faults' \in [crashes : 0 .. MaxCrashes, reads : 0 .. MaxReadErrors,
                      stuck : 0 .. MaxStuckClaims],
         \A t \in Txid : records'[t] = records[t] \/ records'[t].status # "receipt",
         result' = [result EXCEPT ![r] = result'[r]],
         IF st \in {"releasing", "deleting"} THEN result'[r] \in {"unpaid", "error"}
                                             ELSE result'[r] = "none"
  PROVE  /\ TypeOK' /\ Owners'
         /\ pc'[r] = st /\ \A s \in Request : s # r => pc'[s] = pc[s]
         /\ \A s \in Request : result'[s] = "ok" <=> result[s] = "ok"
<1> USE DEF GateInv
<1>1. Owners'
  BY OwnersKeep
<1>2. pc' \in [Request -> Stage] /\ result' \in [Request -> Result]
  BY DEF TypeOK, Stage, Result, Working, Locking, Holding
<1>3. pc'[r] = st /\ \A s \in Request : s # r => pc'[s] = pc[s] /\ result'[s] = result[s]
  BY DEF TypeOK
<1>4. result[r] # "ok" /\ result'[r] # "ok"
  BY DEF TypeOK, Working, Locking, Holding
<1>5. \A t \in Txid : records'[t].status = "receipt" =>
        \E g \in Gate : records'[t].satoshisRequired = Price[g][records'[t].endpointKey]
  BY DEF TypeOK
<1>6. \A s \in Request :
       \/ pc'[s] = "lost" /\ result'[s] \notin {"ok", "refused"}
       \/ pc'[s] = "answered" /\ result'[s] # "none"
       \/ pc'[s] \in {"releasing", "deleting"} /\ result'[s] \in {"unpaid", "error"}
       \/ pc'[s] \in Stage \ {"lost", "answered", "releasing", "deleting"} /\ result'[s] = "none"
  <2>1. st \in Stage \ {"lost", "answered"}
    BY DEF Stage, Working, Locking, Holding
  <2> QED
    BY <1>3, <2>1 DEF TypeOK
<1>7. TypeOK'
  BY <1>2, <1>5, <1>6 DEF TypeOK
<1> QED
  BY <1>1, <1>3, <1>4, <1>7

\* claimTxid reads, or fails to.
LEMMA ClaimGetStep ==
  ASSUME GateInv, NEW r \in Request, ClaimGet(r) \/ ClaimGetFails(r)
  PROVE  GateInv'
<1> USE DEF GateInv
<1>1. PICK st \in {"putting", "conflict"} :
        /\ pc[r] = "claiming" /\ pc' = [pc EXCEPT ![r] = st]
        /\ locks' = IF st = "putting" THEN locks ELSE Unlocked(txOf[r])
        /\ st = "putting" => records[txOf[r]] = None \/ faults' = [faults EXCEPT !.reads = @ + 1]
  BY DEF ClaimGet, ClaimGetFails, Absent
<1>2. /\ UNCHANGED <<records, gate, pending, negative, via, result, late, txOf>>
      /\ \/ UNCHANGED faults
         \/ faults.reads < MaxReadErrors /\ faults' = [faults EXCEPT !.reads = @ + 1]
  BY DEF ClaimGet, ClaimGetFails
<1>3. TypeOK' /\ Owners' /\ pc'[r] = st /\ \A s \in Request : s # r => pc'[s] = pc[s]
  <2>1. /\ result = [result EXCEPT ![r] = result[r]] /\ result[r] = "none"
        /\ locks' \subseteq Txid /\ records' \in [Txid -> Record]
    BY <1>1, <1>2 DEF TypeOK, Unlocked
  <2>2. faults' \in [crashes : 0 .. MaxCrashes, reads : 0 .. MaxReadErrors,
                     stuck : 0 .. MaxStuckClaims]
    BY <1>2, BoundAssumption DEF TypeOK
  <2> QED
    BY <1>1, <1>2, <2>1, <2>2, GoingOn DEF Working, Locking
<1>4. LocksMatchClaims'
  BY <1>1, <1>2, <1>3, LocksKeep, LocksFreed DEF Locking
<1>5. Paying'
  BY <1>1, <1>2, <1>3, PayingKeeps
<1>6. Used'
  <2>1. SUFFICES ASSUME faults'.reads = 0 PROVE OneHolder' /\ Receipts'
    BY DEF Used
  <2>2. UNCHANGED faults
    BY <1>2, <2>1 DEF TypeOK
  <2>3. faults # [faults EXCEPT !.reads = @ + 1]
    BY DEF TypeOK
  <2>4. st = "putting" => records[txOf[r]] = None
    BY <1>1, <2>2, <2>3
  <2>5. OneHolder /\ Receipts
    BY <2>1, <2>2 DEF Used
  <2>6. OneHolder'
    BY <1>1, <1>2, <1>3, <2>4, <2>5 DEF OneHolder, Holding
  <2>7. Receipts'
    BY <1>1, <1>2, <1>3, <2>5 DEF Receipts, Served, TooLate, PriceOf, TypeOK
  <2> QED
    BY <2>6, <2>7
<1> QED
  BY <1>3, <1>4, <1>5, <1>6

\* claimTxid writes: the lock kept everybody else away since the read.
LEMMA ClaimPutStep == ASSUME GateInv, NEW r \in Request, ClaimPut(r) PROVE GateInv'
<1> USE DEF GateInv
<1>1. /\ pc[r] = "putting" /\ pc' = [pc EXCEPT ![r] = "fetching"]
      /\ records' = [records EXCEPT ![txOf[r]] = Claimed] /\ locks' = Unlocked(txOf[r])
      /\ UNCHANGED <<gate, pending, negative, via, result, late, faults, txOf>>
  BY DEF ClaimPut
<1>2. /\ txOf[r] \in Txid /\ records' \in [Txid -> Record] /\ records'[txOf[r]] = Claimed
      /\ \A t \in Txid : t # txOf[r] => records'[t] = records[t]
  BY <1>1, PriceType, RecordKinds DEF TypeOK
<1>3. TypeOK' /\ Owners' /\ pc'[r] = "fetching" /\ \A s \in Request : s # r => pc'[s] = pc[s]
  <2>1. /\ result' = [result EXCEPT ![r] = result'[r]] /\ result'[r] = "none"
        /\ locks' \subseteq Txid
        /\ \A t \in Txid : records'[t] = records[t] \/ records'[t].status # "receipt"
    BY <1>1, <1>2, RecordKinds DEF TypeOK, Unlocked
  <2>2. faults' \in [crashes : 0 .. MaxCrashes, reads : 0 .. MaxReadErrors,
                     stuck : 0 .. MaxStuckClaims]
    BY <1>1 DEF TypeOK
  <2> QED
    BY <1>1, <1>2, <2>1, <2>2, GoingOn DEF Working, Locking, Holding
<1>4. LocksMatchClaims'
  BY <1>1, <1>3, LocksFreed DEF Locking
<1>5. Paying'
  BY <1>1, <1>2, <1>3, RecordKinds, PayingKeeps
<1>6. Used'
  <2>1. SUFFICES ASSUME faults'.reads = 0 PROVE OneHolder' /\ Receipts'
    BY DEF Used
  <2>2. OneHolder /\ Receipts
    BY <1>1, <2>1 DEF Used
  <2>3. records[txOf[r]] = None
    BY <1>1, <2>2 DEF OneHolder
  <2>4. \A s \in Request : s # r /\ txOf[s] = txOf[r] => pc[s] # "putting" /\ pc[s] \notin Holding
    BY <1>1, <2>2, <2>3, RecordKinds DEF OneHolder, LocksMatchClaims
  <2>5. OneHolder'
    <3>1. \A s \in Request : txOf[s] \in Txid
      BY PriceType
    <3>2. \A s \in Request : s # r /\ (pc'[s] = "putting" \/ pc'[s] \in Holding)
                               => txOf[s] # txOf[r] /\ records'[txOf[s]] = records[txOf[s]]
      BY <1>2, <1>3, <2>4, <3>1
    <3> QED
      BY <1>1, <1>2, <1>3, <2>2, <3>2 DEF OneHolder
  <2>6. \A s \in Request : records[txOf[s]].status = "receipt" => records'[txOf[s]] = records[txOf[s]]
    BY <1>2, <2>3, RecordKinds, PriceType
  <2>7. Receipts'
    BY <1>1, <1>3, <2>2, <2>6 DEF Receipts, Served, TooLate, PriceOf, TypeOK
  <2> QED
    BY <2>5, <2>7
<1> QED
  BY <1>3, <1>4, <1>5, <1>6

\* The write fails.
LEMMA ClaimPutFailsStep == ASSUME GateInv, NEW r \in Request, ClaimPutFails(r) PROVE GateInv'
<1> USE DEF GateInv
<1>1. /\ pc[r] = "putting" /\ pc' = [pc EXCEPT ![r] = "conflict"] /\ locks' = Unlocked(txOf[r])
      /\ UNCHANGED <<records, gate, pending, negative, via, result, late, faults, txOf>>
  BY DEF ClaimPutFails
<1>2. TypeOK' /\ Owners' /\ pc'[r] = "conflict" /\ \A s \in Request : s # r => pc'[s] = pc[s]
  <2>1. /\ result' = [result EXCEPT ![r] = result'[r]] /\ result'[r] = "none"
        /\ locks' \subseteq Txid /\ records' \in [Txid -> Record]
    BY <1>1 DEF TypeOK, Unlocked
  <2>2. faults' \in [crashes : 0 .. MaxCrashes, reads : 0 .. MaxReadErrors,
                     stuck : 0 .. MaxStuckClaims]
    BY <1>1 DEF TypeOK
  <2> QED
    BY <1>1, <2>1, <2>2, GoingOn DEF Working, Locking
<1>3. LocksMatchClaims'
  BY <1>1, <1>2, LocksFreed DEF Locking
<1>4. Paying'
  BY <1>1, <1>2, PayingKeeps
<1>5. Used'
  BY <1>1, <1>2 DEF Used, OneHolder, Receipts, Served, TooLate, PriceOf, Holding, TypeOK
<1> QED
  BY <1>2, <1>3, <1>4, <1>5

------------------------------------------------------------------------------
(* PaymentGate: verification.                                              *)

\* The holder of a claim goes on: fetched and paid, not paid, not finalized, or about
\* to delete its claim.
LEMMA HoldingStep ==
  ASSUME GateInv, NEW r \in Request, pc[r] \in Holding, NEW st \in Holding,
         pc' = [pc EXCEPT ![r] = st], st = "finalizing" => Pays(r),
         UNCHANGED <<records, locks, gate, pending, negative, via, late, faults, txOf>>,
         result' = [result EXCEPT ![r] = result'[r]],
         IF st \in {"releasing", "deleting"} THEN result'[r] \in {"unpaid", "error"}
                                             ELSE result'[r] = "none"
  PROVE  GateInv'
<1> USE DEF GateInv
<1>1. /\ TypeOK' /\ Owners'
      /\ pc'[r] = st /\ \A s \in Request : s # r => pc'[s] = pc[s]
      /\ \A s \in Request : result'[s] = "ok" <=> result[s] = "ok"
  <2>1. /\ locks' \subseteq Txid /\ records' \in [Txid -> Record]
        /\ faults' \in [crashes : 0 .. MaxCrashes, reads : 0 .. MaxReadErrors,
                        stuck : 0 .. MaxStuckClaims]
    BY DEF TypeOK
  <2> QED
    BY <2>1, GoingOn DEF Working
<1>2. LocksMatchClaims'
  BY <1>1, LocksKeep DEF Locking, Holding
<1>3. Paying'
  BY <1>1 DEF Paying, PaidInFull, Pays, PriceOf
<1>4. Used'
  <2>1. SUFFICES ASSUME faults'.reads = 0 PROVE OneHolder' /\ Receipts'
    BY DEF Used
  <2>2. OneHolder /\ Receipts
    BY <2>1 DEF Used
  <2>3. OneHolder'
    BY <1>1, <2>2 DEF OneHolder, Holding
  <2>4. Receipts'
    BY <1>1, <2>2, ServedStay DEF Holding, TypeOK
  <2> QED
    BY <2>3, <2>4
<1> QED
  BY <1>1, <1>2, <1>3, <1>4

LEMMA FetchStep ==
  ASSUME GateInv, NEW r \in Request, FetchTx(r) \/ FetchTxFails(r) \/ FinalizeFails(r)
  PROVE  GateInv'
<1> USE DEF GateInv
<1>1. /\ pc[r] \in {"fetching", "finalizing"} /\ result[r] = "none"
      /\ UNCHANGED <<records, locks, gate, pending, negative, via, late, faults, txOf>>
  BY DEF FetchTx, FetchTxFails, FinalizeFails, TypeOK
<1>2. \/ pc' = [pc EXCEPT ![r] = "finalizing"] /\ Pays(r) /\ UNCHANGED result
      \/ /\ pc' = [pc EXCEPT ![r] = "releasing"]
         /\ \E res \in {"unpaid", "error"} : result' = [result EXCEPT ![r] = res]
  BY DEF FetchTx, FetchTxFails, FinalizeFails
<1>3. CASE pc' = [pc EXCEPT ![r] = "finalizing"] /\ Pays(r) /\ UNCHANGED result
  <2>1. result' = [result EXCEPT ![r] = result'[r]] /\ result'[r] = "none"
    BY <1>1, <1>3 DEF TypeOK
  <2> QED
    BY <1>1, <1>3, <2>1, HoldingStep DEF Holding
<1>4. CASE /\ pc' = [pc EXCEPT ![r] = "releasing"]
           /\ \E res \in {"unpaid", "error"} : result' = [result EXCEPT ![r] = res]
  <2>1. result' = [result EXCEPT ![r] = result'[r]] /\ result'[r] \in {"unpaid", "error"}
    BY <1>4 DEF TypeOK
  <2> QED
    BY <1>1, <1>4, <2>1, HoldingStep DEF Holding
<1> QED
  BY <1>2, <1>3, <1>4

\* The verification of r ends: types, owners and locks.
LEMMA Ending ==
  ASSUME GateInv, NEW r \in Request, pc[r] \in Holding \cup {"conflict"},
         NEW res \in Result \ {"none"}, Answer(r, res),
         UNCHANGED <<locks, gate, via, late, txOf>>,
         records' \in [Txid -> Record], negative' \in [Gate -> SUBSET Txid],
         faults' \in [crashes : 0 .. MaxCrashes, reads : 0 .. MaxReadErrors,
                      stuck : 0 .. MaxStuckClaims],
         \A t \in Txid : records'[t].status = "receipt" =>
           \E g \in Gate : records'[t].satoshisRequired = Price[g][records'[t].endpointKey]
  PROVE  TypeOK' /\ Owners' /\ LocksMatchClaims'
<1> USE DEF GateInv
<1>1. pc[r] \in Working
  BY DEF Working
<1>2. /\ pc' \in [Request -> Stage] /\ result' \in [Request -> Result]
      /\ pending' \in [Gate -> [Txid -> Request \cup {NoRequest}]]
      /\ Owners'
  BY <1>1, Answering
<1>3. /\ \A s \in Answered(r) : /\ s # r => pc[s] = "joined"
                                /\ pc'[s] = "answered" /\ result'[s] = res
      /\ \A s \in Request : s \notin Answered(r) => pc'[s] = pc[s] /\ result'[s] = result[s]
  <2>1. \A s \in Answered(r) : s # r => pc[s] = "joined"
    BY <1>1, Answering
  <2>2. \A s \in Answered(r) : pc'[s] = "answered" /\ result'[s] = res
    BY <1>1, Answering
  <2>3. \A s \in Request : s \notin Answered(r) => pc'[s] = pc[s] /\ result'[s] = result[s]
    BY <1>1, Answering
  <2> QED
    BY <2>1, <2>2, <2>3
<1>4. \A s \in Request :
       \/ pc'[s] = "lost" /\ result'[s] \notin {"ok", "refused"}
       \/ pc'[s] = "answered" /\ result'[s] # "none"
       \/ pc'[s] \in {"releasing", "deleting"} /\ result'[s] \in {"unpaid", "error"}
       \/ pc'[s] \in Stage \ {"lost", "answered", "releasing", "deleting"} /\ result'[s] = "none"
  BY <1>3 DEF TypeOK
<1>5. TypeOK'
  BY <1>2, <1>4 DEF TypeOK
<1>6. \A s \in Request : pc'[s] \in Locking <=> pc[s] \in Locking
  BY <1>3 DEF Locking, Holding
<1> QED
  BY <1>2, <1>5, <1>6, LocksKeep

\* It ends without success; the claim may be deleted.
LEMMA Refusing ==
  ASSUME GateInv, NEW r \in Request, pc[r] \in Holding \cup {"conflict"},
         NEW res \in Result \ {"none", "ok"}, Answer(r, res),
         UNCHANGED <<locks, gate, via, late, txOf>>, negative' \in [Gate -> SUBSET Txid],
         faults' \in [crashes : 0 .. MaxCrashes, reads : 0 .. MaxReadErrors,
                      stuck : 0 .. MaxStuckClaims],
         faults'.reads = faults.reads,
         UNCHANGED records \/ (pc[r] \in Holding /\ records' = Deleted(txOf[r]))
  PROVE  GateInv'
<1> USE DEF GateInv
<1>1. pc[r] \in Working
  BY DEF Working
<1>2. /\ txOf[r] \in Txid /\ records' \in [Txid -> Record]
      /\ \A t \in Txid : \/ records'[t] = records[t]
                         \/ t = txOf[r] /\ records'[t] = None /\ pc[r] \in Holding
  <2>1. txOf[r] \in Txid /\ records \in [Txid -> Record]
    BY PriceType DEF TypeOK
  <2>2. CASE records' = Deleted(txOf[r]) /\ pc[r] \in Holding
    BY <2>1, <2>2, RecordKinds DEF Deleted
  <2> QED
    BY <2>1, <2>2
<1>3. \A t \in Txid : records'[t].status = "receipt" => records'[t] = records[t]
  BY <1>2, RecordKinds
<1>4. TypeOK' /\ Owners' /\ LocksMatchClaims'
  <2>1. \A t \in Txid : records'[t].status = "receipt" =>
          \E g \in Gate : records'[t].satoshisRequired = Price[g][records'[t].endpointKey]
    BY <1>3 DEF TypeOK
  <2> QED
    BY <1>2, <2>1, Ending
<1>5. /\ r \in Answered(r)
      /\ \A s \in Answered(r) : s \in Request /\ pc'[s] = "answered" /\ result'[s] = res
      /\ \A s \in Request : s \notin Answered(r) => pc'[s] = pc[s] /\ result'[s] = result[s]
  BY <1>1, Answering
<1>6. Paying'
  BY <1>2, <1>3, <1>5, RecordKinds, PayingKeeps
<1>7. Used'
  <2>1. SUFFICES ASSUME faults'.reads = 0 PROVE OneHolder' /\ Receipts'
    BY DEF Used
  <2>2. OneHolder /\ Receipts
    BY <2>1 DEF Used
  <2>3. \A s \in Request : txOf[s] \in Txid
    BY PriceType
  <2>4. \A s \in Request : pc'[s] \in Holding \cup {"putting"} => s # r /\ pc'[s] = pc[s]
    BY <1>5 DEF Holding
  <2>5. ASSUME NEW s \in Request, pc'[s] \in Holding
        PROVE  pc[s] \in Holding /\ records'[txOf[s]] = Claimed
    BY <1>2, <2>2, <2>3, <2>4, <2>5 DEF OneHolder
  <2>6. ASSUME NEW s \in Request, pc'[s] = "putting" PROVE records'[txOf[s]] = None
    BY <1>2, <2>2, <2>3, <2>4, <2>6 DEF OneHolder
  <2>7. OneHolder'
    BY <2>2, <2>5, <2>6 DEF OneHolder
  <2>8. \A s \in Request : records[txOf[s]].status = "receipt" => records'[txOf[s]] = records[txOf[s]]
    BY <1>2, <2>2, <2>3, RecordKinds DEF OneHolder
  <2>9. \A s \in Request : pc'[s] = "new" => pc[s] = "new"
    BY <1>5
  <2>10. \A s \in Request : result'[s] = "ok" => result[s] = "ok"
    BY <1>5
  <2>11. Receipts'
    BY <2>2, <2>8, <2>9, <2>10, ServedStay DEF TypeOK
  <2> QED
    BY <2>7, <2>11
<1> QED
  BY <1>4, <1>6, <1>7

\* The claim was not had, and no credit stands; or it is released: kept, deleted, or
\* stuck when the store fails.
LEMMA ReleaseStep ==
  ASSUME GateInv, NEW r \in Request,
         \/ Inspect(r) /\ Answer(r, "refused")
         \/ ReleaseGet(r) \/ ReleaseDel(r) \/ ReleaseFails(r)
  PROVE  GateInv'
<1>1. CASE Inspect(r) /\ Answer(r, "refused")
  <2>1. /\ pc[r] = "conflict" /\ UNCHANGED <<records, locks, gate, negative, via, late, faults, txOf>>
        /\ "refused" \in Result \ {"none", "ok"} /\ Answer(r, "refused")
    BY <1>1 DEF Inspect, Result
  <2>2. /\ negative' \in [Gate -> SUBSET Txid] /\ faults'.reads = faults.reads
        /\ faults' \in [crashes : 0 .. MaxCrashes, reads : 0 .. MaxReadErrors,
                        stuck : 0 .. MaxStuckClaims]
    BY <2>1 DEF TypeOK, GateInv
  <2>3. pc[r] \in Holding \cup {"conflict"}
    BY <2>1
  <2> QED
    BY <2>1, <2>2, <2>3, Refusing
<1>2. CASE ReleaseGet(r) /\ records[txOf[r]] = Claimed
  <2>1. /\ pc[r] = "releasing" /\ pc' = [pc EXCEPT ![r] = "deleting"]
        /\ UNCHANGED <<records, locks, gate, pending, negative, via, result, late, faults, txOf>>
    BY <1>2 DEF ReleaseGet
  <2>2. result' = [result EXCEPT ![r] = result'[r]] /\ result'[r] \in {"unpaid", "error"}
    BY <2>1 DEF TypeOK, GateInv
  <2> QED
    BY <2>1, <2>2, HoldingStep DEF Holding
<1>3. CASE (ReleaseGet(r) /\ records[txOf[r]] # Claimed) \/ ReleaseDel(r) \/ ReleaseFails(r)
  <2>1. /\ pc[r] \in {"releasing", "deleting"} /\ Answer(r, result[r])
        /\ negative' = IF result[r] = "unpaid"
                       THEN [negative EXCEPT ![via[r]] = @ \cup {txOf[r]}] ELSE negative
        /\ UNCHANGED <<locks, gate, via, late, txOf>>
        /\ UNCHANGED records \/ records' = Deleted(txOf[r])
    BY <1>3 DEF ReleaseGet, ReleaseDel, ReleaseFails, Released
  <2>2. /\ pc[r] \in Holding /\ pc[r] \in Holding \cup {"conflict"}
        /\ result[r] \in Result \ {"none", "ok"}
    BY <2>1 DEF Holding, TypeOK, Result, GateInv
  <2>3. /\ faults' \in [crashes : 0 .. MaxCrashes, reads : 0 .. MaxReadErrors,
                        stuck : 0 .. MaxStuckClaims]
        /\ faults'.reads = faults.reads
    <3>1. CASE UNCHANGED faults
      BY <3>1 DEF TypeOK, GateInv
    <3>2. CASE faults.stuck < MaxStuckClaims /\ faults' = [faults EXCEPT !.stuck = @ + 1]
      BY <3>2, BoundAssumption DEF TypeOK, GateInv
    <3> QED
      BY <1>3, <3>1, <3>2 DEF ReleaseGet, ReleaseDel, ReleaseFails
  <2>4. negative' \in [Gate -> SUBSET Txid]
    BY <2>1, PriceType DEF TypeOK, GateInv
  <2> QED
    BY <2>1, <2>2, <2>3, <2>4, Refusing
<1> QED
  BY <1>1, <1>2, <1>3

\* A standing credit serves r and those who joined it.
LEMMA CreditStep ==
  ASSUME GateInv, NEW r \in Request, pc[r] = "conflict",
         IsCredit(records[txOf[r]], RouteOf[r], PriceOf(r)), Answer(r, "ok"),
         UNCHANGED <<records, locks, gate, negative, via, late, faults, txOf>>
  PROVE  GateInv'
<1> USE DEF GateInv
<1>1. pc[r] \in Working /\ pc[r] \in Holding \cup {"conflict"} /\ "ok" \in Result \ {"none"}
  BY DEF Working, Result
<1>2. TypeOK' /\ Owners' /\ LocksMatchClaims'
  BY <1>1, Ending DEF TypeOK
<1>3. \A s \in Answered(r) :
        /\ s \in Request /\ txOf[s] = txOf[r] /\ RouteOf[s] = RouteOf[r]
        /\ PriceOf(s) = PriceOf(r) /\ pc'[s] = "answered" /\ result'[s] = "ok"
  BY <1>1, Answering
<1>4. \A s \in Request : s \notin Answered(r) => pc'[s] = pc[s] /\ result'[s] = result[s]
  BY <1>1, Answering
<1>5. \A s \in Request : PriceOf(s)' = PriceOf(s)
  BY DEF PriceOf
<1>6. Paying'
  <2>1. PriceOf(r) <= Paid[txOf[r]]
    BY PriceType DEF IsCredit, Paying
  <2>2. \A s \in Answered(r) : Paid[txOf[s]] >= PriceOf(s)
    BY <1>3, <2>1, PriceType
  <2>3. PaidInFull'
    BY <1>4, <1>5, <2>2 DEF Paying, PaidInFull
  <2>4. \A s \in Request : pc'[s] = "finalizing" => Pays(s)'
    BY <1>3, <1>4, <1>5 DEF Paying, Pays
  <2> QED
    BY <2>3, <2>4 DEF Paying
<1>7. Used'
  <2>1. SUFFICES ASSUME faults'.reads = 0 PROVE OneHolder' /\ Receipts'
    BY DEF Used
  <2>2. OneHolder /\ Receipts
    BY <2>1 DEF Used
  <2>3. OneHolder'
    BY <1>3, <1>4, <2>2 DEF OneHolder, Holding
  <2>4. ASSUME NEW s \in Request, result'[s] = "ok" PROVE Served(s)'
    <3>1. CASE s \in Answered(r)
      BY <1>3, <1>5, <3>1 DEF Served, IsCredit
    <3>2. CASE s \notin Answered(r)
      BY <1>4, <1>5, <2>2, <2>4, <3>2 DEF Receipts, Served
    <3> QED
      BY <3>1, <3>2
  <2>5. ASSUME NEW s \in late PROVE TooLate(s)'
    <3>1. s \in Request /\ TooLate(s)
      BY <2>2 DEF Receipts, TypeOK
    <3>2. s \notin Answered(r)
      BY <1>3, <3>1 DEF TooLate
    <3> QED
      BY <1>4, <1>5, <3>1, <3>2 DEF TooLate
  <2> QED
    BY <2>3, <2>4, <2>5 DEF Receipts
<1> QED
  BY <1>2, <1>6, <1>7

\* finalizePayment writes the receipt of r and serves it and those who joined it.
LEMMA FinalizeStep == ASSUME GateInv, NEW r \in Request, FinalizePayment(r) PROVE GateInv'
<1> USE DEF GateInv
<1> DEFINE rec == Receipt(RouteOf[r], PriceOf(r), RouteOf[r] \in Aware)
<1>1. /\ pc[r] = "finalizing" /\ Answer(r, "ok")
      /\ records' = [records EXCEPT ![txOf[r]] = rec]
      /\ UNCHANGED <<locks, gate, negative, via, late, faults, txOf>>
  BY DEF FinalizePayment
<1>2. pc[r] \in Working /\ pc[r] \in Holding /\ "ok" \in Result \ {"none"}
  BY <1>1 DEF Working, Holding, Result
<1>3. /\ rec.status = "receipt" /\ rec.endpointKey = RouteOf[r]
      /\ rec.satoshisRequired = PriceOf(r)
  BY RecordKinds
<1>4. rec \in Record
  BY PriceType, InputAssumption DEF Receipt, Record
<1> HIDE DEF rec
<1>5. /\ txOf[r] \in Txid /\ records' \in [Txid -> Record] /\ records'[txOf[r]] = rec
      /\ \A t \in Txid : t # txOf[r] => records'[t] = records[t]
  BY <1>1, <1>4, PriceType DEF TypeOK
<1>6. TypeOK' /\ Owners' /\ LocksMatchClaims'
  <2>1. rec.satoshisRequired = Price[via[r]][rec.endpointKey] /\ via[r] \in Gate
    BY <1>3, PriceType DEF PriceOf
  <2>2. \A t \in Txid : records'[t].status = "receipt" =>
          \E g \in Gate : records'[t].satoshisRequired = Price[g][records'[t].endpointKey]
    BY <1>5, <2>1 DEF TypeOK
  <2>3. /\ negative' \in [Gate -> SUBSET Txid]
        /\ faults' \in [crashes : 0 .. MaxCrashes, reads : 0 .. MaxReadErrors,
                        stuck : 0 .. MaxStuckClaims]
    BY <1>1 DEF TypeOK
  <2> QED
    BY <1>1, <1>2, <1>5, <2>2, <2>3, Ending
<1>7. \A s \in Answered(r) :
        /\ s \in Request /\ txOf[s] = txOf[r] /\ RouteOf[s] = RouteOf[r]
        /\ PriceOf(s) = PriceOf(r) /\ pc'[s] = "answered" /\ result'[s] = "ok"
  BY <1>1, <1>2, Answering
<1>8. /\ \A s \in Request : s \notin Answered(r) => pc'[s] = pc[s] /\ result'[s] = result[s]
      /\ r \in Answered(r)
  BY <1>1, <1>2, Answering
<1>9. \A s \in Request : PriceOf(s)' = PriceOf(s)
  BY <1>1 DEF PriceOf
<1>10. Paying'
  <2>1. Paid[txOf[r]] >= PriceOf(r)
    BY <1>1 DEF Paying, Pays
  <2>2. \A s \in Answered(r) : Paid[txOf[s]] >= PriceOf(s)
    BY <1>7, <2>1
  <2>3. PaidInFull'
    BY <1>1, <1>8, <1>9, <2>2 DEF Paying, PaidInFull
  <2>4. \A s \in Request : pc'[s] = "finalizing" => Pays(s)'
    BY <1>1, <1>7, <1>8, <1>9 DEF Paying, Pays
  <2>5. \A t \in Txid : records'[t].status = "receipt" => records'[t].satoshisRequired <= Paid[t]
    BY <1>3, <1>5, <2>1, PriceType DEF Paying
  <2> QED
    BY <2>3, <2>4, <2>5 DEF Paying
<1>11. Used'
  <2>1. SUFFICES ASSUME faults'.reads = 0 PROVE OneHolder' /\ Receipts'
    BY DEF Used
  <2>2. OneHolder /\ Receipts
    BY <1>1, <2>1 DEF Used
  <2>3. records[txOf[r]] = Claimed
    BY <1>2, <2>2 DEF OneHolder
  <2>4. \A s \in Request : s # r /\ txOf[s] = txOf[r] => pc[s] # "putting" /\ pc[s] \notin Holding
    BY <1>2, <2>2, <2>3, RecordKinds DEF OneHolder
  <2>5. \A s \in Request : pc'[s] \in Holding \cup {"putting"} => s # r /\ pc'[s] = pc[s]
    BY <1>7, <1>8 DEF Holding
  <2>6. \A s \in Request : pc'[s] \in Holding \cup {"putting"} => records'[txOf[s]] = records[txOf[s]]
    BY <1>5, <2>4, <2>5, PriceType
  <2>7. OneHolder'
    BY <1>1, <2>2, <2>5, <2>6 DEF OneHolder
  <2>8. \A s \in Request : records[txOf[s]].status = "receipt" =>
          records'[txOf[s]] = records[txOf[s]] /\ txOf[s] # txOf[r]
    BY <1>5, <2>3, RecordKinds, PriceType
  <2>9. ASSUME NEW s \in Request, result'[s] = "ok" PROVE Served(s)'
    <3>1. CASE s \in Answered(r)
      BY <1>1, <1>3, <1>5, <1>7, <1>9, <3>1 DEF Served
    <3>2. CASE s \notin Answered(r)
      <4>1. Served(s)
        BY <1>8, <2>2, <2>9, <3>2 DEF Receipts
      <4> QED
        BY <1>1, <1>9, <2>8, <4>1 DEF Served
    <3> QED
      BY <3>1, <3>2
  <2>10. ASSUME NEW s \in late PROVE TooLate(s)'
    <3>1. s \in Request /\ TooLate(s)
      BY <2>2 DEF Receipts, TypeOK
    <3>2. txOf[s] # txOf[r] /\ records'[txOf[s]] = records[txOf[s]]
      BY <2>8, <3>1 DEF TooLate
    <3>3. s \notin Answered(r)
      BY <1>7, <3>2
    <3> QED
      BY <1>1, <1>8, <1>9, <3>1, <3>2, <3>3 DEF TooLate
  <2> QED
    BY <1>1, <2>7, <2>9, <2>10 DEF Receipts
<1> QED
  BY <1>6, <1>10, <1>11

------------------------------------------------------------------------------
(* PaymentGate: around the gate.                                           *)

\* A request comes: it is refused, joins the verification under way, or starts one.
LEMMA CheckStep == ASSUME GateInv, NEW r \in Request, CheckPayment(r) PROVE GateInv'
<1> USE DEF GateInv
<1> DEFINE t == txOf[r]
           owner == pending[gate][t]
<1>1. /\ pc[r] = "new" /\ result[r] = "none" /\ r # NoRequest
      /\ via' = [via EXCEPT ![r] = gate] /\ UNCHANGED <<records, gate, negative, faults, txOf>>
      /\ late' = IF UsedUp(r) THEN late \cup {r} ELSE late
  BY InputAssumption DEF CheckPayment, TypeOK
<1>2. /\ t \in Txid /\ gate \in Gate /\ owner \in Request \cup {NoRequest}
      /\ via' \in [Request -> Gate] /\ via'[r] = gate
      /\ \A s \in Request : s # r => via'[s] = via[s]
  BY <1>1, PriceType DEF TypeOK
<1>3. PICK st \in {"answered", "joined", "claiming", "conflict"} :
        /\ pc' = [pc EXCEPT ![r] = st]
        /\ result' = [result EXCEPT ![r] = IF st = "answered" THEN "refused" ELSE "none"]
        /\ st \in {"answered", "joined"} => UNCHANGED <<pending, locks>>
        /\ st = "joined" => owner # NoRequest /\ Joins(r, owner)
        /\ st \in {"claiming", "conflict"} =>
             /\ owner = NoRequest /\ pending' = [pending EXCEPT ![gate][t] = r]
             /\ locks' = locks \cup {t} /\ (st = "conflict" <=> t \in locks)
  <2>1. result = [result EXCEPT ![r] = "none"]
    BY <1>1 DEF TypeOK
  <2>2. CASE Refuse(r) /\ UNCHANGED <<pending, locks>>
    BY <2>2 DEF Refuse
  <2>3. CASE Proceed(r, "joined") /\ owner # NoRequest /\ Joins(r, owner)
             /\ UNCHANGED <<pending, locks>>
    BY <2>1, <2>3 DEF Proceed
  <2>4. CASE /\ owner = NoRequest /\ pending' = [pending EXCEPT ![gate][t] = r]
             /\ locks' = locks \cup {t}
             /\ Proceed(r, IF t \in locks THEN "conflict" ELSE "claiming")
    BY <2>1, <2>4 DEF Proceed
  <2> QED
    BY <2>2, <2>3, <2>4 DEF CheckPayment
<1> HIDE DEF t, owner
<1>4. /\ pc' \in [Request -> Stage] /\ result' \in [Request -> Result]
      /\ pc'[r] = st /\ result'[r] = IF st = "answered" THEN "refused" ELSE "none"
      /\ \A s \in Request : s # r => pc'[s] = pc[s] /\ result'[s] = result[s]
  BY <1>3 DEF TypeOK, Stage, Result
<1>5. /\ pending' \in [Gate -> [Txid -> Request \cup {NoRequest}]]
      /\ \A g \in Gate, u \in Txid :
           pending'[g][u] = IF g = gate /\ u = t /\ st \in {"claiming", "conflict"}
                            THEN r ELSE pending[g][u]
  <2>1. CASE st \in {"answered", "joined"}
    BY <1>3, <2>1 DEF TypeOK
  <2>2. CASE st \in {"claiming", "conflict"}
    <3>1. /\ pending \in [Gate -> [Txid -> Request \cup {NoRequest}]]
          /\ pending' = [pending EXCEPT ![gate][t] = r]
      BY <1>3, <2>2 DEF TypeOK
    <3>2. \A g \in Gate : \A u \in Txid :
            pending'[g][u] = IF g = gate /\ u = t THEN r ELSE pending[g][u]
      BY <1>2, <3>1
    <3>3. pending' \in [Gate -> [Txid -> Request \cup {NoRequest}]]
      BY <1>2, <3>1
    <3> QED
      BY <2>2, <3>2, <3>3
  <2> QED
    BY <2>1, <2>2
<1>6. TypeOK'
  <2>1. \A s \in Request :
       \/ pc'[s] = "lost" /\ result'[s] \notin {"ok", "refused"}
       \/ pc'[s] = "answered" /\ result'[s] # "none"
       \/ pc'[s] \in {"releasing", "deleting"} /\ result'[s] \in {"unpaid", "error"}
       \/ pc'[s] \in Stage \ {"lost", "answered", "releasing", "deleting"} /\ result'[s] = "none"
    BY <1>4 DEF TypeOK, Stage
  <2>2. locks' \subseteq Txid /\ late' \subseteq Request
    BY <1>1, <1>2, <1>3 DEF TypeOK
  <2> QED
    BY <1>1, <1>2, <1>4, <1>5, <2>1, <2>2 DEF TypeOK
<1>7. Owners'
  <2>1. ASSUME NEW s \in Request, pc'[s] \in Working PROVE pending'[via'[s]][txOf'[s]] = s
    <3>1. CASE s = r
      BY <1>1, <1>2, <1>4, <1>5, <2>1, <3>1 DEF Working, Locking, Holding, t
    <3>2. CASE s # r
      <4>1. pending[via[s]][txOf[s]] = s /\ s # NoRequest /\ via[s] \in Gate /\ txOf[s] \in Txid
        BY <1>4, <2>1, <3>2, InputAssumption, PriceType DEF Owners
      <4>2. ~(via[s] = gate /\ txOf[s] = t /\ st \in {"claiming", "conflict"})
        BY <1>3, <4>1 DEF owner
      <4> QED
        BY <1>1, <1>2, <1>5, <3>2, <4>1, <4>2
    <3> QED
      BY <3>1, <3>2
  <2>2. ASSUME NEW g \in Gate, NEW u \in Txid, pending'[g][u] # NoRequest
        PROVE  LET o == pending'[g][u] IN pc'[o] \in Working /\ via'[o] = g /\ txOf'[o] = u
    <3>1. CASE g = gate /\ u = t /\ st \in {"claiming", "conflict"}
      BY <1>1, <1>2, <1>4, <1>5, <3>1 DEF Working, Locking, t
    <3>2. CASE ~(g = gate /\ u = t /\ st \in {"claiming", "conflict"})
      <4> DEFINE o == pending[g][u]
      <4>1. pending'[g][u] = o /\ o \in Request
        BY <1>5, <2>2, <3>2 DEF TypeOK
      <4>2. pc[o] \in Working /\ via[o] = g /\ txOf[o] = u
        BY <2>2, <4>1 DEF Owners
      <4>3. o # r
        BY <1>1, <4>2 DEF Working, Locking, Holding
      <4> QED
        BY <1>1, <1>2, <1>4, <4>1, <4>2, <4>3
    <3> QED
      BY <3>1, <3>2
  <2>3. ASSUME NEW s \in Request, pc'[s] = "joined"
        PROVE  LET o == pending'[via'[s]][txOf'[s]] IN o # NoRequest /\ RouteOf[o] = RouteOf[s]
    <3>1. CASE s = r
      BY <1>1, <1>2, <1>3, <1>4, <1>5, <2>3, <3>1 DEF Joins, t, owner
    <3>2. CASE s # r
      <4>1. LET o == pending[via[s]][txOf[s]] IN o # NoRequest /\ RouteOf[o] = RouteOf[s]
        BY <1>4, <2>3, <3>2 DEF Owners
      <4>2. ~(via[s] = gate /\ txOf[s] = t /\ st \in {"claiming", "conflict"})
        BY <1>3, <4>1 DEF owner
      <4> QED
        BY <1>1, <1>2, <1>5, <3>2, <4>1, <4>2, PriceType
    <3> QED
      BY <3>1, <3>2
  <2> QED
    BY <2>1, <2>2, <2>3 DEF Owners
<1>8. LocksMatchClaims'
  <2>1. CASE st = "claiming"
    BY <1>1, <1>3, <1>4, <2>1 DEF LocksMatchClaims, t
  <2>2. CASE st = "conflict"
    <3>1. locks' = locks
      BY <1>3, <2>2
    <3>2. \A s \in Request : pc'[s] \in Locking <=> pc[s] \in Locking
      BY <1>1, <1>4, <2>2 DEF Locking
    <3> QED
      BY <1>1, <3>1, <3>2, LocksKeep
  <2>3. CASE st \in {"answered", "joined"}
    BY <1>1, <1>3, <1>4, <2>3, LocksKeep DEF Locking
  <2> QED
    BY <2>1, <2>2, <2>3
<1>9. \A s \in Request : s # r => PriceOf(s)' = PriceOf(s)
  BY <1>2 DEF PriceOf
<1>10. PriceOf(r)' = Price[gate][RouteOf[r]]
  BY <1>2 DEF PriceOf
<1>11. Paying'
  BY <1>1, <1>4, <1>9 DEF Paying, PaidInFull, Pays
<1>12. Used'
  <2>1. SUFFICES ASSUME faults'.reads = 0 PROVE OneHolder' /\ Receipts'
    BY DEF Used
  <2>2. OneHolder /\ Receipts
    BY <1>1, <2>1 DEF Used
  <2>3. OneHolder'
    BY <1>1, <1>4, <2>2 DEF OneHolder, Holding
  <2>4. ASSUME NEW s \in Request, result'[s] = "ok" PROVE Served(s)'
    <3>1. s # r /\ Served(s)
      BY <1>4, <2>2, <2>4 DEF Receipts
    <3> QED
      BY <1>1, <1>9, <3>1 DEF Served
  <2>5. ASSUME NEW s \in late' PROVE TooLate(s)'
    <3>1. CASE s \in late /\ s # r
      <4>1. TooLate(s) /\ s \in Request
        BY <2>2, <3>1 DEF Receipts, TypeOK
      <4> QED
        BY <1>1, <1>4, <1>9, <3>1, <4>1 DEF TooLate
    <3>2. CASE s = r
      <4>1. r \notin late
        BY <1>1, <2>2 DEF Receipts, TooLate
      <4>2. UsedUp(r)
        BY <1>1, <2>5, <3>2, <4>1
      <4>3. PICK x \in Request : txOf[x] = txOf[r] /\ result[x] = "ok"
        BY <4>2 DEF UsedUp
      <4>4. records[txOf[r]].status = "receipt"
        BY <2>2, <4>3 DEF Receipts, Served
      <4>5. ~IsCredit(records[txOf[r]], RouteOf[r], Price[gate][RouteOf[r]])
        BY <4>2 DEF UsedUp
      <4> QED
        BY <1>1, <1>4, <1>10, <3>2, <4>4, <4>5 DEF TooLate
    <3> QED
      BY <1>1, <2>5, <3>1, <3>2
  <2> QED
    BY <2>3, <2>4, <2>5 DEF Receipts
<1> QED
  BY <1>6, <1>7, <1>8, <1>11, <1>12

\* A crash loses what was under way and maybe some claims, and no receipt.
LEMMA CrashStep == ASSUME GateInv, CrashAndRestart PROVE GateInv'
<1> USE DEF GateInv
<1>1. /\ locks' = {} /\ UNCHANGED <<gate, via, result, late, txOf>>
      /\ \A g \in Gate, t \in Txid : pending'[g][t] = NoRequest
      /\ pending' \in [Gate -> [Txid -> Request \cup {NoRequest}]]
      /\ negative' \in [Gate -> SUBSET Txid]
  BY DEF CrashAndRestart
<1>2. \A s \in Request : pc'[s] = IF pc[s] \in {"new", "answered"} THEN pc[s] ELSE "lost"
  BY DEF CrashAndRestart
<1>3. PICK stale \in SUBSET {t \in Txid : records[t] = Claimed} :
        records' = [t \in Txid |-> IF t \in stale THEN None ELSE records[t]]
  BY DEF CrashAndRestart
<1>4. /\ records' \in [Txid -> Record]
      /\ \A t \in Txid : records[t].status = "receipt" => records'[t] = records[t]
      /\ \A t \in Txid : records'[t].status = "receipt" => records'[t] = records[t]
  BY <1>3, RecordKinds DEF TypeOK
<1>5. /\ faults' \in [crashes : 0 .. MaxCrashes, reads : 0 .. MaxReadErrors,
                      stuck : 0 .. MaxStuckClaims]
      /\ faults'.reads = faults.reads
  <2>1. faults.crashes < MaxCrashes /\ faults' = [faults EXCEPT !.crashes = @ + 1]
    BY DEF CrashAndRestart
  <2>2. faults \in [crashes : 0 .. MaxCrashes, reads : 0 .. MaxReadErrors,
                   stuck : 0 .. MaxStuckClaims]
    BY DEF TypeOK
  <2> QED
    BY <2>1, <2>2, BoundAssumption
<1>6. TypeOK'
  <2>1. pc' \in [Request -> Stage]
    BY DEF CrashAndRestart, TypeOK, Stage
  <2>2. \A s \in Request :
       \/ pc'[s] = "lost" /\ result'[s] \notin {"ok", "refused"}
       \/ pc'[s] = "answered" /\ result'[s] # "none"
       \/ pc'[s] \in {"releasing", "deleting"} /\ result'[s] \in {"unpaid", "error"}
       \/ pc'[s] \in Stage \ {"lost", "answered", "releasing", "deleting"} /\ result'[s] = "none"
    BY <1>1, <1>2 DEF TypeOK, Stage
  <2>3. \A t \in Txid : records'[t].status = "receipt" =>
          \E g \in Gate : records'[t].satoshisRequired = Price[g][records'[t].endpointKey]
    BY <1>4 DEF TypeOK
  <2> QED
    BY <1>1, <1>4, <1>5, <2>1, <2>2, <2>3 DEF TypeOK
<1>7. Owners'
  BY <1>1, <1>2, <1>6, PriceType DEF Owners, Working, Locking, Holding
<1>8. LocksMatchClaims'
  BY <1>1, <1>2 DEF LocksMatchClaims
<1>9. Paying'
  BY <1>1, <1>2, <1>4 DEF Paying, PaidInFull, PriceOf
<1>10. Used'
  <2>1. SUFFICES ASSUME faults'.reads = 0 PROVE OneHolder' /\ Receipts'
    BY DEF Used
  <2>2. OneHolder'
    BY <1>2 DEF OneHolder, Holding
  <2>3. Receipts
    BY <1>5, <2>1 DEF Used
  <2>4. /\ \A s \in Request : pc'[s] = "new" => pc[s] = "new"
        /\ \A s \in Request : result'[s] = "ok" => result[s] = "ok"
        /\ \A s \in Request :
             records[txOf[s]].status = "receipt" => records'[txOf[s]] = records[txOf[s]]
    BY <1>1, <1>2, <1>4, PriceType
  <2>5. Receipts'
    BY <1>1, <2>3, <2>4, ServedStay DEF TypeOK
  <2> QED
    BY <2>2, <2>5
<1> QED
  BY <1>6, <1>7, <1>8, <1>9, <1>10

\* A delivered answer uses its credit up.
LEMMA FulfilledStep == ASSUME GateInv, NEW t \in Txid, MarkFulfilled(t) PROVE GateInv'
<1> USE DEF GateInv
<1> DEFINE y == [records[t] EXCEPT !.credit = FALSE]
<1>1. /\ records[t] \in Record /\ records[t].status = "receipt"
      /\ records' = [records EXCEPT ![t] = y]
      /\ UNCHANGED <<locks, gate, pending, negative, pc, via, result, late, faults, txOf>>
  BY DEF MarkFulfilled, TypeOK
<1>2. /\ records[t] # None /\ records[t] # Claimed /\ y \in Record
      /\ y.status = "receipt" /\ ~y.credit /\ y.endpointKey = records[t].endpointKey
      /\ y.satoshisRequired = records[t].satoshisRequired
  BY <1>1, ReceiptFacts
<1> HIDE DEF y
<1>3. /\ records' \in [Txid -> Record] /\ records'[t] = y
      /\ \A u \in Txid : u # t => records'[u] = records[u]
  BY <1>1, <1>2 DEF TypeOK
<1>4. \A u \in Txid :
        /\ records'[u].status = "receipt" <=> records[u].status = "receipt"
        /\ records[u].status = "receipt" =>
             /\ records'[u].endpointKey = records[u].endpointKey
             /\ records'[u].satoshisRequired = records[u].satoshisRequired
             /\ records'[u].credit => records[u].credit
  BY <1>1, <1>2, <1>3
<1>5. TypeOK' /\ Owners' /\ LocksMatchClaims'
  <2>1. \A u \in Txid : records'[u].status = "receipt" =>
          \E g \in Gate : records'[u].satoshisRequired = Price[g][records'[u].endpointKey]
    BY <1>4 DEF TypeOK
  <2>2. TypeOK'
    BY <1>1, <1>3, <2>1 DEF TypeOK
  <2> QED
    BY <1>1, <2>2 DEF Owners, LocksMatchClaims
<1>6. Paying'
  BY <1>1, <1>4 DEF Paying, PaidInFull, Pays, PriceOf
<1>7. Used'
  <2>1. SUFFICES ASSUME faults'.reads = 0 PROVE OneHolder' /\ Receipts'
    BY DEF Used
  <2>2. OneHolder /\ Receipts
    BY <1>1, <2>1 DEF Used
  <2>3. OneHolder'
    BY <1>1, <1>2, <1>3, <2>2, PriceType DEF OneHolder
  <2>4. \A s \in Request : txOf[s] \in Txid
    BY PriceType
  <2>5. \A s \in Request : Served(s) => Served(s)'
    BY <1>1, <1>4, <2>4 DEF Served, PriceOf
  <2>6. \A s \in Request : TooLate(s) => TooLate(s)'
    BY <1>1, <1>4, <2>4 DEF TooLate, PriceOf, IsCredit
  <2>7. Receipts'
    BY <1>1, <2>2, <2>5, <2>6 DEF Receipts, TypeOK
  <2> QED
    BY <2>3, <2>7
<1> QED
  BY <1>5, <1>6, <1>7

\* A negative entry goes, or a new gate comes: no verification is concerned.
LEMMA AroundStep ==
  ASSUME GateInv,
         (\E g \in Gate, t \in Txid : ForgetNegative(g, t)) \/ ReplaceGate \/ UNCHANGED vars
  PROVE  GateInv'
<1> USE DEF GateInv
<1>1. UNCHANGED <<records, locks, pending, pc, via, result, late, faults, txOf>>
  BY DEF ForgetNegative, ReplaceGate, vars
<1>2. gate' \in Gate
  BY PriceAssumption DEF ForgetNegative, ReplaceGate, vars, TypeOK, Gate
<1>3. negative' \in [Gate -> SUBSET Txid]
  BY DEF ForgetNegative, ReplaceGate, vars, TypeOK
<1>4. TypeOK'
  BY <1>1, <1>2, <1>3 DEF TypeOK
<1>5. Owners' /\ LocksMatchClaims' /\ Paying'
  BY <1>1 DEF Owners, LocksMatchClaims, Paying, PaidInFull, Pays, PriceOf
<1>6. Used'
  BY <1>1 DEF Used, OneHolder, Receipts, Served, TooLate, PriceOf
<1> QED
  BY <1>4, <1>5, <1>6

\* The invariant is inductive.
LEMMA GateStep == GateInv /\ [Next]_vars => GateInv'
<1> SUFFICES ASSUME GateInv, [Next]_vars PROVE GateInv'
  OBVIOUS
<1>1. ASSUME NEW r \in Request, Inspect(r) PROVE GateInv'
  <2>1. CASE Answer(r, "refused")
    BY <1>1, <2>1, ReleaseStep
  <2>2. CASE IsCredit(records[txOf[r]], RouteOf[r], PriceOf(r)) /\ Answer(r, "ok")
    BY <1>1, <2>2, CreditStep DEF Inspect
  <2> QED
    BY <1>1, <2>1, <2>2 DEF Inspect
<1> QED
  BY <1>1, CheckStep, ClaimGetStep, ClaimPutStep, ClaimPutFailsStep, FetchStep, FinalizeStep,
     ReleaseStep, FulfilledStep, AroundStep, CrashStep DEF Next

------------------------------------------------------------------------------
(* PaymentGate: what it gives.                                             *)

\* The invariant of every behaviour.
LEMMA GateInvariant == Spec => []GateInv
BY GateInit, GateStep, PTL DEF Spec

\* The types of the gate and of its records, and the critical section of claimTxid
\* (persistent-store.js:872-890): one request between the read and the write.
THEOREM GateClaimsConsistent == Spec => []ClaimsConsistent
<1>1. GateInv => ClaimsConsistent
  BY DEF GateInv, ClaimsConsistent
<1> QED
  BY <1>1, GateInvariant, PTL

\* Nobody is served for less than the price it was quoted, with failed reads too
\* (x402-middleware.js).
THEOREM GatePaidInFull == Spec => []PaidInFull
<1>1. GateInv => PaidInFull
  BY DEF GateInv, Paying
<1> QED
  BY <1>1, GateInvariant, PTL

\* A payment buys the answers of one route at one price, and whoever comes after them
\* is refused, if no read of the store failed (x402-middleware.js:270).
THEOREM GatePaymentUsedOnce == Spec => []PaymentUsedOnce
<1>1. GateInv => PaymentUsedOnce
  BY DEF GateInv, Used, Receipts, Served, TooLate, PaymentUsedOnce, OneRoutePerPayment,
     ReplayRefused
<1> QED
  BY <1>1, GateInvariant, PTL

\* finalizePayment: the "key is NEVER deleted after this" (persistent-store.js:905),
\* nor turned into another receipt, nor is a used credit given back, if no read failed.
ReceiptPermanent ==
  [][\A t \in Txid : records[t].status = "receipt" /\ faults.reads = 0 =>
       \/ records'[t] = records[t]
       \/ records'[t] = [records[t] EXCEPT !.credit = FALSE]]_vars

\* A receipt is never deleted, nor changed but for its credit that is used up, if no
\* read failed (persistent-store.js:905).
THEOREM GateReceiptPermanent == Spec => ReceiptPermanent
<1> DEFINE Kept == \A t \in Txid : records[t].status = "receipt" /\ faults.reads = 0 =>
                     \/ records'[t] = records[t]
                     \/ records'[t] = [records[t] EXCEPT !.credit = FALSE]
<1>1. GateInv /\ [Next]_vars => [Kept]_vars
  <2>1. SUFFICES ASSUME GateInv, Next, NEW t \in Txid, records[t].status = "receipt",
                        faults.reads = 0
                 PROVE  \/ records'[t] = records[t]
                        \/ records'[t] = [records[t] EXCEPT !.credit = FALSE]
    OBVIOUS
  <2>2. /\ records \in [Txid -> Record] /\ OneHolder
        /\ records[t] # None /\ records[t] # Claimed
    BY <2>1, RecordKinds DEF GateInv, TypeOK, Used
  <2>3. ASSUME NEW r \in Request, NEW x, pc[r] = "putting" \/ pc[r] \in Holding,
               records' = [records EXCEPT ![txOf[r]] = x]
        PROVE  records'[t] = records[t]
    <3>1. txOf[r] # t
      BY <2>2, <2>3 DEF OneHolder
    <3> QED
      BY <2>2, <2>3, <3>1
  <2>4. CASE \E r \in Request : ClaimPut(r) \/ FinalizePayment(r) \/ ReleaseDel(r)
    BY <2>3, <2>4 DEF ClaimPut, FinalizePayment, ReleaseDel, Deleted, Holding
  <2>5. CASE \E u \in Txid : MarkFulfilled(u)
    BY <2>2, <2>5 DEF MarkFulfilled
  <2>6. CASE CrashAndRestart
    <3>1. PICK stale \in SUBSET {u \in Txid : records[u] = Claimed} :
            records' = [u \in Txid |-> IF u \in stale THEN None ELSE records[u]]
      BY <2>6 DEF CrashAndRestart
    <3> QED
      BY <2>2, <3>1
  <2>7. CASE UNCHANGED records
    BY <2>7
  <2> QED
    BY <2>1, <2>4, <2>5, <2>6, <2>7 DEF Next, CheckPayment, ClaimGet, ClaimGetFails,
       ClaimPutFails, Inspect, FetchTx, FetchTxFails, FinalizeFails, ReleaseGet, ReleaseFails,
       ForgetNegative, ReplaceGate
<1>2. Spec => [][Kept]_vars
  BY <1>1, GateInvariant, PTL DEF Spec
<1> QED
  BY <1>2 DEF ReceiptPermanent
------------------------------------------------------------------------------
(* PaymentGate: the gate implements the ledger.                            *)

\* What the gate does that the ledger does not see.
Unseen == UNCHANGED <<Accounts, Answers, Reliable>>

\* The accounts that the records stand for.
LEMMA AccountKinds ==
  /\ Account(None) = Ledger!Free /\ Account(Claimed) = Ledger!Held
  /\ \A k, p, c : Account(Receipt(k, p, c)) = Ledger!Sold(<<k, p>>, c)
  /\ \A x : x.status = "receipt" =>
       Account(x) = Ledger!Sold(<<x.endpointKey, x.satoshisRequired>>, x.credit)
BY DEF Account, None, Claimed, Receipt, Ledger!Free, Ledger!Held, Ledger!Sold

\* A record changes, and its account with it.
LEMMA AccountMoves ==
  ASSUME GateInv, NEW t \in Txid, NEW x, records' = [records EXCEPT ![t] = x]
  PROVE  Accounts' = [Accounts EXCEPT ![t] = Account(x)]
BY DEF Accounts, GateInv, TypeOK

\* Nobody is served, and who was served keeps the gate it came to.
LEMMA AnswersStay ==
  ASSUME GateInv, UNCHANGED txOf,
         \A s \in Request : result'[s] = "ok" <=> result[s] = "ok",
         \A s \in Request : result[s] = "ok" => via'[s] = via[s]
  PROVE  Answers' = Answers
<1> DEFINE S == {s \in Request : result[s] = "ok"}
<1>1. S' = S /\ \A r \in S : AnswerTo(r)' = AnswerTo(r)
  BY DEF AnswerTo, PriceOf
<1>2. Answers = {AnswerTo(r) : r \in S} /\ Answers' = {AnswerTo(r)' : r \in S'}
  BY DEF Answers
<1> QED
  BY <1>1, <1>2

\* Records, verdicts and names stay as they are, and no read fails.
LEMMA NothingSeen ==
  ASSUME GateInv, UNCHANGED <<records, txOf>>, faults'.reads = faults.reads,
         \A s \in Request : result'[s] = "ok" <=> result[s] = "ok",
         \A s \in Request : result[s] = "ok" => via'[s] = via[s]
  PROVE  Unseen
BY AnswersStay DEF Unseen, Accounts, Reliable

\* A verification ends without success: nobody is served.
LEMMA Refused ==
  ASSUME GateInv, NEW r \in Request, pc[r] \in Working, NEW res \in Result \ {"none", "ok"},
         Answer(r, res), UNCHANGED <<txOf, via>>
  PROVE  Answers' = Answers
<1>1. \A s \in Answered(r) : s \in Request /\ result'[s] = res /\ (s # r => pc[s] = "joined")
  BY Answering
<1>2. \A s \in Request : s \notin Answered(r) => result'[s] = result[s]
  BY Answering
<1>3. \A s \in Answered(r) : result[s] # "ok"
  BY <1>1 DEF GateInv, TypeOK, Working, Locking, Holding
<1>4. \A s \in Request : result'[s] = "ok" <=> result[s] = "ok"
  BY <1>1, <1>2, <1>3
<1> QED
  BY <1>4, AnswersStay

\* A verification ends well: r and those who joined it had no answer, and get one for the
\* payment and the quote of r.
LEMMA Serving ==
  ASSUME GateInv, NEW r \in Request, pc[r] \in Working, Answer(r, "ok"),
         UNCHANGED <<txOf, via>>
  PROVE  \E group \in (SUBSET Request) \ {{}} :
           Ledger!Serve(group, txOf[r], <<RouteOf[r], PriceOf(r)>>)
<1> DEFINE G == Answered(r)
           S == {s \in Request : result[s] = "ok"}
           q == <<RouteOf[r], PriceOf(r)>>
<1>0. "ok" \in Result \ {"none"}
  BY DEF Result
<1>1. /\ r \in G
      /\ \A s \in G : /\ s \in Request /\ txOf[s] = txOf[r] /\ RouteOf[s] = RouteOf[r]
                      /\ PriceOf(s) = PriceOf(r) /\ result'[s] = "ok"
                      /\ s # r => pc[s] = "joined"
      /\ \A s \in Request : s \notin G => result'[s] = result[s]
  BY <1>0, Answering
<1> HIDE DEF G
<1>2. \A s \in G : result[s] # "ok"
  BY <1>1 DEF GateInv, TypeOK, Working, Locking, Holding
<1>3. \A a \in Answers : a.client \notin G
  BY <1>2 DEF Answers, AnswerTo
<1>4. S' = S \cup G
  BY <1>1
<1>5. \A s \in Request : AnswerTo(s)' = AnswerTo(s)
  BY DEF AnswerTo, PriceOf
<1>6. \A s \in G : AnswerTo(s) = [client |-> s, payment |-> txOf[r], quote |-> q]
  BY <1>1 DEF AnswerTo
<1>7. Answers = {AnswerTo(s) : s \in S} /\ Answers' = {AnswerTo(s)' : s \in S'}
  BY DEF Answers
<1>8. G \subseteq Request /\ S \subseteq Request
  BY <1>1
<1>9. Answers' = {AnswerTo(s) : s \in S \cup G}
  BY <1>4, <1>5, <1>7, <1>8
<1>10. {AnswerTo(s) : s \in G} = {[client |-> c, payment |-> txOf[r], quote |-> q] : c \in G}
  BY <1>6
<1>11. Answers' = Answers \cup {[client |-> c, payment |-> txOf[r], quote |-> q] : c \in G}
  BY <1>7, <1>9, <1>10
<1> HIDE DEF q
<1>12. Ledger!Serve(G, txOf[r], q)
  BY <1>3, <1>11 DEF Ledger!Serve
<1>13. G \in (SUBSET Request) \ {{}}
  BY <1>1, <1>8
<1> QED
  BY <1>12, <1>13 DEF q

\* claimTxid holds the payment; a read that fails costs the ledger its certainty.
LEMMA LedgerClaims ==
  ASSUME GateInv, NEW r \in Request,
         ClaimGet(r) \/ ClaimGetFails(r) \/ ClaimPut(r) \/ ClaimPutFails(r)
  PROVE  Ledger!Next \/ Unseen
<1>1. CASE ClaimGet(r) \/ ClaimPutFails(r)
  BY <1>1, NothingSeen DEF ClaimGet, ClaimPutFails
<1>2. CASE ClaimGetFails(r)
  <2>1. UNCHANGED <<records, txOf, via, result>> /\ Reliable' = FALSE
    BY <1>2 DEF ClaimGetFails, Reliable, GateInv, TypeOK
  <2>2. UNCHANGED <<Accounts, Answers>>
    BY <2>1, AnswersStay DEF Accounts
  <2> QED
    BY <2>1, <2>2 DEF Ledger!Next, Ledger!Fail
<1>3. CASE ClaimPut(r)
  <2>1. /\ pc[r] = "putting" /\ records' = [records EXCEPT ![txOf[r]] = Claimed]
        /\ UNCHANGED <<txOf, via, result, faults>> /\ txOf[r] \in Txid
    BY <1>3, PriceType DEF ClaimPut, GateInv
  <2>2. Accounts' = [Accounts EXCEPT ![txOf[r]] = Ledger!Held]
    BY <2>1, AccountMoves, AccountKinds
  <2>3. Answers' = Answers /\ Reliable' = Reliable
    BY <2>1, AnswersStay DEF Reliable
  <2>4. Accounts[txOf[r]] = Ledger!Free \/ ~Reliable
    BY <2>1, AccountKinds DEF Accounts, Reliable, GateInv, Used, OneHolder
  <2>5. Ledger!Hold(txOf[r])
    BY <2>2, <2>3, <2>4 DEF Ledger!Hold, Ledger!Passes
  <2> QED
    BY <2>1, <2>5 DEF Ledger!Next
<1> QED
  BY <1>1, <1>2, <1>3

\* The payment is sold for the quote of the request that verified it.
LEMMA LedgerSells ==
  ASSUME GateInv, NEW r \in Request, FinalizePayment(r)
  PROVE  Ledger!Next
<1> DEFINE t == txOf[r]
           q == <<RouteOf[r], PriceOf(r)>>
           credit == RouteOf[r] \in Aware
<1>1. /\ pc[r] = "finalizing" /\ Answer(r, "ok") /\ t \in Txid
      /\ records' = [records EXCEPT ![t] = Receipt(RouteOf[r], PriceOf(r), credit)]
      /\ UNCHANGED <<txOf, via, faults>>
  BY PriceType DEF FinalizePayment, GateInv
<1>2. Accounts' = [Accounts EXCEPT ![t] = Ledger!Sold(q, credit)]
  <2> DEFINE rec == Receipt(RouteOf[r], PriceOf(r), credit)
  <2>1. Account(rec) = Ledger!Sold(q, credit)
    BY AccountKinds
  <2> HIDE DEF rec
  <2>2. records' = [records EXCEPT ![t] = rec] /\ t \in Txid
    BY <1>1 DEF rec
  <2>3. Accounts' = [Accounts EXCEPT ![t] = Account(rec)]
    BY <2>2, AccountMoves
  <2> QED
    BY <2>1, <2>3
<1>3. Accounts[t] = Ledger!Held \/ ~Reliable
  BY <1>1, AccountKinds DEF Accounts, Reliable, GateInv, Used, OneHolder, Holding
<1>4. Paid[t] >= q[2]
  BY <1>1 DEF GateInv, Paying, Pays
<1>5. \E group \in (SUBSET Request) \ {{}} : Ledger!Serve(group, t, q)
  BY <1>1, Serving DEF Working, Holding
<1>6. Reliable' = Reliable
  BY <1>1 DEF Reliable
<1>7. credit \in BOOLEAN
  OBVIOUS
<1>8. q \in {<<k, Price[g][k]>> : g \in Gate, k \in Route}
  BY PriceType, InputAssumption DEF PriceOf, GateInv
<1> HIDE DEF t, q, credit
<1>9. Ledger!Sell(t, q)
  BY <1>2, <1>3, <1>4, <1>5, <1>6, <1>7 DEF Ledger!Sell, Ledger!Passes
<1> QED
  BY <1>1, <1>8, <1>9 DEF Ledger!Next

\* After a conflict a standing credit serves, anything else is refused.
LEMMA LedgerRedeems ==
  ASSUME GateInv, NEW r \in Request, Inspect(r)
  PROVE  Ledger!Next \/ Unseen
<1> DEFINE t == txOf[r]
           rec == records[t]
<1>1. /\ pc[r] = "conflict" /\ t \in Txid
      /\ UNCHANGED <<records, txOf, via, faults>>
  BY PriceType DEF Inspect, GateInv
<1>2. UNCHANGED <<Accounts, Reliable>>
  BY <1>1 DEF Accounts, Reliable
<1>3. CASE Answer(r, "refused")
  <2>1. Answers' = Answers
    BY <1>1, <1>3, Refused DEF Working, Result
  <2> QED
    BY <1>2, <2>1 DEF Unseen
<1>4. CASE IsCredit(rec, RouteOf[r], PriceOf(r)) /\ Answer(r, "ok")
  <2>1. Accounts[t] = Ledger!Sold(<<RouteOf[r], PriceOf(r)>>, TRUE)
    <3>1. rec.status = "receipt" /\ rec.credit /\ rec \in Record
          /\ rec.endpointKey = RouteOf[r] /\ rec.satoshisRequired = PriceOf(r)
      BY <1>1, <1>4 DEF IsCredit, GateInv, TypeOK
    <3>2. rec.credit = TRUE
      BY <3>1, RecordKinds DEF Record
    <3> QED
      BY <1>1, <3>1, <3>2, AccountKinds DEF Accounts
  <2>2. \E group \in (SUBSET Request) \ {{}} :
          Ledger!Serve(group, t, <<RouteOf[r], PriceOf(r)>>)
    BY <1>1, <1>4, Serving DEF Working
  <2>3. Ledger!Redeem(t)
    BY <1>2, <2>1, <2>2 DEF Ledger!Redeem, Ledger!Sold
  <2> QED
    BY <1>1, <2>3 DEF Ledger!Next
<1> QED
  BY <1>3, <1>4 DEF Inspect

\* A claim that is released is given back, also when an error swallows the release.
LEMMA LedgerReleases ==
  ASSUME GateInv, NEW r \in Request, ReleaseGet(r) \/ ReleaseDel(r) \/ ReleaseFails(r)
  PROVE  Ledger!Next \/ Unseen
<1> DEFINE t == txOf[r]
<1>1. /\ pc[r] \in {"releasing", "deleting"} /\ t \in Txid
      /\ UNCHANGED <<txOf, via>> /\ faults'.reads = faults.reads
  BY PriceType DEF ReleaseGet, ReleaseDel, ReleaseFails, GateInv, TypeOK
<1>2. Answers' = Answers
  <2>1. CASE UNCHANGED result
    BY <1>1, <2>1, AnswersStay
  <2>2. CASE Answer(r, result[r])
    <3>1. result[r] \in Result \ {"none", "ok"}
      BY <1>1 DEF GateInv, TypeOK, Result
    <3> QED
      BY <1>1, <2>2, <3>1, Refused DEF Working, Holding
  <2> QED
    BY <2>1, <2>2 DEF ReleaseGet, ReleaseDel, ReleaseFails, Released
<1>3. Reliable' = Reliable
  BY <1>1 DEF Reliable
<1>4. CASE UNCHANGED records
  BY <1>2, <1>3, <1>4 DEF Unseen, Accounts
<1>5. CASE records' = Deleted(t)
  <2>1. Accounts' = [p \in Txid |-> IF p \in {t} THEN Ledger!Free ELSE Accounts[p]]
    <3>1. Accounts' = [Accounts EXCEPT ![t] = Ledger!Free]
      BY <1>1, <1>5, AccountMoves, AccountKinds DEF Deleted
    <3> QED
      BY <1>1, <3>1 DEF Accounts
  <2>2. Accounts[t] = Ledger!Held \/ ~Reliable
    BY <1>1, AccountKinds DEF Accounts, Reliable, GateInv, Used, OneHolder, Holding
  <2>3. Ledger!GiveBack({t})
    BY <1>2, <1>3, <2>1, <2>2 DEF Ledger!GiveBack, Ledger!Passes
  <2>4. {t} \in SUBSET Txid
    BY <1>1
  <2> QED
    BY <2>3, <2>4 DEF Ledger!Next
<1> QED
  BY <1>4, <1>5 DEF ReleaseGet, ReleaseDel, ReleaseFails

\* A delivered answer uses up its credit.
LEMMA LedgerUsesUp ==
  ASSUME GateInv, NEW t \in Txid, MarkFulfilled(t)
  PROVE  Ledger!Next
<1> DEFINE x == records[t]
           y == [x EXCEPT !.credit = FALSE]
<1>1. /\ x \in Record /\ x.status = "receipt" /\ records' = [records EXCEPT ![t] = y]
      /\ UNCHANGED <<txOf, via, result, faults>>
  BY DEF MarkFulfilled, GateInv, TypeOK
<1>2. /\ y.status = "receipt" /\ y.endpointKey = x.endpointKey
      /\ y.satoshisRequired = x.satoshisRequired /\ y.credit = FALSE
  <2>1. y.status = "receipt" /\ y.endpointKey = x.endpointKey
        /\ y.satoshisRequired = x.satoshisRequired /\ ~y.credit /\ y \in Record
    BY <1>1, ReceiptFacts
  <2>2. y.credit \in BOOLEAN
    BY <2>1, RecordKinds DEF Record
  <2> QED
    BY <2>1, <2>2
<1> HIDE DEF y
<1>3. Account(x) = Ledger!Sold(<<x.endpointKey, x.satoshisRequired>>, x.credit)
      /\ Account(y) = Ledger!Sold(<<x.endpointKey, x.satoshisRequired>>, FALSE)
  <2>1. \A z : z.status = "receipt" =>
          Account(z) = Ledger!Sold(<<z.endpointKey, z.satoshisRequired>>, z.credit)
    BY AccountKinds
  <2>2. Account(x) = Ledger!Sold(<<x.endpointKey, x.satoshisRequired>>, x.credit)
    BY <1>1, <2>1
  <2>3. Account(y) = Ledger!Sold(<<y.endpointKey, y.satoshisRequired>>, y.credit)
    BY <1>2, <2>1
  <2> QED
    BY <1>2, <2>2, <2>3
<1>4. Account(y) = Ledger!Sold(Account(x).quote, FALSE) /\ Account(x).state = "sold"
  <2>1. \A q, c : Ledger!Sold(q, c).state = "sold" /\ Ledger!Sold(q, c).quote = q
    BY DEF Ledger!Sold
  <2> DEFINE quote == <<x.endpointKey, x.satoshisRequired>>
  <2> HIDE DEF quote
  <2>2. Account(x) = Ledger!Sold(quote, x.credit) /\ Account(y) = Ledger!Sold(quote, FALSE)
    BY <1>3 DEF quote
  <2>3. Account(x).quote = quote /\ Account(x).state = "sold"
    BY <2>1, <2>2
  <2> QED
    BY <2>2, <2>3
<1>5. Accounts' = [Accounts EXCEPT ![t] = Account(y)] /\ Accounts[t] = Account(x)
  BY <1>1, AccountMoves DEF Accounts
<1>6. Answers' = Answers /\ Reliable' = Reliable
  BY <1>1, AnswersStay DEF Reliable
<1>7. Ledger!UseUp(t)
  BY <1>4, <1>5, <1>6 DEF Ledger!UseUp
<1> QED
  BY <1>7 DEF Ledger!Next

\* The sweep after a crash gives back what nobody verifies any more.
LEMMA LedgerSweeps ==
  ASSUME GateInv, CrashAndRestart
  PROVE  Ledger!Next
<1>1. PICK stale \in SUBSET {t \in Txid : records[t] = Claimed} :
        records' = [t \in Txid |-> IF t \in stale THEN None ELSE records[t]]
  BY DEF CrashAndRestart
<1>2. UNCHANGED <<txOf, via, result>> /\ faults'.reads = faults.reads
  BY DEF CrashAndRestart, GateInv, TypeOK
<1>3. Answers' = Answers /\ Reliable' = Reliable
  BY <1>2, AnswersStay DEF Reliable
<1>4. Accounts' = [p \in Txid |-> IF p \in stale THEN Ledger!Free ELSE Accounts[p]]
  BY <1>1, AccountKinds DEF Accounts
<1>5. \A p \in stale : Accounts[p] = Ledger!Held
  BY AccountKinds DEF Accounts
<1>6. Ledger!GiveBack(stale)
  BY <1>3, <1>4, <1>5 DEF Ledger!GiveBack, Ledger!Passes
<1> QED
  BY <1>6 DEF Ledger!Next

\* The ledger does not see requests come, transactions fetched, negative entries and gates.
LEMMA LedgerBlind ==
  ASSUME GateInv,
         \/ \E r \in Request : CheckPayment(r) \/ FetchTx(r) \/ FetchTxFails(r) \/ FinalizeFails(r)
         \/ \E g \in Gate, t \in Txid : ForgetNegative(g, t)
         \/ ReplaceGate
         \/ UNCHANGED vars
  PROVE  Unseen
<1>1. ASSUME NEW r \in Request, CheckPayment(r) PROVE Unseen
  <2>1. /\ pc[r] = "new" /\ UNCHANGED <<records, txOf, faults>>
        /\ via' = [via EXCEPT ![r] = gate]
        /\ \/ UNCHANGED result
           \/ result' = [result EXCEPT ![r] = "refused"]
    BY <1>1 DEF CheckPayment, Refuse, Proceed
  <2>2. result[r] = "none"
    BY <2>1 DEF GateInv, TypeOK
  <2>3. \A s \in Request : /\ result'[s] = "ok" <=> result[s] = "ok"
                           /\ result[s] = "ok" => via'[s] = via[s]
    BY <2>1, <2>2 DEF GateInv, TypeOK
  <2> QED
    BY <2>1, <2>3, NothingSeen
<1>2. ASSUME NEW r \in Request, FetchTx(r) \/ FetchTxFails(r) \/ FinalizeFails(r) PROVE Unseen
  <2>1. /\ pc[r] \in {"fetching", "finalizing"} /\ UNCHANGED <<records, txOf, via, faults>>
        /\ UNCHANGED result \/ \E x \in {"unpaid", "error"} : result' = [result EXCEPT ![r] = x]
    BY <1>2 DEF FetchTx, FetchTxFails, FinalizeFails
  <2>2. result[r] = "none"
    BY <2>1 DEF GateInv, TypeOK
  <2>3. \A s \in Request : result'[s] = "ok" <=> result[s] = "ok"
    BY <2>1, <2>2 DEF GateInv, TypeOK
  <2> QED
    BY <2>1, <2>3, NothingSeen
<1>3. CASE (\E g \in Gate, t \in Txid : ForgetNegative(g, t)) \/ ReplaceGate \/ UNCHANGED vars
  <2>1. UNCHANGED <<records, txOf, via, result, faults>>
    BY <1>3 DEF ForgetNegative, ReplaceGate, vars
  <2> QED
    BY <2>1, NothingSeen
<1> QED
  BY <1>1, <1>2, <1>3

\* The gate keeps a ledger: a payment is held by one verification at a time and sold for
\* one quote that it covers, in the step that gives the answers, and its credit answers
\* for that quote alone; a failed read alone can have it held and sold again
\* (x402-middleware.js:286-358, persistent-store.js:874-910).
THEOREM GateKeepsLedger == Spec => LedgerSpec
<1>1. Init => Ledger!Init
  <2> SUFFICES ASSUME Init PROVE Ledger!Init
    OBVIOUS
  <2>1. Accounts = [t \in Txid |-> Ledger!Free]
    BY AccountKinds DEF Init, Accounts
  <2>2. Answers = {}
    BY DEF Init, Answers
  <2>3. Reliable = TRUE
    BY DEF Init, Reliable
  <2> QED
    BY <2>1, <2>2, <2>3 DEF Ledger!Init
<1>2. GateInv /\ [Next]_vars => [Ledger!Next]_<<Accounts, Answers, Reliable>>
  <2> SUFFICES ASSUME GateInv, [Next]_vars PROVE Ledger!Next \/ Unseen
    BY DEF Unseen
  <2> QED
    BY LedgerClaims, LedgerSells, LedgerRedeems, LedgerReleases, LedgerUsesUp, LedgerSweeps,
       LedgerBlind DEF Next
<1> QED
  BY <1>1, <1>2, GateInvariant, PTL DEF Spec, LedgerSpec, Ledger!Spec

------------------------------------------------------------------------------
(* Wallet: the invariant.                                                  *)

\* The transactions a job makes, and the jobs that are past their inputs.
Jobs == plan.sent \cup plan.bonds \cup plan.leaves
Begun(t) == job[t].st \notin {"idle", "gather", "connect"}

\* Who acts, and where what is offered or accepted comes from.
Roles ==
  /\ \A t \in Tx : /\ job[t].st # "idle" => t \in Jobs
                   /\ job[t].st \in {"mark", "change"} => t \in plan.sent
                   /\ job[t].st \in {"pushed", "mark", "change", "done"} => t \in offered
                   /\ post[t].st # "idle" => t \in plan.posted
                   /\ fund[t] # "idle" => t \in plan.funded
                   /\ watch[t].st = "pays" => Watched(t)
  /\ offered \subseteq Jobs \cup plan.registers \cup plan.posted
  /\ net \subseteq plan.relayed \cup plan.funded \cup offered \cup plan.posted

\* Inputs do not change any more once a transaction is out.
Fixed ==
  \A t \in offered \cup net :
    /\ t \in Jobs => Begun(t)
    /\ t \in plan.registers => \A b \in plan.bonds : Begun(b) /\ job[b].st # "pushed"

\* A send gathers one output after the other until there is enough.
Gathering ==
  \A t \in plan.sent :
    /\ IsFiniteSet(inputs[t])
    /\ job[t].st \in {"idle", "gather"} => Cardinality(inputs[t]) < plan.need
    /\ job[t].st = "connect" => Cardinality(inputs[t]) = plan.need

\* A broadcast is refused because of a conflict, which stays.
Rejected == \A t \in Tx : post[t].st = "refused" => t \notin net /\ Conflicts(t)

\* An output of a send, a funded one, or one of the network.
Kept(c) == c \in plan.sent \cup plan.funded \cup net

Puts ==
  /\ \A c \in Tx : utxo[c] # "none" => Kept(c)
  /\ \A w \in writing : Kept(w[3])

\* c is not offered, or was stored when it had been dealt with; or it is about
\* to be marked by a call of who for t.
Gone(c)           == utxo[c] # "unspent" \/ c \in crossed
Marked(who, t, c) == Gone(c) \/ <<who, t, c>> \in writing

\* What is being stored although it has been dealt with is in the history.
Recalled == Overtaken \subseteq crossed

\* What the watcher handles was seen; what it has handled is marked.
WatchedWell(t) ==
  /\ t \in net \/ post[t].st # "idle"
  /\ watch[t].todo \subseteq inputs[t]
  /\ watch[t].st # "spends" => watch[t].todo = {}
  /\ \A c \in inputs[t] : /\ c \notin watch[t].todo => Marked("watch", t, c)
                          /\ watch[t].st # "spends" => Gone(c)

Watching == \A t \in Tx : watch[t].st # "idle" => WatchedWell(t)

\* A send takes what was recorded, and marks it.
SentWell(t) ==
  /\ \A c \in job[t].todo \cup inputs[t] : Kept(c)
  /\ job[t].st = "mark" => job[t].todo \subseteq inputs[t]
  /\ job[t].st \in {"change", "done"} => job[t].todo = {}
  /\ job[t].st \in {"mark", "change", "done"} =>
       \A c \in inputs[t] : /\ c \notin job[t].todo => Marked("send", t, c)
                            /\ job[t].st # "mark" => Gone(c)

Sending == \A t \in plan.sent : SentWell(t)

\* A transaction that spends c is out.
Out(c) == \E t \in Tx : Spends(t, c)

Bookmarks ==
  /\ \A t \in plan.posted : post[t].todo \subseteq inputs[t]
  /\ \A c \in spentInputs : Out(c)
  /\ \A w \in writing : IF w[1] = "list" THEN list.st = "ours" /\ w[3] \notin list.ours
                        ELSE Out(w[3])

\* What is left of our outputs is spent, or too recent to tell, if GorillaPool
\* has answered.
Merging ==
  /\ list.ours \subseteq plan.listed /\ \A c \in list.ours : Kept(c)
  /\ list.st = "ours" => list.todo = {}
  /\ list.st \in {"theirs", "ours"} /\ list.heard =>
       \A c \in list.ours \ (plan.sent \cup plan.funded) :
          c \in list.fresh \cup list.todo \/ Out(c)

WalletInv ==
  /\ WalletTypeOK /\ Roles /\ Fixed /\ Gathering /\ Rejected
  /\ Puts /\ Watching /\ Sending /\ Bookmarks /\ Merging /\ Recalled

\* What a step adds to the history.
Recalls == crossed' \subseteq Tx /\ crossed \subseteq crossed' /\ Recalled'

------------------------------------------------------------------------------
(* Wallet: the plan, and the start.                                        *)

\* A transaction has one role.
LEMMA PlanRoles ==
  ASSUME NEW p \in Plan
  PROVE  /\ p.relayed \subseteq Tx /\ p.funded \subseteq Tx /\ p.sent \subseteq Tx
         /\ p.posted \subseteq Tx /\ p.bonds \subseteq Tx /\ p.registers \subseteq Tx
         /\ p.leaves \subseteq Tx /\ p.spends \subseteq Tx /\ p.listed \subseteq Tx
         /\ p.need \in Nat \ {0}
         /\ \A b, d \in p.bonds : b = d
         /\ \A t \in p.relayed : t \notin p.funded \cup p.sent \cup p.posted \cup p.bonds
                                          \cup p.registers \cup p.leaves
         /\ \A t \in p.funded : t \notin p.sent \cup p.posted \cup p.bonds \cup p.registers \cup p.leaves
         /\ \A t \in p.sent : t \notin p.posted \cup p.bonds \cup p.registers \cup p.leaves
         /\ \A t \in p.posted : t \notin p.bonds \cup p.registers \cup p.leaves
         /\ \A t \in p.bonds : t \notin p.registers \cup p.leaves
         /\ \A t \in p.registers : t \notin p.leaves
<1> DEFINE roles == <<p.relayed, p.funded, p.sent, p.posted, p.bonds, p.registers, p.leaves>>
<1>1. /\ \A i \in 1 .. 7 : roles[i] \subseteq Tx
      /\ \A i, j \in 1 .. 7 : i # j => roles[i] \cap roles[j] = {}
      /\ \A b, d \in p.bonds : b = d
      /\ p.spends \subseteq Tx /\ p.listed \subseteq Tx /\ p.need \in Nat \ {0}
  BY PlanAssumption
<1>2. /\ roles[1] = p.relayed /\ roles[2] = p.funded /\ roles[3] = p.sent /\ roles[4] = p.posted
      /\ roles[5] = p.bonds /\ roles[6] = p.registers /\ roles[7] = p.leaves
  OBVIOUS
<1>3. 1 \in 1 .. 7 /\ 2 \in 1 .. 7 /\ 3 \in 1 .. 7 /\ 4 \in 1 .. 7 /\ 5 \in 1 .. 7 /\ 6 \in 1 .. 7 /\ 7 \in 1 .. 7
  OBVIOUS
<1> HIDE DEF roles
<1>4. \A t \in p.relayed : t \notin p.funded \cup p.sent \cup p.posted \cup p.bonds
                                    \cup p.registers \cup p.leaves
  BY <1>1, <1>2, <1>3
<1>5. \A t \in p.funded : t \notin p.sent \cup p.posted \cup p.bonds \cup p.registers \cup p.leaves
  BY <1>1, <1>2, <1>3
<1>6. \A t \in p.sent : t \notin p.posted \cup p.bonds \cup p.registers \cup p.leaves
  BY <1>1, <1>2, <1>3
<1>7. \A t \in p.posted : t \notin p.bonds \cup p.registers \cup p.leaves
  BY <1>1, <1>2, <1>3
<1>8. \A t \in p.bonds : t \notin p.registers \cup p.leaves
  BY <1>1, <1>2, <1>3
<1>9. \A t \in p.registers : t \notin p.leaves
  BY <1>1, <1>2, <1>3
<1> QED
  BY <1>1, <1>2, <1>3, <1>4, <1>5, <1>6, <1>7, <1>8, <1>9

\* The invariant holds before anything has happened.
LEMMA WalletStart == WalletInit => WalletInv
<1> SUFFICES ASSUME WalletInit PROVE WalletInv
  OBVIOUS
<1> USE DEF WalletInit, Idle, NoList, NoRun
<1>1. /\ plan.sent \subseteq Tx /\ plan.spends \subseteq Tx /\ plan.need \in Nat \ {0}
      /\ \A t \in plan.sent : t \notin plan.posted
  BY PlanRoles
<1>2. WalletTypeOK
  BY <1>1 DEF WalletTypeOK
<1>3. Roles /\ Fixed /\ Rejected /\ Puts /\ Watching /\ Recalled
  BY DEF Roles, Fixed, Rejected, Puts, Watching, Recalled, Overtaken, Stores
<1>4. Gathering
  <2>1. \A t \in plan.sent : inputs[t] = {} /\ job[t].st = "idle"
    BY <1>1
  <2>2. IsFiniteSet({}) /\ Cardinality({}) = 0 /\ 0 < plan.need
    BY <1>1, FS_EmptySet
  <2> QED
    BY <2>1, <2>2 DEF Gathering
<1>5. Sending
  <2>1. \A t \in plan.sent : inputs[t] = {} /\ job[t].st = "idle" /\ job[t].todo = {}
    BY <1>1
  <2> HIDE DEF WalletInit
  <2> QED
    BY <2>1 DEF Sending, SentWell
<1>6. Bookmarks /\ Merging
  <2>1. \A t \in plan.posted : post[t].todo = {}
    BY PlanRoles
  <2>2. spentInputs = {} /\ writing = {} /\ list.st = "idle" /\ list.ours = {} /\ list.todo = {}
    OBVIOUS
  <2> HIDE DEF WalletInit
  <2> QED
    BY <2>1, <2>2 DEF Bookmarks, Merging
<1> QED
  BY <1>2, <1>3, <1>4, <1>5, <1>6 DEF WalletInv, Recalls

------------------------------------------------------------------------------
(* Wallet: what a step keeps.                                              *)

\* What no step undoes: what is out, begun or over stays so, and the network
\* accepts one transaction at a time.
Onward ==
  /\ plan' = plan
  /\ net' = net \/ \E u \in Tx : Acceptable(u) /\ net' = net \cup {u} /\ inputs' = inputs
  /\ offered \subseteq offered'
  /\ \A t \in Tx : /\ post[t].st # "idle" => post'[t].st # "idle"
                   /\ Begun(t) => Begun(t)'
                   /\ Begun(t) /\ job[t].st # "pushed" => job'[t].st # "pushed"
  /\ \A t \in Tx : t \in net \cup offered \/ post[t].st # "idle" => inputs'[t] = inputs[t]

\* What a step does to the records: what has been dealt with is not offered
\* again but for what is in the history, a call of spendUtxo ends in its write,
\* and what it reads was there.
Recording ==
  /\ \A c \in Tx : utxo'[c] = "unspent" =>
       utxo[c] = "unspent" \/ c \in crossed' \/ \A t \in Tx : ~DealtWith(t, c)
  /\ \A c \in Tx : utxo'[c] # "none" => \/ utxo[c] # "none" \/ Kept(c)'
                                        \/ \E w \in writing : w[3] = c
  /\ \A w \in writing : w \in writing' \/ utxo'[w[3]] = "spent"
  /\ \A w \in writing' : w \in writing \/ utxo[w[3]] # "none"

\* What has been put and what is out stays so.
LEMMA KeptStays ==
  ASSUME Onward, NEW c \in Tx, Kept(c)
  PROVE  Kept(c)'
BY DEF Onward, Kept

LEMMA OutStays ==
  ASSUME Onward, NEW c, Out(c)
  PROVE  Out(c)'
<1>1. PICK t \in Tx : Spends(t, c)
  BY DEF Out
<1>2. Spends(t, c)'
  BY <1>1 DEF Onward, Spends
<1> QED
  BY <1>2 DEF Out

\* A step that records what it may keeps the records right.
LEMMA PutsStep ==
  ASSUME WalletTypeOK, Puts, Onward, Recording, WalletTypeOK'
  PROVE  Puts'
<1>1. \A w \in writing : w[3] \in Tx
  BY DEF WalletTypeOK
<1>2. \A w \in writing' : w[3] \in Tx
  BY DEF WalletTypeOK
<1>3. \A c \in Tx : utxo'[c] # "none" => Kept(c)'
  BY <1>1, KeptStays DEF Puts, Recording
<1>4. \A w \in writing' : Kept(w[3])'
  BY <1>2, KeptStays DEF Puts, Recording
<1> QED
  BY <1>3, <1>4 DEF Puts

\* What comes out has the inputs it will have.
LEMMA FixedStep ==
  ASSUME WalletTypeOK, Fixed, Onward, net \subseteq Tx, offered \subseteq Tx,
         \A t \in (offered \cup net)' \ (offered \cup net) :
           /\ t \in Jobs => Begun(t)'
           /\ t \in plan.registers => \A b \in plan.bonds : Begun(b)' /\ job'[b].st # "pushed"
  PROVE  Fixed'
<1>1. plan.bonds \subseteq Tx /\ plan' = plan
  BY PlanRoles DEF WalletTypeOK, Onward
<1>2. Jobs' = Jobs
  BY <1>1 DEF Jobs
<1>3. ASSUME NEW t \in (offered \cup net)'
      PROVE  /\ t \in Jobs => Begun(t)'
             /\ t \in plan.registers => \A b \in plan.bonds : Begun(b)' /\ job'[b].st # "pushed"
  <2>1. CASE t \notin offered \cup net
    BY <2>1
  <2>2. CASE t \in offered \cup net
    BY <2>2, <1>1 DEF Fixed, Onward
  <2> QED
    BY <2>1, <2>2
<1> QED
  BY <1>1, <1>2, <1>3 DEF Fixed

\* What a broadcast conflicts with stays in the network.
LEMMA RejectedStep ==
  ASSUME WalletTypeOK, Rejected, Onward,
         \A t \in Tx : post'[t].st = "refused" =>
           post[t].st = "refused" \/ (t \notin net' /\ Conflicts(t)')
  PROVE  Rejected'
<1> SUFFICES ASSUME NEW t \in Tx, post[t].st = "refused"
             PROVE  t \notin net' /\ Conflicts(t)'
  BY DEF Rejected
<1>1. post[t].st = "refused" /\ t \notin net /\ Conflicts(t)
  BY DEF Rejected
<1>2. t \notin net'
  BY <1>1 DEF Onward, Acceptable
<1>3. PICK u \in net \ {t} : inputs[u] \cap inputs[t] # {}
  BY <1>1 DEF Conflicts
<1>4. u \in Tx /\ u \in net' \ {t} /\ inputs'[u] = inputs[u] /\ inputs'[t] = inputs[t]
  BY <1>1, <1>3 DEF Onward, WalletTypeOK
<1> QED
  BY <1>2, <1>3, <1>4 DEF Conflicts

\* No two transactions of the network spend the same output.
LEMMA NetStep ==
  ASSUME WalletTypeOK, Onward
  PROVE  /\ net' \subseteq Tx /\ net \subseteq net'
         /\ \A t, u \in net' : t # u => inputs'[t] \cap inputs'[u] = {}
<1>1. net \subseteq Tx /\ \A t, u \in net : t # u => inputs[t] \cap inputs[u] = {}
  BY DEF WalletTypeOK
<1>2. CASE net' = net
  BY <1>1, <1>2 DEF Onward
<1>3. CASE \E u \in Tx : Acceptable(u) /\ net' = net \cup {u} /\ inputs' = inputs
  <2>1. PICK v \in Tx : Acceptable(v) /\ net' = net \cup {v} /\ inputs' = inputs
    BY <1>3
  <2>2. \A u \in net : inputs[u] \cap inputs[v] = {}
    BY <2>1 DEF Acceptable, Conflicts
  <2> QED
    BY <1>1, <2>1, <2>2
<1> QED
  BY <1>2, <1>3 DEF Onward

\* What has been dealt with is marked, and stays marked.
LEMMA MarkedStays ==
  ASSUME WalletTypeOK, Recording, Recalls, NEW t \in Tx, NEW c \in Tx, DealtWith(t, c)
  PROVE  /\ Gone(c) => Gone(c)'
         /\ \A who : Marked(who, t, c) => Marked(who, t, c)'
<1>1. Gone(c) => Gone(c)'
  BY DEF Gone, Recording, Recalls
<1>2. ASSUME NEW who, <<who, t, c>> \in writing
      PROVE  Marked(who, t, c)'
  <2>1. <<who, t, c>>[3] = c
    OBVIOUS
  <2>2. <<who, t, c>> \in writing' \/ utxo'[c] = "spent"
    BY <1>2, <2>1 DEF Recording
  <2> QED
    BY <2>2 DEF Marked, Gone
<1> QED
  BY <1>1, <1>2 DEF Marked

\* What the watcher has seen to stays so while others act.
LEMMA WatchedStays ==
  ASSUME WalletTypeOK, Onward, Recording, Recalls, NEW t \in Tx, watch[t].st # "idle",
         watch'[t] = watch[t], WatchedWell(t)
  PROVE  WatchedWell(t)'
<1>1. inputs'[t] = inputs[t] /\ inputs[t] \subseteq Tx
  BY DEF WatchedWell, Onward, WalletTypeOK
<1>2. t \in net' \/ post'[t].st # "idle"
  BY DEF WatchedWell, Onward
<1>3. watch'[t].todo \subseteq inputs'[t] /\ (watch'[t].st # "spends" => watch'[t].todo = {})
  BY <1>1 DEF WatchedWell
<1>4. ASSUME NEW c \in inputs'[t]
      PROVE  /\ c \notin watch'[t].todo => Marked("watch", t, c)'
             /\ watch'[t].st # "spends" => Gone(c)'
  <2>1. /\ c \in Tx /\ c \in inputs[t]
        /\ c \notin watch[t].todo => Marked("watch", t, c)
        /\ watch[t].st # "spends" => Gone(c) /\ c \notin watch[t].todo
    BY <1>1, <1>4 DEF WatchedWell
  <2>2. c \notin watch[t].todo => DealtWith(t, c)
    BY <2>1 DEF DealtWith
  <2> QED
    BY <2>1, <2>2, MarkedStays
<1> QED
  BY <1>2, <1>3, <1>4 DEF WatchedWell

\* What a send has seen to stays so while others act.
LEMMA SentStays ==
  ASSUME WalletTypeOK, Onward, Recording, Recalls, NEW t \in plan.sent,
         job'[t] = job[t], inputs'[t] = inputs[t], SentWell(t)
  PROVE  SentWell(t)'
<1>1. t \in Tx /\ inputs[t] \subseteq Tx /\ job[t].todo \subseteq Tx
  BY PlanRoles DEF WalletTypeOK
<1>2. \A c \in job'[t].todo \cup inputs'[t] : Kept(c)'
  BY <1>1, KeptStays DEF SentWell
<1>3. /\ job'[t].st = "mark" => job'[t].todo \subseteq inputs'[t]
      /\ job'[t].st \in {"change", "done"} => job'[t].todo = {}
  BY <1>1 DEF SentWell
<1>4. ASSUME job'[t].st \in {"mark", "change", "done"}, NEW c \in inputs'[t]
      PROVE  /\ c \notin job'[t].todo => Marked("send", t, c)'
             /\ job'[t].st # "mark" => Gone(c)'
  <2>1. /\ c \in Tx /\ c \in inputs[t]
        /\ c \notin job[t].todo => Marked("send", t, c)
        /\ job[t].st # "mark" => Gone(c) /\ c \notin job[t].todo
    BY <1>1, <1>4 DEF SentWell
  <2>2. c \notin job[t].todo => DealtWith(t, c)
    BY <1>4, <2>1 DEF DealtWith
  <2>3. /\ Gone(c) /\ DealtWith(t, c) => Gone(c)'
        /\ Marked("send", t, c) /\ DealtWith(t, c) => Marked("send", t, c)'
    BY <1>1, <2>1, MarkedStays
  <2> QED
    BY <2>1, <2>2, <2>3
<1> QED
  BY <1>2, <1>3, <1>4 DEF SentWell

\* What an action marks is spent by a transaction that is out.
LEMMA BookmarksStep ==
  ASSUME WalletTypeOK, Bookmarks, Onward,
         \A t \in plan.posted : post'[t].todo \subseteq inputs[t] /\ inputs'[t] = inputs[t],
         \A c \in spentInputs' : c \in spentInputs \/ Out(c),
         \A w \in writing' : IF w[1] = "list" THEN list'.st = "ours" /\ w[3] \notin list'.ours
                             ELSE w \in writing \/ Out(w[3])
  PROVE  Bookmarks'
<1>1. plan' = plan
  BY DEF Onward
<1>2. \A t \in plan'.posted : post'[t].todo \subseteq inputs'[t]
  BY <1>1
<1>3. \A c \in spentInputs' : Out(c)'
  BY OutStays DEF Bookmarks
<1>4. ASSUME NEW w \in writing'
      PROVE  IF w[1] = "list" THEN list'.st = "ours" /\ w[3] \notin list'.ours ELSE Out(w[3])'
  <2>1. CASE w[1] = "list"
    BY <2>1
  <2>2. CASE w[1] # "list"
    <3>1. Out(w[3])
      BY <2>2 DEF Bookmarks
    <3> QED
      BY <2>2, <3>1, OutStays
  <2> QED
    BY <2>1, <2>2
<1> QED
  BY <1>2, <1>3, <1>4 DEF Bookmarks

\* What the listing knows of an output stays true while the list does not change.
LEMMA MergingStep ==
  ASSUME WalletTypeOK, Merging, Onward, list' = list
  PROVE  Merging'
<1>1. plan' = plan /\ list.ours \subseteq Tx
  BY DEF Onward, WalletTypeOK
<1>2. \A c \in list'.ours : Kept(c)'
  BY <1>1, KeptStays DEF Merging
<1>3. \A c : Out(c) => Out(c)'
  BY OutStays
<1> QED
  BY <1>1, <1>2, <1>3 DEF Merging

\* A step that leaves the makers of transactions alone.
LEMMA RecordsStep ==
  ASSUME WalletInv, Recalls, Onward, Recording, WalletTypeOK', inputs' = inputs, watch' = watch, job' = job
  PROVE  Gathering' /\ Puts' /\ Watching' /\ Sending'
<1>1. plan' = plan /\ plan.sent \subseteq Tx
  BY PlanRoles DEF Onward, WalletInv, WalletTypeOK
<1>2. Gathering'
  BY <1>1 DEF WalletInv, Gathering
<1>3. Puts'
  BY PutsStep DEF WalletInv
<1>4. Watching'
  <2> SUFFICES ASSUME NEW t \in Tx, watch[t].st # "idle" PROVE WatchedWell(t)'
    BY DEF Watching
  <2>1. WatchedWell(t)
    BY DEF WalletInv, Watching
  <2> QED
    BY <2>1, WatchedStays DEF WalletInv
<1>5. Sending'
  <2> SUFFICES ASSUME NEW t \in plan.sent PROVE SentWell(t)'
    BY <1>1 DEF Sending
  <2>1. SentWell(t)
    BY DEF WalletInv, Sending
  <2> QED
    BY <2>1, <1>1, SentStays DEF WalletInv
<1> QED
  BY <1>2, <1>3, <1>4, <1>5

\* A step that changes nobody but the listing, the clean-up or the server.
LEMMA StillStep ==
  ASSUME WalletInv, UNCHANGED <<plan, net, offered, inputs, watch, job, fund, post>>
  PROVE  /\ Onward
         /\ Roles' /\ Fixed' /\ Rejected'
<1>1. Onward
  BY DEF Onward, Begun
<1>2. Roles'
  BY DEF WalletInv, Roles, Jobs, Watched, Made
<1>3. Fixed'
  BY DEF WalletInv, Fixed, Jobs, Begun
<1>4. Rejected'
  BY DEF WalletInv, Rejected, Conflicts
<1> QED
  BY <1>1, <1>2, <1>3, <1>4

\* A step that marks nothing.
LEMMA BookmarksFrame ==
  ASSUME WalletInv, Onward, UNCHANGED <<inputs, post, spentInputs, list>>, writing' \subseteq writing
  PROVE  Bookmarks'
<1>1. \A t \in plan.posted : post'[t].todo \subseteq inputs[t] /\ inputs'[t] = inputs[t]
  BY DEF WalletInv, Bookmarks
<1>2. WalletTypeOK /\ Bookmarks
  BY DEF WalletInv
<1>3. \A c \in spentInputs' : c \in spentInputs \/ Out(c)
  OBVIOUS
<1>4. \A w \in writing' : IF w[1] = "list" THEN list'.st = "ours" /\ w[3] \notin list'.ours
                           ELSE w \in writing \/ Out(w[3])
  BY DEF WalletInv, Bookmarks
<1> QED
  BY <1>1, <1>2, <1>3, <1>4, BookmarksStep

\* An actor goes on to its next state, or has dealt with one of its outputs.
Goes(f, t, st) == [f EXCEPT ![t].st = st]
Deals(f, t, c) == [f EXCEPT ![t].todo = @ \ {c}]
Actors(S) == [Tx -> [st : S, todo : SUBSET Tx]]

LEMMA GoesOn ==
  ASSUME NEW S, NEW f \in Actors(S), NEW t \in Tx, NEW st \in S
  PROVE  /\ Goes(f, t, st) \in Actors(S)
         /\ Goes(f, t, st)[t].st = st /\ Goes(f, t, st)[t].todo = f[t].todo
         /\ \A u \in Tx \ {t} : Goes(f, t, st)[u] = f[u]
<1>1. f[t] \in [st : S, todo : SUBSET Tx]
  BY DEF Actors
<1>2. Goes(f, t, st) = [f EXCEPT ![t] = [f[t] EXCEPT !.st = st]]
  BY DEF Goes
<1>3. /\ [f[t] EXCEPT !.st = st] \in [st : S, todo : SUBSET Tx]
      /\ [f[t] EXCEPT !.st = st].st = st /\ [f[t] EXCEPT !.st = st].todo = f[t].todo
  BY <1>1
<1> HIDE DEF Goes
<1>4. Goes(f, t, st)[t] = [f[t] EXCEPT !.st = st]
  BY <1>2 DEF Actors
<1>5. \A u \in Tx \ {t} : Goes(f, t, st)[u] = f[u]
  BY <1>2 DEF Actors
<1>6. Goes(f, t, st) \in Actors(S)
  BY <1>2, <1>3 DEF Actors
<1> QED
  BY <1>3, <1>4, <1>5, <1>6

LEMMA DealsWith ==
  ASSUME NEW S, NEW f \in Actors(S), NEW t \in Tx, NEW c
  PROVE  /\ Deals(f, t, c) \in Actors(S)
         /\ Deals(f, t, c)[t].st = f[t].st /\ Deals(f, t, c)[t].todo = f[t].todo \ {c}
         /\ \A u \in Tx \ {t} : Deals(f, t, c)[u] = f[u]
<1>1. f[t] \in [st : S, todo : SUBSET Tx]
  BY DEF Actors
<1>2. Deals(f, t, c) = [f EXCEPT ![t] = [f[t] EXCEPT !.todo = f[t].todo \ {c}]]
  BY DEF Deals
<1>3. /\ [f[t] EXCEPT !.todo = f[t].todo \ {c}] \in [st : S, todo : SUBSET Tx]
      /\ [f[t] EXCEPT !.todo = f[t].todo \ {c}].st = f[t].st
      /\ [f[t] EXCEPT !.todo = f[t].todo \ {c}].todo = f[t].todo \ {c}
  BY <1>1
<1> HIDE DEF Deals
<1>4. Deals(f, t, c)[t] = [f[t] EXCEPT !.todo = f[t].todo \ {c}]
  BY <1>2 DEF Actors
<1>5. \A u \in Tx \ {t} : Deals(f, t, c)[u] = f[u]
  BY <1>2 DEF Actors
<1>6. Deals(f, t, c) \in Actors(S)
  BY <1>2, <1>3 DEF Actors
<1> QED
  BY <1>3, <1>4, <1>5, <1>6

\* What the actors are.
LEMMA ActorTypes ==
  ASSUME WalletTypeOK
  PROVE  /\ watch \in Actors({"idle", "spends", "pays", "done"})
         /\ job \in Actors({"idle", "gather", "connect", "pushed", "mark", "change", "done", "failed"})
         /\ post \in Actors({"idle", "mark", "p2p", "arc", "woc", "ok", "refused", "unsure"})
BY DEF WalletTypeOK, Actors

------------------------------------------------------------------------------
(* Wallet: the store, the network and the watcher.                         *)

\* spendUtxo writes: what it read was there, and only a spend of what is out
\* or the listing of what it no longer has in hand calls it.
LEMMA SpendWrittenKeeps ==
  ASSUME WalletInv, Recalls, NEW who, SpendWritten(who)
  PROVE  WalletInv'
<1>1. PICK w \in writing : writing' = writing \ {w} /\ utxo' = [utxo EXCEPT ![w[3]] = "spent"]
  BY DEF SpendWritten
<1>2. UNCHANGED <<plan, net, mined, txs, recent, spentInputs, inputs, offered, watch, job, fund, post,
                  list, clean, server>>
  BY DEF SpendWritten, world, actors
<1>3. /\ w[3] \in Tx /\ utxo'[w[3]] = "spent"
      /\ \A c \in Tx \ {w[3]} : utxo'[c] = utxo[c]
      /\ utxo' \in [Tx -> {"none", "unspent", "spent"}]
  BY <1>1 DEF WalletInv, WalletTypeOK
<1>4. WalletTypeOK'
  BY <1>1, <1>2, <1>3 DEF WalletInv, WalletTypeOK, Recalls
<1>5. Onward /\ Roles' /\ Fixed' /\ Rejected'
  BY <1>2, StillStep
<1>6. Recording
  BY <1>1, <1>3 DEF Recording
<1>7. Gathering' /\ Puts' /\ Watching' /\ Sending'
  BY <1>2, <1>4, <1>5, <1>6, RecordsStep
<1>8. Bookmarks'
  BY <1>1, <1>2, <1>5, BookmarksFrame
<1>9. Merging'
  BY <1>2, <1>4, <1>5, <1>6, MergingStep DEF WalletInv
<1> QED
  BY <1>4, <1>5, <1>7, <1>8, <1>9 DEF WalletInv, Recalls

\* A step that leaves the records alone.
LEMMA NoRecord ==
  ASSUME utxo' = utxo, writing' = writing
  PROVE  Recording
BY DEF Recording

\* The network accepts, or has a block.
LEMMA AcceptKeeps ==
  ASSUME WalletInv, Recalls, NEW t \in Tx, Accept(t)
  PROVE  WalletInv'
<1>1. /\ t \in plan.relayed \cup plan.funded \cup offered /\ Acceptable(t) /\ net' = net \cup {t}
      /\ UNCHANGED <<plan, mined, txs, utxo, recent, spentInputs, writing, inputs, offered, watch, job, fund,
                     post, list, clean, server>>
  BY DEF Accept, store, actors
<1>2. Onward /\ Recording
  BY <1>1, NoRecord DEF Onward, Begun
<1>3. WalletTypeOK'
  <2>1. /\ net' \subseteq Tx /\ net \subseteq net'
        /\ \A x, y \in net' : x # y => inputs'[x] \cap inputs'[y] = {}
    BY <1>2, NetStep DEF WalletInv
  <2> QED
    BY <1>1, <2>1 DEF WalletInv, WalletTypeOK, Recalls
<1>4. Roles'
  BY <1>1 DEF WalletInv, Roles, Jobs, Watched, Made
<1>5. Fixed'
  <2>1. net \subseteq Tx /\ offered \subseteq Tx
    BY DEF WalletInv, WalletTypeOK
  <2>2. t \in plan.relayed \cup plan.funded => t \notin Jobs \cup plan.registers
    BY PlanRoles DEF Jobs, WalletInv, WalletTypeOK
  <2> QED
    BY <1>1, <1>2, <2>1, <2>2, FixedStep DEF WalletInv
<1>6. Rejected'
  BY <1>1, <1>2, RejectedStep DEF WalletInv
<1>7. Gathering' /\ Puts' /\ Watching' /\ Sending'
  BY <1>1, <1>2, <1>3, RecordsStep
<1>8. Bookmarks'
  BY <1>1, <1>2, BookmarksFrame
<1>9. Merging'
  BY <1>1, <1>2, <1>3, MergingStep DEF WalletInv
<1> QED
  BY <1>3, <1>4, <1>5, <1>6, <1>7, <1>8, <1>9 DEF WalletInv, Recalls

LEMMA MineKeeps ==
  ASSUME WalletInv, Recalls, NEW t \in Tx, Mine(t)
  PROVE  WalletInv'
<1>1. /\ t \in net /\ mined' = mined \cup {t}
      /\ UNCHANGED <<plan, net, txs, utxo, recent, spentInputs, writing, inputs, offered, watch, job, fund,
                     post, list, clean, server>>
  BY DEF Mine, store, actors
<1>2. Onward /\ Roles' /\ Fixed' /\ Rejected' /\ Recording
  BY <1>1, StillStep, NoRecord
<1>3. WalletTypeOK'
  BY <1>1 DEF WalletInv, WalletTypeOK, Recalls
<1>4. Gathering' /\ Puts' /\ Watching' /\ Sending'
  BY <1>1, <1>2, <1>3, RecordsStep
<1>5. Bookmarks'
  BY <1>1, <1>2, BookmarksFrame
<1>6. Merging'
  BY <1>1, <1>2, <1>3, MergingStep DEF WalletInv
<1> QED
  BY <1>2, <1>3, <1>4, <1>5, <1>6 DEF WalletInv, Recalls

\* An output is no longer recent, in the store or in what a listing has read.
LEMMA AgesKeeps ==
  ASSUME WalletInv, Recalls, NEW c \in Tx, Ages(c)
  PROVE  WalletInv'
<1>1. /\ recent' \subseteq recent
      /\ UNCHANGED <<plan, net, mined, txs, utxo, spentInputs, writing, inputs, offered, watch, job, fund,
                     post, clean, server>>
      /\ list' = list \/ (list.st = "fetch" /\ list' = [list EXCEPT !.fresh = @ \ {c}])
  BY DEF Ages, world
<1>2. list \in [st : {"idle", "fetch", "theirs", "ours", "done"}, todo : SUBSET Tx,
                ours : SUBSET Tx, fresh : SUBSET Tx, theirs : SUBSET Tx, heard : BOOLEAN]
  BY DEF WalletInv, WalletTypeOK
<1>3. /\ list' \in [st : {"idle", "fetch", "theirs", "ours", "done"}, todo : SUBSET Tx,
                    ours : SUBSET Tx, fresh : SUBSET Tx, theirs : SUBSET Tx, heard : BOOLEAN]
      /\ list'.st = list.st /\ list'.ours = list.ours
  BY <1>1, <1>2
<1>4. Onward /\ Roles' /\ Fixed' /\ Rejected' /\ Recording
  BY <1>1, StillStep, NoRecord
<1>5. WalletTypeOK'
  BY <1>1, <1>3 DEF WalletInv, WalletTypeOK, Recalls
<1>6. Gathering' /\ Puts' /\ Watching' /\ Sending'
  BY <1>1, <1>4, <1>5, RecordsStep
<1>7. Bookmarks'
  <2>1. \A t \in plan.posted : post'[t].todo \subseteq inputs[t] /\ inputs'[t] = inputs[t]
    BY <1>1 DEF WalletInv, Bookmarks
  <2>2. \A d \in spentInputs' : d \in spentInputs \/ Out(d)
    BY <1>1
  <2>3. \A w \in writing' : IF w[1] = "list" THEN list'.st = "ours" /\ w[3] \notin list'.ours
                             ELSE w \in writing \/ Out(w[3])
    BY <1>1, <1>3 DEF WalletInv, Bookmarks
  <2> QED
    BY <1>4, <2>1, <2>2, <2>3, BookmarksStep DEF WalletInv
<1>8. Merging'
  <2>1. CASE list' = list
    BY <1>4, <2>1, MergingStep DEF WalletInv
  <2>2. CASE list.st = "fetch"
    <3>1. \A d \in list'.ours : Kept(d)'
      BY <1>2, <1>3, <1>4, KeptStays DEF WalletInv, Merging
    <3>2. list'.ours \subseteq plan'.listed /\ list'.st = "fetch"
      BY <1>1, <1>3, <2>2 DEF WalletInv, Merging
    <3> QED
      BY <3>1, <3>2 DEF Merging
  <2> QED
    BY <1>1, <2>1, <2>2
<1> QED
  BY <1>4, <1>5, <1>6, <1>7, <1>8 DEF WalletInv, Recalls

\* A step of the watcher for t.
LEMMA WatcherStep ==
  ASSUME WalletInv, Recalls, NEW t \in Tx, WalletTypeOK', Recording,
         UNCHANGED <<plan, net, spentInputs, inputs, offered, job, fund, post, list>>,
         \A u \in Tx \ {t} : watch'[u] = watch[u],
         watch'[t].st = "pays" => Watched(t),
         WatchedWell(t)',
         \A w \in writing' : w \in writing \/ (w[1] # "list" /\ Out(w[3]))
  PROVE  WalletInv'
<1>1. Onward
  BY DEF Onward, Begun
<1>2. Roles'
  BY DEF WalletInv, Roles, Jobs, Watched, Made
<1>3. Fixed' /\ Rejected'
  BY DEF WalletInv, Fixed, Jobs, Begun, Rejected, Conflicts
<1>4. Gathering'
  BY DEF WalletInv, Gathering
<1>5. Puts'
  BY <1>1, PutsStep DEF WalletInv
<1>6. Watching'
  <2> SUFFICES ASSUME NEW u \in Tx, watch'[u].st # "idle" PROVE WatchedWell(u)'
    BY DEF Watching
  <2>1. CASE u = t
    BY <2>1
  <2>2. CASE u # t
    <3>1. watch'[u] = watch[u] /\ watch[u].st # "idle" /\ WatchedWell(u)
      BY <2>2 DEF WalletInv, Watching
    <3> QED
      BY <3>1, <1>1, WatchedStays DEF WalletInv
  <2> QED
    BY <2>1, <2>2
<1>7. Sending'
  <2> SUFFICES ASSUME NEW u \in plan.sent PROVE SentWell(u)'
    BY DEF Sending
  <2>1. SentWell(u) /\ job'[u] = job[u] /\ inputs'[u] = inputs[u]
    BY DEF WalletInv, Sending
  <2> QED
    BY <2>1, <1>1, SentStays DEF WalletInv
<1>8. Bookmarks'
  <2>1. \A u \in plan.posted : post'[u].todo \subseteq inputs[u] /\ inputs'[u] = inputs[u]
    BY DEF WalletInv, Bookmarks
  <2>2. \A c \in spentInputs' : c \in spentInputs \/ Out(c)
    OBVIOUS
  <2>3. \A w \in writing' : IF w[1] = "list" THEN list'.st = "ours" /\ w[3] \notin list'.ours
                             ELSE w \in writing \/ Out(w[3])
    BY DEF WalletInv, Bookmarks
  <2> QED
    BY <1>1, <2>1, <2>2, <2>3, BookmarksStep DEF WalletInv
<1>9. Merging'
  BY <1>1, MergingStep DEF WalletInv
<1> QED
  BY <1>2, <1>3, <1>4, <1>5, <1>6, <1>7, <1>8, <1>9 DEF WalletInv, Recalls

\* The watcher starts with everything still to be looked at.
LEMMA OnTxNewKeeps ==
  ASSUME WalletInv, Recalls, NEW t \in Tx, OnTxNew(t)
  PROVE  WalletInv'
<1>1. /\ t \in net \/ post[t].st # "idle"
      /\ UNCHANGED <<plan, net, mined, txs, utxo, recent, spentInputs, writing, inputs, offered, job, fund,
                     post, list, clean, server>>
  BY DEF OnTxNew, Requests, world, store
<1>2. /\ watch'[t].st = "spends" /\ watch'[t].todo = inputs[t]
      /\ \A u \in Tx \ {t} : watch'[u] = watch[u]
      /\ watch' \in [Tx -> [st : {"idle", "spends", "pays", "done"}, todo : SUBSET Tx]]
  BY DEF OnTxNew, WalletInv, WalletTypeOK
<1>3. WalletTypeOK'
  BY <1>1, <1>2 DEF WalletInv, WalletTypeOK, Recalls
<1>4. Recording
  BY <1>1, NoRecord
<1>5. WatchedWell(t)'
  BY <1>1, <1>2 DEF WatchedWell
<1> QED
  BY <1>1, <1>2, <1>3, <1>4, <1>5, WatcherStep

HandlesInput(t, c) ==
  /\ watch[t].st = "spends" /\ c \in watch[t].todo
  /\ watch'[t].st = "spends" /\ watch'[t].todo = watch[t].todo \ {c}
  /\ \A u \in Tx \ {t} : watch'[u] = watch[u]
  /\ writing' = IF IsUnspent(c) THEN writing \cup {<<"watch", t, c>>} ELSE writing

\* It marks an input, or finds that it is not offered.
LEMMA HandleInputKeeps ==
  ASSUME WalletInv, Recalls, NEW t \in Tx, HandleInput(t)
  PROVE  WalletInv'
<1>1. UNCHANGED <<plan, net, mined, txs, utxo, recent, spentInputs, inputs, offered, job, fund,
                  post, list, clean, server>>
  BY DEF HandleInput, Requests, world, store
<1>2. PICK c \in watch[t].todo : /\ watch' = [watch EXCEPT ![t].todo = @ \ {c}]
                                 /\ IF IsUnspent(c) THEN SpendUtxo("watch", t, c) ELSE UNCHANGED writing
  BY DEF HandleInput
<1>3. watch[t].st = "spends"
  BY DEF HandleInput
<1>4. /\ watch' \in [Tx -> [st : {"idle", "spends", "pays", "done"}, todo : SUBSET Tx]]
      /\ watch'[t].st = "spends" /\ watch'[t].todo = watch[t].todo \ {c}
      /\ \A u \in Tx \ {t} : watch'[u] = watch[u]
  <2>1. watch' = Deals(watch, t, c)
    BY <1>2 DEF Deals
  <2>2. /\ Deals(watch, t, c) \in Actors({"idle", "spends", "pays", "done"})
        /\ Deals(watch, t, c)[t].st = watch[t].st /\ Deals(watch, t, c)[t].todo = watch[t].todo \ {c}
        /\ \A u \in Tx \ {t} : Deals(watch, t, c)[u] = watch[u]
    BY ActorTypes, DealsWith DEF WalletInv
  <2> QED
    BY <2>1, <2>2, <1>3 DEF Actors
<1>5. HandlesInput(t, c)
  BY <1>2, <1>3, <1>4 DEF HandlesInput, SpendUtxo, IsUnspent
<1>6. c \in Tx /\ c \in inputs[t] /\ WatchedWell(t)
  BY <1>3, <1>2 DEF WalletInv, WalletTypeOK, Watching, WatchedWell
<1>7. writing \subseteq writing' /\ \A w \in writing' : w \in writing \/ w = <<"watch", t, c>>
  BY <1>5 DEF HandlesInput
<1>8. WalletTypeOK'
  <2>1. writing' \subseteq {"watch", "send", "list"} \X Tx \X Tx
    BY <1>6, <1>7 DEF WalletInv, WalletTypeOK
  <2> QED
    BY <1>1, <1>4, <2>1 DEF WalletInv, WalletTypeOK, Recalls
<1>9. Recording
  <2>1. \A w \in writing' : w \in writing \/ utxo[w[3]] # "none"
    BY <1>5 DEF HandlesInput, IsUnspent
  <2> QED
    BY <1>1, <1>7, <2>1 DEF Recording
<1>10. Out(c)
  BY <1>6 DEF WatchedWell, Out, Spends
<1>11. WatchedWell(t)'
  <2>1. ASSUME NEW d \in inputs'[t], d \notin watch'[t].todo
        PROVE  Marked("watch", t, d)'
    <3>1. CASE d = c
      BY <1>1, <1>5, <3>1 DEF HandlesInput, Marked, Gone, IsUnspent
    <3>2. CASE d # c
      <4>1. d \notin watch[t].todo /\ Marked("watch", t, d)
        BY <1>1, <1>5, <1>6, <2>1, <3>2 DEF HandlesInput, WatchedWell
      <4> QED
        BY <1>1, <1>7, <4>1 DEF Marked, Gone, Recalls
    <3> QED
      BY <3>1, <3>2
  <2>2. /\ t \in net' \/ post'[t].st # "idle"
        /\ watch'[t].todo \subseteq inputs'[t] /\ watch'[t].st = "spends"
    BY <1>1, <1>5, <1>6 DEF WatchedWell, HandlesInput
  <2> QED
    BY <2>1, <2>2 DEF WatchedWell
<1>12. /\ watch'[t].st # "pays"
       /\ \A u \in Tx \ {t} : watch'[u] = watch[u]
  BY <1>5 DEF HandlesInput
<1>13. \A w \in writing' : w \in writing \/ (w[1] # "list" /\ Out(w[3]))
  BY <1>7, <1>10
<1> QED
  BY <1>1, <1>8, <1>9, <1>11, <1>12, <1>13, WatcherStep

\* It goes on to the outputs when all marks are written.
LEMMA HandleOutputsKeeps ==
  ASSUME WalletInv, Recalls, NEW t \in Tx, HandleOutputs(t)
  PROVE  WalletInv'
<1>1. /\ watch[t] = Idle("spends") /\ ~Awaits("watch", t)
      /\ UNCHANGED <<plan, net, mined, utxo, recent, spentInputs, writing, inputs, offered, job, fund,
                     post, list, clean, server>>
      /\ txs' = txs \/ txs' = txs \cup {t}
  BY DEF HandleOutputs, Requests, world, PutTx
<1>2. /\ watch'[t].st \in {"pays", "done"} /\ watch'[t].todo = {}
      /\ watch'[t].st = "pays" => Watched(t)
      /\ \A u \in Tx \ {t} : watch'[u] = watch[u]
      /\ watch' \in [Tx -> [st : {"idle", "spends", "pays", "done"}, todo : SUBSET Tx]]
  <2>1. PICK st \in {"pays", "done"} : watch' = Goes(watch, t, st) /\ (st = "pays" => Watched(t))
    BY DEF HandleOutputs, Goes
  <2>2. watch[t].todo = {} /\ st \in {"idle", "spends", "pays", "done"}
    BY <1>1 DEF Idle
  <2>3. /\ Goes(watch, t, st) \in Actors({"idle", "spends", "pays", "done"})
        /\ Goes(watch, t, st)[t].st = st /\ Goes(watch, t, st)[t].todo = watch[t].todo
        /\ \A u \in Tx \ {t} : Goes(watch, t, st)[u] = watch[u]
    BY <2>2, ActorTypes, GoesOn DEF WalletInv
  <2> QED
    BY <2>1, <2>2, <2>3 DEF Actors
<1>3. WalletTypeOK'
  BY <1>1, <1>2 DEF WalletInv, WalletTypeOK, Recalls
<1>4. Recording
  BY <1>1, NoRecord
<1>5. watch[t].st = "spends" /\ watch[t].todo = {} /\ WatchedWell(t)
  BY <1>1 DEF Idle, WalletInv, Watching
<1>6. WatchedWell(t)'
  <2>1. ASSUME NEW c \in inputs'[t]
        PROVE  Gone(c)'
    <3>1. Marked("watch", t, c)
      BY <1>1, <1>5, <2>1 DEF WatchedWell
    <3>2. <<"watch", t, c>> \notin writing
      <4>1. <<"watch", t, c>>[1] = "watch" /\ <<"watch", t, c>>[2] = t
        OBVIOUS
      <4> QED
        BY <1>1, <4>1 DEF Awaits
    <3> QED
      BY <1>1, <3>1, <3>2 DEF Marked, Gone, Recalls
  <2>2. /\ t \in net' \/ post'[t].st # "idle"
        /\ watch'[t].todo \subseteq inputs'[t]
    BY <1>1, <1>2, <1>5 DEF WatchedWell
  <2> QED
    BY <1>2, <2>1, <2>2 DEF WatchedWell, Marked
<1> QED
  BY <1>1, <1>2, <1>3, <1>4, <1>5, <1>6, WatcherStep

\* It puts an output: if that one had been dealt with, the history has it.
LEMMA HandleMatchKeeps ==
  ASSUME WalletInv, Recalls, NEW t \in Tx, HandleMatch(t)
  PROVE  WalletInv'
<1>1. /\ watch[t].st = "pays" /\ watch' = Goes(watch, t, "done")
      /\ utxo' = [utxo EXCEPT ![t] = "unspent"] /\ recent' = recent \cup {t}
      /\ UNCHANGED <<plan, net, mined, txs, spentInputs, writing, inputs, offered, job, fund,
                     post, list, clean, server>>
  BY DEF HandleMatch, Requests, world, PutUtxo, Goes
<1>2. /\ watch'[t].st = "done" /\ watch'[t].todo = watch[t].todo
      /\ \A u \in Tx \ {t} : watch'[u] = watch[u]
      /\ watch' \in [Tx -> [st : {"idle", "spends", "pays", "done"}, todo : SUBSET Tx]]
  <2>1. /\ Goes(watch, t, "done") \in Actors({"idle", "spends", "pays", "done"})
        /\ Goes(watch, t, "done")[t].st = "done" /\ Goes(watch, t, "done")[t].todo = watch[t].todo
        /\ \A u \in Tx \ {t} : Goes(watch, t, "done")[u] = watch[u]
    BY ActorTypes, GoesOn DEF WalletInv
  <2> QED
    BY <1>1, <2>1 DEF Actors
<1>3. /\ utxo'[t] = "unspent" /\ \A c \in Tx \ {t} : utxo'[c] = utxo[c]
      /\ utxo' \in [Tx -> {"none", "unspent", "spent"}]
  BY <1>1 DEF WalletInv, WalletTypeOK
<1>4. WalletTypeOK'
  BY <1>1, <1>2, <1>3 DEF WalletInv, WalletTypeOK, Recalls
<1>5. WatchedWell(t) /\ watch[t].todo = {}
  BY <1>1 DEF WalletInv, Watching, WatchedWell
<1>6. t \in net
  <2>1. Watched(t)
    BY <1>1 DEF WalletInv, Roles
  <2>2. t \notin plan.posted
    BY <2>1, PlanRoles DEF Watched, Made, WalletInv, WalletTypeOK
  <2> QED
    BY <1>5, <2>2 DEF WatchedWell, WalletInv, Roles
<1>7. t \in crossed' \/ \A u \in Tx : ~DealtWith(u, t)
  <2>1. Stores(t)
    BY <1>1 DEF Stores
  <2> QED
    BY <2>1 DEF WalletInv, Recalled, Overtaken, Recalls
<1>8. Kept(t)'
  BY <1>1, <1>6 DEF Kept
<1>9. Recording
  BY <1>1, <1>3, <1>7, <1>8 DEF Recording
<1>10. WatchedWell(t)'
  <2>1. ASSUME NEW c \in inputs'[t]
        PROVE  Gone(c)'
    <3>1. c \in Tx /\ Gone(c) /\ DealtWith(t, c)
      BY <1>1, <1>5, <2>1 DEF WatchedWell, DealtWith, WalletInv, WalletTypeOK
    <3> QED
      BY <3>1, <1>9, MarkedStays DEF WalletInv
  <2>2. /\ t \in net' \/ post'[t].st # "idle"
        /\ watch'[t].todo \subseteq inputs'[t] /\ watch'[t].todo = {}
    BY <1>1, <1>2, <1>5 DEF WatchedWell
  <2> QED
    BY <2>1, <2>2 DEF WatchedWell, Marked
<1>11. /\ watch'[t].st # "pays"
       /\ \A w \in writing' : w \in writing \/ (w[1] # "list" /\ Out(w[3]))
  BY <1>1, <1>2
<1> QED
  BY <1>1, <1>2, <1>4, <1>9, <1>10, <1>11, WatcherStep

\* A funded output is put: if it had been dealt with, the history has it.
LEMMA PostFundKeeps ==
  ASSUME WalletInv, Recalls, NEW t \in Tx, PostFund(t)
  PROVE  WalletInv'
<1>1. /\ fund[t] = "idle" /\ t \in plan.funded /\ fund' = [fund EXCEPT ![t] = "put"]
      /\ utxo' = [utxo EXCEPT ![t] = "unspent"] /\ recent' = recent \cup {t}
      /\ UNCHANGED <<plan, net, mined, txs, spentInputs, writing, inputs, offered, watch, job,
                     post, list, clean, server>>
  BY DEF PostFund, FundPuts, Funding, world, PutUtxo
<1>2. /\ utxo'[t] = "unspent" /\ \A c \in Tx \ {t} : utxo'[c] = utxo[c]
      /\ utxo' \in [Tx -> {"none", "unspent", "spent"}]
      /\ fund'[t] = "put" /\ \A c \in Tx \ {t} : fund'[c] = fund[c]
      /\ fund' \in [Tx -> {"idle", "put", "done"}]
  BY <1>1 DEF WalletInv, WalletTypeOK
<1>3. WalletTypeOK'
  BY <1>1, <1>2 DEF WalletInv, WalletTypeOK, Recalls
<1>4. Onward
  BY <1>1, <1>2 DEF Onward, Begun
<1>5. Recording
  <2>1. t \in crossed' \/ \A u \in Tx : ~DealtWith(u, t)
    <3>1. Stores(t)'
      BY <1>2 DEF Stores
    <3>2. \A u \in Tx : DealtWith(u, t) => DealtWith(u, t)'
      BY <1>1 DEF DealtWith
    <3> QED
      BY <3>1, <3>2 DEF Recalls, Recalled, Overtaken
  <2>2. Kept(t)'
    BY <1>1 DEF Kept
  <2> QED
    BY <1>1, <1>2, <2>1, <2>2 DEF Recording
<1>6. Roles'
  BY <1>1, <1>2 DEF WalletInv, Roles, Jobs, Watched, Made
<1>7. Fixed' /\ Rejected'
  BY <1>1 DEF WalletInv, Fixed, Jobs, Begun, Rejected, Conflicts
<1>8. Gathering' /\ Puts' /\ Watching' /\ Sending'
  BY <1>1, <1>3, <1>4, <1>5, RecordsStep
<1>9. Bookmarks'
  BY <1>1, <1>4, BookmarksFrame
<1>10. Merging'
  BY <1>1, <1>3, <1>4, <1>5, MergingStep DEF WalletInv
<1> QED
  BY <1>3, <1>6, <1>7, <1>8, <1>9, <1>10 DEF WalletInv, Recalls

\* Its bytes are stored after that.
LEMMA FundStoresKeeps ==
  ASSUME WalletInv, Recalls, NEW t \in Tx, FundStores(t)
  PROVE  WalletInv'
<1>1. /\ fund[t] = "put" /\ fund' = [fund EXCEPT ![t] = "done"] /\ txs' = txs \cup {t}
      /\ UNCHANGED <<plan, net, mined, utxo, recent, spentInputs, writing, inputs, offered, watch, job,
                     post, list, clean, server>>
  BY DEF FundStores, Funding, world, PutTx
<1>2. /\ fund'[t] = "done" /\ \A c \in Tx \ {t} : fund'[c] = fund[c]
      /\ fund' \in [Tx -> {"idle", "put", "done"}]
  BY <1>1 DEF WalletInv, WalletTypeOK
<1>3. WalletTypeOK'
  BY <1>1, <1>2 DEF WalletInv, WalletTypeOK, Recalls
<1>4. Onward /\ Recording
  BY <1>1, <1>2, NoRecord DEF Onward, Begun
<1>5. Roles'
  BY <1>1, <1>2 DEF WalletInv, Roles, Jobs, Watched, Made
<1>6. Fixed' /\ Rejected'
  BY <1>1 DEF WalletInv, Fixed, Jobs, Begun, Rejected, Conflicts
<1>7. Gathering' /\ Puts' /\ Watching' /\ Sending'
  BY <1>1, <1>3, <1>4, RecordsStep
<1>8. Bookmarks'
  BY <1>1, <1>4, BookmarksFrame
<1>9. Merging'
  BY <1>1, <1>3, <1>4, MergingStep DEF WalletInv
<1> QED
  BY <1>3, <1>5, <1>6, <1>7, <1>8, <1>9 DEF WalletInv, Recalls

------------------------------------------------------------------------------
(* Wallet: the broadcast endpoints.                                        *)

PostStates == {"idle", "mark", "p2p", "arc", "woc", "ok", "refused", "unsure"}

\* A step of a broadcast request.
LEMMA PostKeeps ==
  ASSUME WalletInv, Recalls, NEW t \in Tx, t \in plan.posted, Posting,
         txs' \subseteq Tx, spentInputs' \subseteq Tx,
         \A c \in spentInputs' : c \in spentInputs \/ Out(c),
         offered' \in {offered, offered \cup {t}},
         net' = net \/ (net' = net \cup {t} /\ Acceptable(t)),
         post' \in Actors(PostStates), \A u \in Tx \ {t} : post'[u] = post[u],
         post'[t].st # "idle", post'[t].todo \subseteq inputs[t],
         post'[t].st = "refused" => post[t].st = "refused" \/ (t \notin net' /\ Conflicts(t)')
  PROVE  WalletInv'
<1>1. UNCHANGED <<plan, mined, utxo, recent, writing, inputs, watch, job, fund, list, clean, server>>
  BY DEF Posting
<1>2. Onward /\ Recording
  BY <1>1, NoRecord DEF Onward, Begun
<1>3. WalletTypeOK'
  <2>1. /\ net' \subseteq Tx /\ net \subseteq net'
        /\ \A x, y \in net' : x # y => inputs'[x] \cap inputs'[y] = {}
    BY <1>2, NetStep DEF WalletInv
  <2>2. post' \in [Tx -> [st : {"idle", "mark", "p2p", "arc", "woc", "ok", "refused", "unsure"}, todo : SUBSET Tx]]
    BY DEF Actors, PostStates
  <2>3. offered' \subseteq Tx
    BY DEF WalletInv, WalletTypeOK
  <2> QED
    BY <1>1, <2>1, <2>2, <2>3 DEF WalletInv, WalletTypeOK, Recalls
<1>4. /\ t \notin Jobs /\ t \notin plan.registers
  BY PlanRoles DEF Jobs, WalletInv, WalletTypeOK
<1>5. Roles'
  BY <1>1 DEF WalletInv, Roles, Jobs, Watched, Made
<1>6. Fixed'
  <2>1. net \subseteq Tx /\ offered \subseteq Tx
    BY DEF WalletInv, WalletTypeOK
  <2> QED
    BY <1>2, <1>4, <2>1, FixedStep DEF WalletInv
<1>7. Rejected'
  BY <1>2, RejectedStep DEF WalletInv
<1>8. Gathering' /\ Puts' /\ Watching' /\ Sending'
  BY <1>1, <1>2, <1>3, RecordsStep
<1>9. Bookmarks'
  <2>1. ASSUME NEW u \in plan.posted
        PROVE  post'[u].todo \subseteq inputs[u] /\ inputs'[u] = inputs[u]
    <3>1. u \in Tx /\ post[u].todo \subseteq inputs[u]
      BY PlanRoles DEF WalletInv, WalletTypeOK, Bookmarks
    <3> QED
      BY <1>1, <3>1
  <2>2. \A w \in writing' : IF w[1] = "list" THEN list'.st = "ours" /\ w[3] \notin list'.ours
                             ELSE w \in writing \/ Out(w[3])
    BY <1>1 DEF WalletInv, Bookmarks
  <2> QED
    BY <1>2, <2>1, <2>2, BookmarksStep DEF WalletInv
<1>10. Merging'
  BY <1>1, <1>2, <1>3, MergingStep DEF WalletInv
<1> QED
  BY <1>3, <1>5, <1>6, <1>7, <1>8, <1>9, <1>10 DEF WalletInv, Recalls

\* What is posted, and what a request that only goes on changes.
LEMMA Posts ==
  ASSUME WalletInv, NEW t \in Tx
  PROVE  /\ post[t].st # "idle" => t \in plan.posted
         /\ t \in plan.posted => post[t].todo \subseteq inputs[t]
         /\ inputs[t] \subseteq Tx /\ txs \subseteq Tx /\ spentInputs \subseteq Tx
         /\ post \in Actors(PostStates)
         /\ \A c \in spentInputs : c \in spentInputs \/ Out(c)
BY ActorTypes DEF WalletInv, Roles, Bookmarks, WalletTypeOK, PostStates

\* A request that goes on to its next service, or ends.
LEMMA PostGoesOn ==
  ASSUME WalletInv, Recalls, NEW t \in Tx, t \in plan.posted, Posting, UNCHANGED spentInputs, txs' \subseteq Tx,
         offered' \in {offered, offered \cup {t}},
         net' = net \/ (net' = net \cup {t} /\ Acceptable(t)),
         NEW st \in PostStates \ {"idle"}, PostGoes(t, st),
         st = "refused" => t \notin net' /\ Conflicts(t)'
  PROVE  WalletInv'
<1>1. post' = Goes(post, t, st)
  BY DEF PostGoes, Goes
<1>2. /\ Goes(post, t, st) \in Actors(PostStates)
      /\ Goes(post, t, st)[t].st = st /\ Goes(post, t, st)[t].todo = post[t].todo
      /\ \A u \in Tx \ {t} : Goes(post, t, st)[u] = post[u]
  BY Posts, GoesOn
<1>3. /\ post' \in Actors(PostStates) /\ \A u \in Tx \ {t} : post'[u] = post[u]
      /\ post'[t].st = st /\ st # "idle" /\ post'[t].todo \subseteq inputs[t]
  BY <1>1, <1>2, Posts
<1>4. spentInputs' \subseteq Tx /\ \A c \in spentInputs' : c \in spentInputs \/ Out(c)
  BY Posts
<1> QED
  BY <1>3, <1>4, PostKeeps

\* The requests of the two endpoints, and their services.
LEMMA PostBroadcastKeeps ==
  ASSUME WalletInv, Recalls, NEW t \in Tx, PostBroadcast(t)
  PROVE  WalletInv'
<1>1. /\ t \in plan.posted /\ PostGoes(t, "p2p") /\ Posting /\ UNCHANGED spentInputs
      /\ txs' \subseteq Tx /\ offered' = offered /\ net' = net
  BY Posts DEF PostBroadcast
<1>2. "p2p" \in PostStates \ {"idle"}
  BY DEF PostStates
<1> QED
  BY <1>1, <1>2, PostGoesOn

LEMMA PostApiBroadcastKeeps ==
  ASSUME WalletInv, Recalls, NEW t \in Tx, PostApiBroadcast(t)
  PROVE  WalletInv'
<1>1. /\ t \in plan.posted /\ Posting
      /\ txs' \subseteq Tx /\ offered' = offered /\ net' = net /\ spentInputs' = spentInputs
  BY Posts DEF PostApiBroadcast, PutTx
<1>2. /\ post'[t].st = "mark" /\ post'[t].todo = inputs[t]
      /\ \A u \in Tx \ {t} : post'[u] = post[u]
      /\ post' \in Actors(PostStates)
  BY Posts DEF PostApiBroadcast, Actors, PostStates
<1>3. spentInputs' \subseteq Tx /\ \A c \in spentInputs' : c \in spentInputs \/ Out(c)
  BY <1>1, Posts
<1> QED
  BY <1>1, <1>2, <1>3, PostKeeps

LEMMA MarkInputsKeeps ==
  ASSUME WalletInv, Recalls, NEW t \in Tx, MarkInputs(t)
  PROVE  WalletInv'
<1>1. /\ post[t].st = "mark" /\ t \in plan.posted /\ Posting
      /\ txs' \subseteq Tx /\ offered' = offered /\ net' = net
  BY Posts DEF MarkInputs
<1>2. CASE post[t].todo = {}
  <2>1. PostGoes(t, "p2p") /\ UNCHANGED spentInputs
    BY <1>2 DEF MarkInputs
  <2>2. "p2p" \in PostStates \ {"idle"}
    BY DEF PostStates
  <2> QED
    BY <1>1, <2>1, <2>2, PostGoesOn
<1>3. CASE post[t].todo # {}
  <2>1. PICK c \in post[t].todo : spentInputs' = spentInputs \cup {c} /\ post' = Deals(post, t, c)
    BY <1>3 DEF MarkInputs, Deals
  <2>2. /\ Deals(post, t, c) \in Actors(PostStates)
        /\ Deals(post, t, c)[t].st = post[t].st /\ Deals(post, t, c)[t].todo = post[t].todo \ {c}
        /\ \A u \in Tx \ {t} : Deals(post, t, c)[u] = post[u]
    BY Posts, DealsWith
  <2>3. /\ post' \in Actors(PostStates) /\ \A u \in Tx \ {t} : post'[u] = post[u]
        /\ post'[t].st = "mark" /\ post'[t].todo \subseteq inputs[t]
    BY <1>1, <2>1, <2>2, Posts
  <2>4. c \in inputs[t] /\ Out(c)
    BY <1>1, Posts DEF Out, Spends
  <2>5. spentInputs' \subseteq Tx /\ \A d \in spentInputs' : d \in spentInputs \/ Out(d)
    BY <2>1, <2>4, Posts
  <2> QED
    BY <1>1, <2>3, <2>5, PostKeeps
<1> QED
  BY <1>2, <1>3

LEMMA TryP2pKeeps ==
  ASSUME WalletInv, Recalls, NEW t \in Tx, TryP2p(t)
  PROVE  WalletInv'
<1>1. /\ t \in plan.posted /\ Posting /\ UNCHANGED spentInputs
      /\ txs' \subseteq Tx /\ offered' \in {offered, offered \cup {t}}
  BY Posts DEF TryP2p
<1>2. PICK st \in {"ok", "arc"} : PostGoes(t, st) /\ (net' = net \/ (net' = net \cup {t} /\ Acceptable(t)))
  BY DEF TryP2p, AcceptedIf
<1>3. st \in PostStates \ {"idle"} /\ st # "refused"
  BY DEF PostStates
<1> QED
  BY <1>1, <1>2, <1>3, PostGoesOn

LEMMA TryArcKeeps ==
  ASSUME WalletInv, Recalls, NEW t \in Tx, TryArc(t)
  PROVE  WalletInv'
<1>1. /\ t \in plan.posted /\ Posting /\ UNCHANGED spentInputs
      /\ txs' \subseteq Tx /\ offered' \in {offered, offered \cup {t}}
  BY Posts DEF TryArc
<1>2. PICK st \in {"ok", "woc"} : PostGoes(t, st) /\ (net' = net \/ (net' = net \cup {t} /\ Acceptable(t)))
  <2>1. CASE plan.arc /\ (t \in net \/ Acceptable(t)) /\ PostGoes(t, "ok") /\ AcceptedIf(TRUE, t)
    <3>1. net' = net \cup {t} /\ (t \in net => net' = net)
      BY <2>1 DEF AcceptedIf
    <3> QED
      BY <2>1, <3>1
  <2>2. CASE PostGoes(t, "woc") /\ \E accepted \in {FALSE, plan.arc /\ Acceptable(t)} : AcceptedIf(accepted, t)
    <3>1. PICK accepted \in {FALSE, plan.arc /\ Acceptable(t)} : AcceptedIf(accepted, t)
      BY <2>2
    <3>2. net' = net \/ (net' = net \cup {t} /\ Acceptable(t))
      BY <3>1 DEF AcceptedIf
    <3> QED
      BY <2>2, <3>2
  <2> QED
    BY <2>1, <2>2 DEF TryArc
<1>3. st \in PostStates \ {"idle"} /\ st # "refused"
  BY DEF PostStates
<1> QED
  BY <1>1, <1>2, <1>3, PostGoesOn

\* A refusal of the last service is one of what is neither new nor known, and
\* nothing is claimed of a request that it has not settled.
LEMMA TryWocKeeps ==
  ASSUME WalletInv, Recalls, NEW t \in Tx, TryWoc(t)
  PROVE  WalletInv'
<1>1. /\ t \in plan.posted /\ Posting /\ UNCHANGED spentInputs
      /\ txs' \subseteq Tx /\ offered' \in {offered, offered \cup {t}}
  BY Posts DEF TryWoc
<1>2. net' = net \/ (net' = net \cup {t} /\ Acceptable(t))
  <2>1. CASE AcceptedIf(Acceptable(t), t)
    BY <2>1 DEF AcceptedIf
  <2>2. CASE \E accepted \in {FALSE, Acceptable(t)} : AcceptedIf(accepted, t)
    BY <2>2 DEF AcceptedIf
  <2> QED
    BY <2>1, <2>2 DEF TryWoc
<1>3. CASE PostGoes(t, "ok") \/ PostGoes(t, "unsure")
  <2>1. PICK st \in {"ok", "unsure"} : PostGoes(t, st)
    BY <1>3
  <2>2. st \in PostStates \ {"idle"} /\ st # "refused"
    BY DEF PostStates
  <2> QED
    BY <1>1, <1>2, <2>1, <2>2, PostGoesOn
<1>4. CASE ~NewOrKnown(t) /\ PostGoes(t, "refused")
  <2>1. "refused" \in PostStates \ {"idle"}
    BY DEF PostStates
  <2>2. net' = net /\ t \notin net' /\ Conflicts(t)
    BY <1>4, <1>2 DEF NewOrKnown, Acceptable
  <2>3. Conflicts(t)'
    BY <1>1, <2>2 DEF Conflicts, Posting
  <2> QED
    BY <1>1, <1>2, <1>4, <2>1, <2>2, <2>3, PostGoesOn
<1> QED
  BY <1>3, <1>4 DEF TryWoc

------------------------------------------------------------------------------
(* Wallet: the listing, the clean-up and the shutdown.                     *)

ListStates == {"idle", "fetch", "theirs", "ours", "done"}

\* A step of the listing.
LEMMA ListKeeps ==
  ASSUME WalletInv, Recalls, Listing,
         spentInputs' \subseteq spentInputs,
         writing \subseteq writing',
         \A w \in writing' : \/ w \in writing
                             \/ /\ w[1] = "list" /\ w[2] \in Tx
                                /\ w = <<"list", w[2], w[2]>> /\ utxo[w[2]] # "none",
         \A w \in writing' : w[1] = "list" => list'.st = "ours" /\ w[3] \notin list'.ours,
         list'.st \in ListStates,
         list' = [st |-> list'.st, todo |-> list'.todo, ours |-> list'.ours,
                fresh |-> list'.fresh, theirs |-> list'.theirs, heard |-> list'.heard],
         list'.todo \subseteq Tx, list'.ours \subseteq Tx, list'.theirs \subseteq Tx,
         list'.fresh \subseteq Tx, list'.heard \in BOOLEAN,
         Merging'
  PROVE  WalletInv'
<1>1. UNCHANGED <<plan, net, mined, txs, utxo, recent, inputs, offered, watch, job, fund, post, clean, server>>
  BY DEF Listing, world
<1>2. Onward /\ Roles' /\ Fixed' /\ Rejected'
  BY <1>1, StillStep
<1>3. Recording
  BY <1>1 DEF Recording
<1>4. WalletTypeOK'
  <2>1. list' \in [st : {"idle", "fetch", "theirs", "ours", "done"}, todo : SUBSET Tx,
                   ours : SUBSET Tx, fresh : SUBSET Tx, theirs : SUBSET Tx, heard : BOOLEAN]
    BY DEF ListStates
  <2>2. writing' \subseteq {"watch", "send", "list"} \X Tx \X Tx
    BY DEF WalletInv, WalletTypeOK
  <2>3. spentInputs' \subseteq Tx
    BY DEF WalletInv, WalletTypeOK
  <2> QED
    BY <1>1, <2>1, <2>2, <2>3 DEF WalletInv, WalletTypeOK, Recalls
<1>5. Gathering' /\ Puts' /\ Watching' /\ Sending'
  BY <1>1, <1>2, <1>3, <1>4, RecordsStep
<1>6. Bookmarks'
  <2>1. \A t \in plan.posted : post'[t].todo \subseteq inputs[t] /\ inputs'[t] = inputs[t]
    BY <1>1 DEF WalletInv, Bookmarks
  <2>2. \A c \in spentInputs' : c \in spentInputs \/ Out(c)
    OBVIOUS
  <2>3. \A w \in writing' : IF w[1] = "list" THEN list'.st = "ours" /\ w[3] \notin list'.ours
                            ELSE w \in writing \/ Out(w[3])
    OBVIOUS
  <2> QED
    BY <1>2, <2>1, <2>2, <2>3, BookmarksStep DEF WalletInv
<1> QED
  BY <1>2, <1>4, <1>5, <1>6 DEF WalletInv, Recalls

\* The listing takes what is unspent, which has been put.
LEMMA GetUnspentKeeps ==
  ASSUME WalletInv, Recalls, GetUnspent
  PROVE  WalletInv'
<1>1. /\ list.st = "idle" /\ Listing /\ spentInputs' = spentInputs /\ writing' = writing
      /\ list' = [list EXCEPT !.st = "fetch", !.ours = Unspent \cap plan.listed,
                               !.fresh = Unspent \cap plan.listed \cap recent]
  BY DEF GetUnspent
<1>2. /\ list \in [st : {"idle", "fetch", "theirs", "ours", "done"}, todo : SUBSET Tx,
                   ours : SUBSET Tx, fresh : SUBSET Tx, theirs : SUBSET Tx, heard : BOOLEAN]
      /\ writing \subseteq {"watch", "send", "list"} \X Tx \X Tx
  BY DEF WalletInv, WalletTypeOK
<1>3. /\ list'.st = "fetch" /\ list'.ours = Unspent \cap plan.listed
      /\ list'.fresh = Unspent \cap plan.listed \cap recent
      /\ list'.todo = list.todo /\ list'.theirs = list.theirs /\ list'.heard = list.heard
      /\ list' = [st |-> list'.st, todo |-> list'.todo, ours |-> list'.ours,
                fresh |-> list'.fresh, theirs |-> list'.theirs, heard |-> list'.heard]
  BY <1>1, <1>2
<1>4. list'.todo \subseteq Tx /\ list'.ours \subseteq Tx /\ list'.theirs \subseteq Tx /\ list'.st \in ListStates
      /\ list'.fresh \subseteq Tx /\ list'.heard \in BOOLEAN
  BY <1>2, <1>3 DEF Unspent, ListStates
<1>5. \A w \in writing' : w[1] # "list"
  BY <1>1 DEF WalletInv, Bookmarks
<1>6. Merging'
  <2>1. UNCHANGED <<plan, net, watch, fund>>
    BY <1>1 DEF Listing, world
  <2>2. \A c \in list'.ours : Kept(c)'
    BY <1>3, <2>1 DEF WalletInv, Puts, Unspent, Kept
  <2> QED
    BY <1>3, <2>1, <2>2 DEF Merging
<1> QED
  BY <1>1, <1>3, <1>4, <1>5, <1>6, ListKeeps

\* An answer of GorillaPool has every output of the network that came by the
\* network and is not recent, unless a block has its spend.
LEMMA GorillaPoolAnswersKeeps ==
  ASSUME WalletInv, Recalls, GorillaPoolAnswers
  PROVE  WalletInv'
<1>1. list.st = "fetch" /\ Listing /\ spentInputs' = spentInputs /\ writing' = writing
  BY DEF GorillaPoolAnswers
<1>2. /\ list \in [st : {"idle", "fetch", "theirs", "ours", "done"}, todo : SUBSET Tx,
                   ours : SUBSET Tx, fresh : SUBSET Tx, theirs : SUBSET Tx, heard : BOOLEAN]
      /\ net \subseteq Tx /\ mined \subseteq net
  BY DEF WalletInv, WalletTypeOK
<1>3. \A w \in writing' : w[1] # "list"
  BY <1>1 DEF WalletInv, Bookmarks
<1>4. UNCHANGED <<plan, net, inputs, offered, post>>
  BY <1>1 DEF Listing, world
<1>5. \A c \in list.ours : Kept(c)' /\ Kept(c) /\ c \in plan.listed
  BY <1>4 DEF WalletInv, Merging, Kept
<1>6. ASSUME NEW theirs \in SUBSET Indexed,
             (Indexed \cap list.ours) \ (list.fresh \cup plan.sent \cup plan.funded) \subseteq theirs,
             list' = [list EXCEPT !.st = "theirs", !.theirs = theirs, !.todo = theirs]
      PROVE  WalletInv'
  <2>1. /\ list'.st = "theirs" /\ list'.ours = list.ours /\ list'.fresh = list.fresh
        /\ list'.todo = theirs /\ list'.theirs = theirs /\ list'.heard = list.heard
        /\ list' = [st |-> list'.st, todo |-> list'.todo, ours |-> list'.ours,
                    fresh |-> list'.fresh, theirs |-> list'.theirs, heard |-> list'.heard]
    BY <1>2, <1>6
  <2>2. list'.todo \subseteq Tx /\ list'.ours \subseteq Tx /\ list'.theirs \subseteq Tx /\ list'.st \in ListStates
        /\ list'.fresh \subseteq Tx /\ list'.heard \in BOOLEAN
    BY <1>2, <2>1 DEF Indexed, ListStates
  <2>3. ASSUME NEW c \in list.ours \ (plan.sent \cup plan.funded)
        PROVE  c \in list.fresh \cup theirs \/ Out(c)'
    <3>1. c \in net /\ c \in plan.listed
      BY <1>5 DEF Kept
    <3>2. CASE c \in Indexed
      BY <1>6, <3>2
    <3>3. CASE c \notin Indexed
      <4>1. PICK t \in mined : c \in inputs[t]
        BY <3>1, <3>3 DEF Indexed
      <4>2. t \in Tx /\ t \in net
        BY <1>2
      <4> QED
        BY <1>4, <4>1, <4>2 DEF Out, Spends
    <3> QED
      BY <3>2, <3>3
  <2>4. Merging'
    BY <1>4, <1>5, <2>1, <2>3 DEF Merging
  <2> QED
    BY <1>1, <1>3, <2>1, <2>2, <2>4, ListKeeps
<1>7. ASSUME list' = [list EXCEPT !.st = "theirs", !.heard = FALSE]
      PROVE  WalletInv'
  <2>1. /\ list'.st = "theirs" /\ list'.ours = list.ours /\ list'.fresh = list.fresh
        /\ list'.todo = list.todo /\ list'.theirs = list.theirs /\ list'.heard = FALSE
        /\ list' = [st |-> list'.st, todo |-> list'.todo, ours |-> list'.ours,
                    fresh |-> list'.fresh, theirs |-> list'.theirs, heard |-> list'.heard]
    BY <1>2, <1>7
  <2>2. list'.todo \subseteq Tx /\ list'.ours \subseteq Tx /\ list'.theirs \subseteq Tx /\ list'.st \in ListStates
        /\ list'.fresh \subseteq Tx /\ list'.heard \in BOOLEAN
    BY <1>2, <2>1 DEF ListStates
  <2>3. Merging'
    BY <1>4, <1>5, <2>1 DEF Merging
  <2> QED
    BY <1>1, <1>3, <2>1, <2>2, <2>3, ListKeeps
<1> QED
  BY <1>6, <1>7 DEF GorillaPoolAnswers

\* What keeps its mark was spent by something that is out.
LEMMA MergeTheirsKeeps ==
  ASSUME WalletInv, Recalls, MergeTheirs
  PROVE  WalletInv'
<1>1. list.st = "theirs" /\ Listing /\ writing' = writing
  BY DEF MergeTheirs
<1>2. /\ list \in [st : {"idle", "fetch", "theirs", "ours", "done"}, todo : SUBSET Tx,
                   ours : SUBSET Tx, fresh : SUBSET Tx, theirs : SUBSET Tx, heard : BOOLEAN]
  BY DEF WalletInv, WalletTypeOK
<1>3. \A w \in writing' : w[1] # "list"
  BY <1>1 DEF WalletInv, Bookmarks
<1>4. UNCHANGED <<plan, net, watch, fund, utxo, recent, inputs, offered, post>>
  BY <1>1 DEF Listing, world
<1>5. /\ \A c \in Tx : Kept(c) => Kept(c)'
      /\ \A c \in Tx : Out(c) => Out(c)'
  BY <1>4 DEF Kept, Out, Spends
<1>6. CASE list.todo = {}
  <2>1. list' = [list EXCEPT !.st = "ours"] /\ spentInputs' = spentInputs
    BY <1>6 DEF MergeTheirs
  <2>2. /\ list'.st = "ours" /\ list'.todo = {} /\ list'.ours = list.ours /\ list'.theirs = list.theirs
        /\ list'.fresh = list.fresh /\ list'.heard = list.heard
        /\ list' = [st |-> list'.st, todo |-> list'.todo, ours |-> list'.ours,
                fresh |-> list'.fresh, theirs |-> list'.theirs, heard |-> list'.heard]
    BY <2>1, <1>2, <1>6
  <2>3. list'.todo \subseteq Tx /\ list'.ours \subseteq Tx /\ list'.theirs \subseteq Tx /\ list'.st \in ListStates
      /\ list'.fresh \subseteq Tx /\ list'.heard \in BOOLEAN
    BY <2>2, <1>2 DEF ListStates
  <2>4. Merging'
    BY <1>1, <1>2, <1>4, <1>5, <1>6, <2>2 DEF WalletInv, Merging
  <2> QED
    BY <1>1, <1>3, <2>1, <2>2, <2>3, <2>4, ListKeeps
<1>7. CASE list.todo # {}
  <2>1. PICK c \in list.todo :
          /\ spentInputs' = IF c \in mined THEN spentInputs \ {c} ELSE spentInputs
          /\ list' = [list EXCEPT !.todo = @ \ {c},
                                  !.ours = IF c \in spentInputs' THEN @ ELSE @ \ {c}]
    BY <1>7 DEF MergeTheirs
  <2>2. spentInputs' \subseteq spentInputs
    BY <2>1
  <2>3. /\ list'.st = "theirs" /\ list'.todo = list.todo \ {c} /\ list'.theirs = list.theirs
        /\ list'.fresh = list.fresh /\ list'.heard = list.heard
        /\ list'.ours \subseteq list.ours /\ (c \in list'.ours => c \in spentInputs)
        /\ list' = [st |-> list'.st, todo |-> list'.todo, ours |-> list'.ours,
                fresh |-> list'.fresh, theirs |-> list'.theirs, heard |-> list'.heard]
    BY <1>1, <1>2, <2>1, <2>2
  <2>4. list'.todo \subseteq Tx /\ list'.ours \subseteq Tx /\ list'.theirs \subseteq Tx /\ list'.st \in ListStates
      /\ list'.fresh \subseteq Tx /\ list'.heard \in BOOLEAN
    BY <2>3, <1>2 DEF ListStates
  <2>5. Merging'
    <3>1. c \in list'.ours => Out(c)
      BY <2>3 DEF WalletInv, Bookmarks
    <3>2. ASSUME list.heard, NEW d \in list'.ours \ (plan.sent \cup plan.funded)
          PROVE  d \in list'.fresh \cup list'.todo \/ Out(d)'
      <4>1. d \in Tx /\ d \in list.ours
        BY <1>2, <2>3
      <4>2. d \in list.fresh \cup list.todo \/ Out(d)
        BY <4>1, <3>2, <1>1 DEF WalletInv, Merging
      <4> QED
        BY <4>1, <4>2, <3>1, <1>5, <2>3
    <3>3. \A d \in list'.ours : Kept(d)'
      BY <1>2, <1>5, <2>3 DEF WalletInv, Merging
    <3>4. list'.ours \subseteq plan'.listed
      BY <1>4, <2>3 DEF WalletInv, Merging
    <3> QED
      BY <1>4, <2>3, <3>2, <3>3, <3>4 DEF Merging
  <2> QED
    BY <1>1, <1>3, <2>2, <2>3, <2>4, <2>5, ListKeeps
<1> QED
  BY <1>6, <1>7

\* What the listing marks is no longer in its hands.
LEMMA MergeOursKeeps ==
  ASSUME WalletInv, Recalls, MergeOurs
  PROVE  WalletInv'
<1>1. list.st = "ours" /\ Listing /\ spentInputs' = spentInputs /\ ~\E c \in Tx : Awaits("list", c)
  BY DEF MergeOurs
<1>2. /\ list \in [st : {"idle", "fetch", "theirs", "ours", "done"}, todo : SUBSET Tx,
                   ours : SUBSET Tx, fresh : SUBSET Tx, theirs : SUBSET Tx, heard : BOOLEAN]
      /\ writing \subseteq {"watch", "send", "list"} \X Tx \X Tx
  BY DEF WalletInv, WalletTypeOK
<1>3. \A w \in writing : w[1] # "list"
  BY <1>1, <1>2 DEF Awaits
<1>4. UNCHANGED <<plan, net, watch, fund, utxo, recent, inputs, offered, post>>
  BY <1>1 DEF Listing, world
<1>5. /\ \A c \in Tx : Kept(c) => Kept(c)'
      /\ \A c \in Tx : Out(c) => Out(c)'
  BY <1>4 DEF Kept, Out, Spends
<1>6. CASE list.ours = {}
  <2>1. list' = [NoList EXCEPT !.st = "done"] /\ writing' = writing
    BY <1>6 DEF MergeOurs
  <2>2. /\ list'.st = "done" /\ list'.todo = {} /\ list'.ours = {} /\ list'.theirs = {}
        /\ list' = [st |-> list'.st, todo |-> list'.todo, ours |-> list'.ours,
                fresh |-> list'.fresh, theirs |-> list'.theirs, heard |-> list'.heard]
        /\ list'.st \in ListStates /\ list'.fresh = {} /\ list'.heard = TRUE
    BY <2>1 DEF NoList, ListStates
  <2>3. Merging'
    BY <2>2 DEF Merging
  <2> QED
    BY <1>1, <1>3, <2>1, <2>2, <2>3, ListKeeps
<1>7. CASE list.ours # {}
  <2>1. PICK c \in list.ours :
          /\ list' = [list EXCEPT !.ours = @ \ {c}]
          /\ IF IsRecent(c) THEN UNCHANGED writing ELSE SpendUtxo("list", c, c)
    BY <1>7 DEF MergeOurs
  <2>2. /\ list'.st = "ours" /\ list'.todo = list.todo /\ list'.theirs = list.theirs
        /\ list'.ours = list.ours \ {c} /\ list'.fresh = list.fresh /\ list'.heard = list.heard
        /\ list' = [st |-> list'.st, todo |-> list'.todo, ours |-> list'.ours,
                fresh |-> list'.fresh, theirs |-> list'.theirs, heard |-> list'.heard]
    BY <1>1, <1>2, <2>1
  <2>3. list'.todo \subseteq Tx /\ list'.ours \subseteq Tx /\ list'.theirs \subseteq Tx /\ list'.st \in ListStates
      /\ list'.fresh \subseteq Tx /\ list'.heard \in BOOLEAN
    BY <2>2, <1>2 DEF ListStates
  <2>4. writing' = writing \/ (writing' = writing \cup {<<"list", c, c>>} /\ utxo[c] # "none")
    BY <2>1 DEF SpendUtxo
  <2>5. c \in Tx
    BY <1>2
  <2>6. /\ writing \subseteq writing'
        /\ \A w \in writing' : \/ w \in writing
                               \/ /\ w[1] = "list" /\ w[2] \in Tx
                                  /\ w = <<"list", w[2], w[2]>> /\ utxo[w[2]] # "none" /\ w[3] = c
    BY <2>4, <2>5
  <2>7. \A w \in writing' : w[1] = "list" => list'.st = "ours" /\ w[3] \notin list'.ours
    BY <1>3, <2>2, <2>6
  <2>8. Merging'
    <3>1. \A d \in list'.ours : Kept(d)'
      BY <1>2, <1>5, <2>2 DEF WalletInv, Merging
    <3>2. list'.ours \subseteq plan'.listed /\ list'.todo = {}
      BY <1>1, <1>4, <2>2 DEF WalletInv, Merging
    <3>3. ASSUME list.heard, NEW d \in list'.ours \ (plan.sent \cup plan.funded)
          PROVE  d \in list'.fresh \cup list'.todo \/ Out(d)'
      <4>1. d \in Tx /\ d \in list.ours
        BY <1>2, <2>2
      <4>2. d \in list.fresh \cup list.todo \/ Out(d)
        BY <4>1, <3>3, <1>1 DEF WalletInv, Merging
      <4> QED
        BY <4>1, <4>2, <1>5, <2>2
    <3> QED
      BY <1>4, <2>2, <3>1, <3>2, <3>3 DEF Merging
  <2> QED
    BY <1>1, <2>2, <2>3, <2>6, <2>7, <2>8, ListKeeps
<1> QED
  BY <1>6, <1>7

\* A step of the clean-up, which may drop what is unspent.
LEMMA CleaningKeeps ==
  ASSUME WalletInv, Recalls, Cleaning, txs' \subseteq Tx, recent' \subseteq recent,
         utxo' \in [Tx -> {"none", "unspent", "spent"}],
         \A c \in Tx : utxo'[c] = utxo[c] \/ utxo'[c] = "none",
         clean' \in [st : {"idle", "txs", "utxos", "drop"}, todo : SUBSET Tx, txid : SUBSET Tx]
  PROVE  WalletInv'
<1>1. UNCHANGED <<plan, net, mined, spentInputs, writing, inputs, offered, watch, job, fund, post, list, server>>
  BY DEF Cleaning, world
<1>2. Onward /\ Roles' /\ Fixed' /\ Rejected'
  BY <1>1, StillStep
<1>3. Recording
  BY <1>1 DEF Recording
<1>4. WalletTypeOK'
  BY <1>1 DEF WalletInv, WalletTypeOK, Recalls
<1>5. Gathering' /\ Puts' /\ Watching' /\ Sending'
  BY <1>1, <1>2, <1>3, <1>4, RecordsStep
<1>6. Bookmarks'
  BY <1>1, <1>2, BookmarksFrame
<1>7. Merging'
  BY <1>1, <1>2, MergingStep DEF WalletInv
<1> QED
  BY <1>2, <1>4, <1>5, <1>6, <1>7 DEF WalletInv, Recalls

\* The clean-up drops only what is unspent.
LEMMA CleanupKeeps ==
  ASSUME WalletInv, Recalls, CleanupStarts \/ CleanupStep
  PROVE  WalletInv'
<1>1. /\ txs \subseteq Tx /\ recent \subseteq Tx /\ utxo \in [Tx -> {"none", "unspent", "spent"}]
      /\ clean \in [st : {"idle", "txs", "utxos", "drop"}, todo : SUBSET Tx, txid : SUBSET Tx]
      /\ NoRun \in [st : {"idle", "txs", "utxos", "drop"}, todo : SUBSET Tx, txid : SUBSET Tx]
      /\ Unspent \subseteq Tx
  BY DEF WalletInv, WalletTypeOK, NoRun, Unspent
<1>2. CASE CleanupStarts
  <2>1. /\ Cleaning /\ txs' = txs /\ utxo' = utxo /\ recent' = recent
        /\ clean' = [NoRun EXCEPT !.st = "txs", !.todo = txs]
    BY <1>2 DEF CleanupStarts
  <2>2. clean' \in [st : {"idle", "txs", "utxos", "drop"}, todo : SUBSET Tx, txid : SUBSET Tx]
    BY <1>1, <2>1
  <2> QED
    BY <1>1, <2>1, <2>2, CleaningKeeps
<1>3. CASE CleanupLooks
  <2>1. Cleaning /\ txs' = txs /\ utxo' = utxo /\ recent' = recent
    BY <1>3 DEF CleanupLooks
  <2>2. clean' \in [st : {"idle", "txs", "utxos", "drop"}, todo : SUBSET Tx, txid : SUBSET Tx]
    <3>1. CASE clean' = NoRun
      BY <1>1, <3>1
    <3>2. CASE clean' = [NoRun EXCEPT !.st = "utxos", !.todo = Unspent]
      BY <1>1, <3>2
    <3>3. CASE \E t \in clean.todo : clean' = [clean EXCEPT !.todo = @ \ {t}, !.txid = {t}]
      <4>1. PICK t \in clean.todo : clean' = [clean EXCEPT !.todo = @ \ {t}, !.txid = {t}]
        BY <3>3
      <4>2. t \in Tx
        BY <1>1
      <4> QED
        BY <1>1, <4>1, <4>2
    <3> QED
      BY <1>3, <3>1, <3>2, <3>3 DEF CleanupLooks
  <2> QED
    BY <1>1, <2>1, <2>2, CleaningKeeps
<1>4. CASE CleanupAnswered
  <2>1. Cleaning /\ txs' \subseteq txs /\ utxo' = utxo /\ recent' = recent
    BY <1>4 DEF CleanupAnswered
  <2>2. clean' \in [st : {"idle", "txs", "utxos", "drop"}, todo : SUBSET Tx, txid : SUBSET Tx]
    <3>1. clean' = [clean EXCEPT !.st = "drop"] \/ clean' = [clean EXCEPT !.txid = {}]
      BY <1>4 DEF CleanupAnswered
    <3> QED
      BY <1>1, <3>1
  <2>3. txs' \subseteq Tx
    BY <1>1, <2>1
  <2> QED
    BY <1>1, <2>1, <2>2, <2>3, CleaningKeeps
<1>5. CASE CleanupDrops
  <2>1. /\ Cleaning /\ txs' = txs
        /\ \/ utxo' = utxo /\ recent' = recent
           \/ /\ utxo' = [t \in Tx |-> IF t \in clean.txid THEN "none" ELSE utxo[t]]
              /\ recent' = recent \ clean.txid
        /\ clean' = [clean EXCEPT !.st = "utxos", !.txid = {}]
    BY <1>5 DEF CleanupDrops
  <2>2. clean' \in [st : {"idle", "txs", "utxos", "drop"}, todo : SUBSET Tx, txid : SUBSET Tx]
    BY <1>1, <2>1
  <2>3. /\ utxo' \in [Tx -> {"none", "unspent", "spent"}]
        /\ \A c \in Tx : utxo'[c] = utxo[c] \/ utxo'[c] = "none"
        /\ recent' \subseteq recent
    BY <1>1, <2>1
  <2> QED
    BY <1>1, <2>1, <2>2, <2>3, CleaningKeeps
<1> QED
  BY <1>2, <1>3, <1>4, <1>5 DEF CleanupStep

\* The server stops.
LEMMA ServerGoesKeeps ==
  ASSUME WalletInv, Recalls, NEW st \in {"up", "stopping", "closing", "closed"}, ServerGoes(st)
  PROVE  WalletInv'
<1>1. /\ server' = st
      /\ UNCHANGED <<plan, net, mined, txs, utxo, recent, spentInputs, writing, inputs, offered, watch, job, fund,
                     post, list, clean>>
  BY DEF ServerGoes, world, store
<1>2. Onward /\ Roles' /\ Fixed' /\ Rejected' /\ Recording
  BY <1>1, StillStep, NoRecord
<1>3. WalletTypeOK'
  BY <1>1 DEF WalletInv, WalletTypeOK, Recalls
<1>4. Gathering' /\ Puts' /\ Watching' /\ Sending'
  BY <1>1, <1>2, <1>3, RecordsStep
<1>5. Bookmarks'
  BY <1>1, <1>2, BookmarksFrame
<1>6. Merging'
  BY <1>1, <1>2, <1>3, MergingStep DEF WalletInv
<1> QED
  BY <1>2, <1>3, <1>4, <1>5, <1>6 DEF WalletInv, Recalls

------------------------------------------------------------------------------
(* Wallet: the jobs.                                                       *)

JobStates == {"idle", "gather", "connect", "pushed", "mark", "change", "done", "failed"}

\* What a send has gathered.
Gathered(t) ==
  /\ IsFiniteSet(inputs[t])
  /\ job[t].st \in {"idle", "gather"} => Cardinality(inputs[t]) < plan.need
  /\ job[t].st \in {"connect", "pushed", "mark", "change", "done"} => Cardinality(inputs[t]) = plan.need

\* The states a job goes to.
JobMoves(t) ==
  /\ job' \in Actors(JobStates) /\ \A u \in Tx \ {t} : job'[u] = job[u]
  /\ job[t].st # "done" /\ job'[t].st # "idle"
  /\ Begun(t) => Begun(t)' /\ (job[t].st # "pushed" => job'[t].st # "pushed")
  /\ job'[t].st \in {"mark", "change"} => t \in plan.sent
  /\ job'[t].st \in {"pushed", "mark", "change", "done"} => t \in offered'

\* Only what is not out gets inputs, and what is offered has them.
JobOffers(t) ==
  /\ inputs' \in [Tx -> SUBSET Tx]
  /\ \A u \in offered \cup net \cup plan.posted \cup (plan.sent \ {t}) : inputs'[u] = inputs[u]
  /\ offered \subseteq offered' /\ offered' \subseteq offered \cup {t} \cup plan.registers
  /\ t \in offered' \ offered => Begun(t)'
  /\ \A r \in (offered' \ offered) \cap plan.registers :
       \A b \in plan.bonds : Begun(b)' /\ job'[b].st # "pushed"

\* A step of a job.
LEMMA JobKeeps ==
  ASSUME WalletInv, Recalls, NEW t \in Tx, t \in Jobs, Job, JobMoves(t), JobOffers(t),
         txs' \subseteq Tx, utxo' \in [Tx -> {"none", "unspent", "spent"}],
         recent \subseteq recent', recent' \subseteq Tx,
         writing' \subseteq {"watch", "send", "list"} \X Tx \X Tx,
         \A w \in writing' : w \in writing \/ (w[1] # "list" /\ Out(w[3])),
         Recording,
         t \in plan.sent => Gathered(t)' /\ SentWell(t)'
  PROVE  WalletInv'
<1>1. UNCHANGED <<plan, net, mined, spentInputs, watch, fund, post, list, clean, server>>
  BY DEF Job, world
<1>2. Onward
  <2>1. \A u \in Tx : post[u].st # "idle" => u \in plan.posted
    BY DEF WalletInv, Roles
  <2>2. \A u \in Tx : u \in net \cup offered \/ post[u].st # "idle" => inputs'[u] = inputs[u]
    BY <2>1 DEF JobOffers
  <2>3. \A u \in Tx : /\ Begun(u) => Begun(u)'
                      /\ Begun(u) /\ job[u].st # "pushed" => job'[u].st # "pushed"
    BY DEF JobMoves, Begun
  <2>4. offered \subseteq offered'
    BY DEF JobOffers
  <2> QED
    BY <1>1, <2>2, <2>3, <2>4 DEF Onward
<1>3. /\ plan.sent \subseteq Tx /\ plan.posted \subseteq Tx /\ plan.registers \subseteq Tx
      /\ \A u \in plan.sent : u \notin plan.posted
  BY PlanRoles DEF WalletInv, WalletTypeOK
<1>4. \A u \in plan.sent : Gathered(u)'
  <2> SUFFICES ASSUME NEW u \in plan.sent, u # t PROVE Gathered(u)'
    OBVIOUS
  <2>1. job'[u] = job[u] /\ inputs'[u] = inputs[u]
    BY <1>3 DEF JobMoves, JobOffers
  <2>2. Gathered(u)
    BY DEF Gathered, WalletInv, Gathering, WalletTypeOK
  <2> QED
    BY <1>1, <2>1, <2>2 DEF Gathered
<1>5. Gathering'
  BY <1>1, <1>4 DEF Gathering, Gathered
<1>6. WalletTypeOK'
  <2>1. job' \in [Tx -> [st : {"idle", "gather", "connect", "pushed", "mark", "change", "done", "failed"},
                         todo : SUBSET Tx]]
    BY DEF JobMoves, Actors, JobStates
  <2>2. inputs' \in [Tx -> SUBSET Tx] /\ offered' \subseteq Tx
    BY <1>3 DEF JobOffers, WalletInv, WalletTypeOK
  <2>3. \A u \in plan.sent : job'[u].st \in {"pushed", "mark", "change", "done"}
                                => Cardinality(inputs'[u]) = plan.need
    BY <1>1, <1>4 DEF Gathered
  <2>4. \A x, y \in net' : x # y => inputs'[x] \cap inputs'[y] = {}
    BY <1>2, NetStep DEF WalletInv
  <2> QED
    BY <1>1, <2>1, <2>2, <2>3, <2>4 DEF WalletInv, WalletTypeOK, Recalls
<1>7. Roles'
  <2>1. Jobs' = Jobs /\ Made' = Made /\ offered' \subseteq Jobs \cup plan.registers \cup plan.posted
    BY <1>1 DEF Jobs, Made, WalletInv, Roles, JobOffers
  <2>2. \A u \in Tx : /\ job'[u].st # "idle" => u \in Jobs
                      /\ job'[u].st \in {"mark", "change"} => u \in plan.sent
                      /\ job'[u].st \in {"pushed", "mark", "change", "done"} => u \in offered'
    BY DEF JobMoves, JobOffers, WalletInv, Roles
  <2>3. net' \subseteq plan'.relayed \cup plan'.funded \cup offered' \cup plan'.posted
    BY <1>1 DEF JobOffers, WalletInv, Roles
  <2> QED
    BY <1>1, <2>1, <2>2, <2>3 DEF WalletInv, Roles, Watched
<1>8. Fixed'
  <2>1. net \subseteq Tx /\ offered \subseteq Tx /\ t \notin plan.registers /\ \A r \in plan.registers : r \notin Jobs
    BY PlanRoles DEF WalletInv, WalletTypeOK, Jobs
  <2>2. \A u \in (offered \cup net)' \ (offered \cup net) :
          /\ u \in Jobs => Begun(u)'
          /\ u \in plan.registers => \A b \in plan.bonds : Begun(b)' /\ job'[b].st # "pushed"
    BY <1>1, <2>1 DEF JobOffers
  <2> QED
    BY <1>2, <2>1, <2>2, FixedStep DEF WalletInv
<1>9. Rejected'
  BY <1>1, <1>2, RejectedStep DEF WalletInv
<1>10. Puts'
  BY <1>2, <1>6, PutsStep DEF WalletInv
<1>11. Watching'
  <2> SUFFICES ASSUME NEW u \in Tx, watch[u].st # "idle" PROVE WatchedWell(u)'
    BY <1>1 DEF Watching
  <2>1. WatchedWell(u) /\ watch'[u] = watch[u] /\ watch[u].st # "idle"
    BY <1>1 DEF WalletInv, Watching
  <2> QED
    BY <2>1, <1>2, WatchedStays DEF WalletInv
<1>12. Sending'
  <2> SUFFICES ASSUME NEW u \in plan.sent, u # t PROVE SentWell(u)'
    BY <1>1 DEF Sending
  <2>1. SentWell(u) /\ job'[u] = job[u] /\ inputs'[u] = inputs[u]
    BY <1>3 DEF WalletInv, Sending, JobMoves, JobOffers
  <2> QED
    BY <2>1, <1>2, SentStays DEF WalletInv
<1>13. Bookmarks'
  <2>1. \A u \in plan.posted : post'[u].todo \subseteq inputs[u] /\ inputs'[u] = inputs[u]
    BY <1>1 DEF WalletInv, Bookmarks, JobOffers
  <2>2. \A c \in spentInputs' : c \in spentInputs \/ Out(c)
    BY <1>1
  <2>3. \A w \in writing' : IF w[1] = "list" THEN list'.st = "ours" /\ w[3] \notin list'.ours
                            ELSE w \in writing \/ Out(w[3])
    BY <1>1 DEF WalletInv, Bookmarks
  <2> QED
    BY <1>2, <2>1, <2>2, <2>3, BookmarksStep DEF WalletInv
<1>14. Merging'
  BY <1>1, <1>2, <1>6, MergingStep DEF WalletInv
<1> QED
  BY <1>5, <1>6, <1>7, <1>8, <1>9, <1>10, <1>11, <1>12, <1>13, <1>14 DEF WalletInv, Recalls

\* What a job leaves alone stays right.
LEMMA JobFrame ==
  ASSUME WalletInv, NEW t \in Tx, t \in Jobs, Job
  PROVE  /\ txs \subseteq Tx /\ utxo \in [Tx -> {"none", "unspent", "spent"}]
         /\ recent \subseteq Tx /\ writing \subseteq {"watch", "send", "list"} \X Tx \X Tx
         /\ \A w \in writing : w \in writing \/ (w[1] # "list" /\ Out(w[3]))
         /\ UNCHANGED <<plan, net, mined, spentInputs, watch, fund, post, list, clean, server>>
         /\ \A c \in Tx : Kept(c) => Kept(c)'
         /\ inputs \in [Tx -> SUBSET Tx] /\ inputs[t] \subseteq Tx
         /\ job \in Actors(JobStates) /\ job[t].todo \subseteq Tx
         /\ t \in plan.sent => Gathered(t) /\ SentWell(t)
<1>1. UNCHANGED <<plan, net, mined, spentInputs, watch, fund, post, list, clean, server>>
  BY DEF Job, world
<1>2. \A c \in Tx : Kept(c) => Kept(c)'
  BY <1>1 DEF Kept
<1>3. /\ txs \subseteq Tx /\ utxo \in [Tx -> {"none", "unspent", "spent"}]
      /\ recent \subseteq Tx /\ writing \subseteq {"watch", "send", "list"} \X Tx \X Tx
      /\ inputs \in [Tx -> SUBSET Tx] /\ inputs[t] \subseteq Tx /\ job[t].todo \subseteq Tx
  BY DEF WalletInv, WalletTypeOK
<1>4. job \in Actors(JobStates)
  BY ActorTypes DEF WalletInv, JobStates
<1>5. t \in plan.sent => Gathered(t) /\ SentWell(t)
  BY DEF Gathered, WalletInv, Gathering, WalletTypeOK, Sending
<1> QED
  BY <1>1, <1>2, <1>3, <1>4, <1>5

\* A job that only goes on, to a state where it has no outputs in hand.
LEMMA JobGoesOn ==
  ASSUME WalletInv, Recalls, NEW t \in Tx, t \in Jobs, Job, NEW st \in {"pushed", "done", "failed"}, JobGoes(t, st),
         UNCHANGED <<txs, utxo, recent, writing>>,
         job[t].st \in {"connect", "pushed"}, job[t].st = "pushed" => st # "pushed",
         st \in {"pushed", "done"} => t \in offered',
         t \in plan.sent => st # "done",
         JobOffers(t), t \in plan.sent => inputs'[t] = inputs[t]
  PROVE  WalletInv'
<1>1. job' = Goes(job, t, st)
  BY DEF JobGoes, Goes
<1>2. /\ Goes(job, t, st) \in Actors(JobStates)
      /\ Goes(job, t, st)[t].st = st /\ Goes(job, t, st)[t].todo = job[t].todo
      /\ \A u \in Tx \ {t} : Goes(job, t, st)[u] = job[u]
  <2>1. st \in JobStates
    BY DEF JobStates
  <2> QED
    BY <2>1, JobFrame, GoesOn
<1>3. /\ job' \in Actors(JobStates) /\ \A u \in Tx \ {t} : job'[u] = job[u]
      /\ job'[t].st = st /\ job'[t].todo = job[t].todo
  BY <1>1, <1>2
<1>4. JobMoves(t)
  BY <1>3 DEF JobMoves, Begun
<1>5. ASSUME t \in plan.sent
      PROVE  Gathered(t)' /\ SentWell(t)'
  <2>1. Gathered(t) /\ SentWell(t) /\ inputs'[t] = inputs[t] /\ plan' = plan
        /\ \A c \in job[t].todo \cup inputs[t] : Kept(c)'
    BY <1>5, JobFrame DEF SentWell
  <2>2. st \in {"pushed", "failed"}
    BY <1>5
  <2>3. Gathered(t)'
    BY <2>1, <2>2, <1>3 DEF Gathered
  <2>4. SentWell(t)'
    BY <2>1, <2>2, <1>3 DEF SentWell
  <2> QED
    BY <2>3, <2>4
<1>6. Recording
  BY NoRecord
<1>7. /\ txs' \subseteq Tx /\ utxo' \in [Tx -> {"none", "unspent", "spent"}]
      /\ recent \subseteq recent' /\ recent' \subseteq Tx
      /\ writing' \subseteq {"watch", "send", "list"} \X Tx \X Tx
      /\ \A w \in writing' : w \in writing \/ (w[1] # "list" /\ Out(w[3]))
  BY JobFrame
<1> QED
  BY <1>4, <1>5, <1>6, <1>7, JobKeeps

\* Nobody's inputs and nothing on offer change.
LEMMA OffersNothing ==
  ASSUME WalletInv, NEW t \in Tx, inputs' = inputs, offered' = offered
  PROVE  JobOffers(t)
BY DEF JobOffers, WalletInv, WalletTypeOK

\* A job starts with all the outputs that are not spent.
LEMMA StartJobKeeps ==
  ASSUME WalletInv, Recalls, NEW t \in Tx, t \in Jobs, StartJob(t)
  PROVE  WalletInv'
<1>1. job[t].st = "idle" /\ Job /\ UNCHANGED <<txs, utxo, recent, writing, inputs, offered>>
  BY DEF StartJob
<1>2. PICK st \in {"gather", "failed"} : job' = [job EXCEPT ![t] = [st |-> st, todo |-> Unspent]]
  BY DEF StartJob
<1>3. Unspent \subseteq Tx
  BY DEF Unspent
<1>4. /\ job' \in Actors(JobStates) /\ \A u \in Tx \ {t} : job'[u] = job[u]
      /\ job'[t].st = st /\ job'[t].todo = Unspent
  BY <1>1, <1>2, <1>3, JobFrame DEF Actors, JobStates
<1>5. JobMoves(t)
  BY <1>1, <1>4 DEF JobMoves, Begun
<1>6. JobOffers(t)
  BY <1>1, OffersNothing
<1>7. ASSUME t \in plan.sent
      PROVE  Gathered(t)' /\ SentWell(t)'
  <2>1. Gathered(t) /\ SentWell(t) /\ inputs'[t] = inputs[t] /\ plan' = plan
    BY <1>1, <1>7, JobFrame
  <2>2. Gathered(t)'
    BY <1>1, <1>4, <2>1 DEF Gathered
  <2>3. \A c \in Unspent : Kept(c)
    BY DEF WalletInv, Puts, Unspent
  <2>4. \A c \in job'[t].todo \cup inputs'[t] : Kept(c)'
    BY <1>1, <1>3, <1>4, <2>1, <2>3, JobFrame DEF SentWell
  <2>5. SentWell(t)'
    BY <1>4, <2>4 DEF SentWell
  <2> QED
    BY <2>2, <2>5
<1>8. Recording
  BY <1>1, NoRecord
<1>9. /\ txs' \subseteq Tx /\ utxo' \in [Tx -> {"none", "unspent", "spent"}]
      /\ recent \subseteq recent' /\ recent' \subseteq Tx
      /\ writing' \subseteq {"watch", "send", "list"} \X Tx \X Tx
      /\ \A w \in writing' : w \in writing \/ (w[1] # "list" /\ Out(w[3]))
  BY <1>1, JobFrame
<1> QED
  BY <1>1, <1>5, <1>6, <1>7, <1>8, <1>9, JobKeeps

\* A job gathers before it is out; a send stops when it has what it needs.
LEMMA GathersKeeps ==
  ASSUME WalletInv, Recalls, NEW t \in Tx, t \in Jobs, Gathers(t)
  PROVE  WalletInv'
<1>1. job[t].st = "gather" /\ Job /\ UNCHANGED <<txs, utxo, recent, writing, offered>>
  BY DEF Gathers
<1> DEFINE InsOf(c)  == IF c \in txs THEN inputs[t] \cup {c} ELSE inputs[t]
           RestOf(c) == job[t].todo \ {c}
<1>2. PICK c \in job[t].todo :
        /\ inputs' = [inputs EXCEPT ![t] = InsOf(c)]
        /\ job' = [job EXCEPT ![t] = [todo |-> RestOf(c), st |-> Outcome(t, InsOf(c), RestOf(c))]]
  BY DEF Gathers
<1> DEFINE ins  == InsOf(c)
           rest == RestOf(c)
           st   == Outcome(t, ins, rest)
<1>3. ins \in {inputs[t], inputs[t] \cup {c}}
  OBVIOUS
<1>4. c \in Tx /\ ins \subseteq Tx /\ rest \subseteq Tx
  BY <1>1, <1>3, JobFrame
<1>5. st \in {"gather", "connect", "failed"}
  BY DEF Outcome
<1> HIDE DEF rest, st, ins
<1>6. /\ job' \in Actors(JobStates) /\ \A u \in Tx \ {t} : job'[u] = job[u]
      /\ job'[t].st = st /\ job'[t].todo = rest
  BY <1>1, <1>2, <1>4, <1>5, JobFrame DEF Actors, JobStates, rest, st, ins
<1>7. JobMoves(t)
  BY <1>1, <1>5, <1>6 DEF JobMoves, Begun
<1>8. JobOffers(t)
  <2>1. t \notin offered \cup net
    BY <1>1 DEF WalletInv, Fixed, Begun
  <2>2. t \notin plan.posted
    BY PlanRoles DEF WalletInv, WalletTypeOK, Jobs
  <2>3. inputs' \in [Tx -> SUBSET Tx] /\ \A u \in Tx \ {t} : inputs'[u] = inputs[u]
    BY <1>1, <1>2, <1>4, JobFrame DEF ins
  <2>4. offered \cup net \cup plan.posted \cup plan.sent \subseteq Tx
    BY PlanRoles DEF WalletInv, WalletTypeOK
  <2> QED
    BY <1>1, <2>1, <2>2, <2>3, <2>4 DEF JobOffers
<1>9. inputs'[t] = ins
  BY <1>1, <1>2, JobFrame DEF ins
<1>10. ASSUME t \in plan.sent
       PROVE  Gathered(t)' /\ SentWell(t)'
  <2>1. Gathered(t) /\ SentWell(t) /\ plan' = plan
    BY <1>1, <1>10, JobFrame
  <2>2. IsFiniteSet(inputs[t]) /\ Cardinality(inputs[t]) < plan.need
    BY <1>1, <2>1 DEF Gathered
  <2>3. plan.need \in Nat /\ Cardinality(inputs[t]) \in Nat
    BY <2>2, PlanRoles, FS_CardinalityType DEF WalletInv, WalletTypeOK
  <2>4. /\ IsFiniteSet(inputs[t] \cup {c})
        /\ \/ Cardinality(inputs[t] \cup {c}) = Cardinality(inputs[t])
           \/ Cardinality(inputs[t] \cup {c}) = Cardinality(inputs[t]) + 1
    BY <2>2, FS_AddElement
  <2>5. /\ IsFiniteSet(ins)
        /\ Cardinality(ins) \in Nat /\ Cardinality(ins) <= plan.need
    <3> HIDE DEF ins
    <3>1. CASE ins = inputs[t]
      BY <2>2, <2>3, <3>1
    <3>2. CASE ins = inputs[t] \cup {c}
      <4>1. /\ IsFiniteSet(ins)
            /\ Cardinality(ins) = Cardinality(inputs[t]) \/ Cardinality(ins) = Cardinality(inputs[t]) + 1
        BY <2>4, <3>2
      <4> QED
        BY <2>2, <2>3, <4>1
    <3> QED
      BY <1>3, <3>1, <3>2
  <2>6. /\ st = "connect" => Cardinality(ins) >= plan.need
        /\ st = "gather" => ~(Cardinality(ins) >= plan.need)
    BY <1>10 DEF st, Outcome, Enough
  <2>7. /\ st = "connect" => Cardinality(ins) = plan.need
        /\ st = "gather" => Cardinality(ins) < plan.need
    BY <2>3, <2>5, <2>6
  <2>8. Gathered(t)'
    BY <1>5, <1>6, <1>9, <2>1, <2>5, <2>7 DEF Gathered
  <2>9. \A d \in rest \cup ins : Kept(d) /\ d \in Tx
    BY <1>3, <1>2, <1>4, <2>1 DEF SentWell, rest
  <2>10. \A d \in job'[t].todo \cup inputs'[t] : Kept(d)'
    BY <1>1, <1>6, <1>9, <2>9, JobFrame
  <2>11. SentWell(t)'
    BY <1>5, <1>6, <2>10 DEF SentWell
  <2> QED
    BY <2>8, <2>11
<1>11. Recording
  BY <1>1, NoRecord
<1>12. /\ txs' \subseteq Tx /\ utxo' \in [Tx -> {"none", "unspent", "spent"}]
       /\ recent \subseteq recent' /\ recent' \subseteq Tx
       /\ writing' \subseteq {"watch", "send", "list"} \X Tx \X Tx
       /\ \A w \in writing' : w \in writing \/ (w[1] # "list" /\ Out(w[3]))
  BY <1>1, JobFrame
<1> QED
  BY <1>1, <1>7, <1>8, <1>10, <1>11, <1>12, JobKeeps

\* A job offers its transaction, or fails to.
LEMMA PushesKeeps ==
  ASSUME WalletInv, Recalls, NEW t \in Tx, t \in Jobs, NEW then \in {"pushed", "done"}, Pushes(t, then),
         t \in plan.sent => then = "pushed"
  PROVE  WalletInv'
<1>1. job[t].st = "connect" /\ Job /\ UNCHANGED <<txs, utxo, recent, writing, inputs>>
  BY DEF Pushes
<1>2. CASE JobGoes(t, then) /\ offered' = offered \cup {t}
  <2>1. t \in offered' /\ inputs'[t] = inputs[t] /\ then \in {"pushed", "done", "failed"}
    BY <1>1, <1>2
  <2>2. Begun(t)'
    <3>1. job' = Goes(job, t, then) /\ then \in JobStates
      BY <1>2 DEF JobGoes, Goes, JobStates
    <3>2. Goes(job, t, then)[t].st = then
      BY <1>1, <3>1, JobFrame, GoesOn
    <3> QED
      BY <3>1, <3>2 DEF Begun
  <2>3. JobOffers(t)
    <3>1. t \notin plan.registers
      BY PlanRoles DEF WalletInv, WalletTypeOK, Jobs
    <3>2. inputs' \in [Tx -> SUBSET Tx]
      BY <1>1, JobFrame
    <3> QED
      BY <1>1, <1>2, <2>2, <3>1, <3>2 DEF JobOffers
  <2> QED
    BY <1>1, <1>2, <2>1, <2>3, JobGoesOn
<1>3. CASE JobGoes(t, "failed") /\ UNCHANGED offered
  <2>1. JobOffers(t) /\ inputs'[t] = inputs[t]
    BY <1>1, <1>3, OffersNothing
  <2> QED
    BY <1>1, <1>3, <2>1, JobGoesOn
<1> QED
  BY <1>2, <1>3 DEF Pushes

\* The registration gets its input while its bond is at the point before it.
LEMMA RegistrationPushedKeeps ==
  ASSUME WalletInv, Recalls, NEW t \in Tx, t \in Jobs, RegistrationPushed(t)
  PROVE  WalletInv'
<1>1. t \in plan.bonds /\ job[t].st = "pushed" /\ Job /\ UNCHANGED <<txs, utxo, recent, writing>>
  BY DEF RegistrationPushed
<1>2. t \notin plan.sent /\ plan.registers \subseteq Tx /\ t \notin plan.registers
      /\ \A b \in plan.bonds : b = t
  BY <1>1, PlanRoles DEF WalletInv, WalletTypeOK
<1>3. CASE HasChange(t)
  <2>1. /\ JobGoes(t, "done")
        /\ inputs' = [r \in Tx |-> IF r \in plan.registers THEN {t} ELSE inputs[r]]
        /\ offered' = offered \cup plan.registers
    BY <1>3 DEF RegistrationPushed
  <2>2. t \in offered
    BY <1>1 DEF WalletInv, Roles
  <2>3. \A r \in plan.registers : r \notin offered \cup net \cup plan.posted \cup plan.sent
    <3>1. \A r \in plan.registers : r \notin offered \cup net
      BY <1>1 DEF WalletInv, Fixed
    <3> QED
      BY <3>1, PlanRoles DEF WalletInv, WalletTypeOK
  <2>4. job'[t].st = "done"
    <3>1. job' = Goes(job, t, "done") /\ "done" \in JobStates
      BY <2>1 DEF JobGoes, Goes, JobStates
    <3>2. Goes(job, t, "done")[t].st = "done"
      BY <1>1, <3>1, JobFrame, GoesOn
    <3> QED
      BY <3>1, <3>2
  <2>5. JobOffers(t)
    <3>1. inputs' \in [Tx -> SUBSET Tx]
      BY <1>1, <2>1, JobFrame
    <3>2. offered \cup net \cup plan.posted \cup plan.sent \subseteq Tx
      BY PlanRoles DEF WalletInv, WalletTypeOK
    <3>3. \A u \in offered \cup net \cup plan.posted \cup (plan.sent \ {t}) : inputs'[u] = inputs[u]
      BY <2>1, <2>3, <3>2
    <3>4. \A b \in plan.bonds : Begun(b)' /\ job'[b].st # "pushed"
      BY <1>2, <2>4 DEF Begun
    <3>5. offered \subseteq offered' /\ offered' \subseteq offered \cup {t} \cup plan.registers
          /\ t \notin offered' \ offered
      BY <2>1, <2>2
    <3> QED
      BY <3>1, <3>3, <3>4, <3>5 DEF JobOffers
  <2> QED
    BY <1>1, <1>2, <2>1, <2>2, <2>5, JobGoesOn
<1>4. CASE ~HasChange(t)
  <2>1. JobGoes(t, "failed") /\ inputs' = inputs /\ offered' = offered
    BY <1>4 DEF RegistrationPushed
  <2>2. JobOffers(t)
    BY <2>1, OffersNothing
  <2> QED
    BY <1>1, <1>2, <2>1, <2>2, JobGoesOn
<1> QED
  BY <1>3, <1>4

\* A send marks all of its inputs,
LEMMA SendMarksKeeps ==
  ASSUME WalletInv, Recalls, NEW t \in Tx, SendMarks(t)
  PROVE  WalletInv'
<1>1. /\ t \in plan.sent /\ job[t].st = "pushed" /\ Job
      /\ UNCHANGED <<txs, utxo, recent, writing, inputs, offered>> /\ t \in Jobs
  BY DEF SendMarks, Jobs
<1>2. /\ job' \in Actors(JobStates) /\ \A u \in Tx \ {t} : job'[u] = job[u]
      /\ job'[t].st = "mark" /\ job'[t].todo = inputs[t]
  BY <1>1, JobFrame DEF SendMarks, Actors, JobStates
<1>3. JobMoves(t)
  <2>1. t \in offered
    BY <1>1 DEF WalletInv, Roles
  <2> QED
    BY <1>1, <1>2, <2>1 DEF JobMoves, Begun
<1>4. JobOffers(t)
  BY <1>1, OffersNothing
<1>5. Gathered(t) /\ SentWell(t) /\ plan' = plan /\ inputs[t] \subseteq Tx
  BY <1>1, JobFrame
<1>6. Gathered(t)'
  BY <1>1, <1>2, <1>5 DEF Gathered
<1>7. SentWell(t)'
  <2>1. \A c \in job'[t].todo \cup inputs'[t] : Kept(c)'
    BY <1>1, <1>2, <1>5, JobFrame DEF SentWell
  <2> QED
    BY <1>1, <1>2, <2>1 DEF SentWell
<1>8. Recording
  BY <1>1, NoRecord
<1>9. /\ txs' \subseteq Tx /\ utxo' \in [Tx -> {"none", "unspent", "spent"}]
      /\ recent \subseteq recent' /\ recent' \subseteq Tx
      /\ writing' \subseteq {"watch", "send", "list"} \X Tx \X Tx
      /\ \A w \in writing' : w \in writing \/ (w[1] # "list" /\ Out(w[3]))
  BY <1>1, JobFrame
<1> QED
  BY <1>1, <1>3, <1>4, <1>6, <1>7, <1>8, <1>9, JobKeeps

\* A send is marking: it is one of the plan, and on offer.
LEMMA MarkingSends ==
  ASSUME WalletInv, NEW t \in Tx, job[t].st \in {"mark", "change"}
  PROVE  t \in plan.sent /\ t \in Jobs /\ t \in offered
BY DEF WalletInv, Roles, Jobs

\* one after the other,
LEMMA SendMarksOneKeeps ==
  ASSUME WalletInv, Recalls, NEW t \in Tx, SendMarksOne(t)
  PROVE  WalletInv'
<1>1. /\ job[t].st = "mark" /\ Job /\ UNCHANGED <<txs, utxo, recent, inputs, offered>>
  BY DEF SendMarksOne
<1>2. t \in plan.sent /\ t \in Jobs /\ t \in offered
  BY <1>1, MarkingSends
<1>3. PICK c \in job[t].todo : SpendUtxo("send", t, c) /\ job' = Deals(job, t, c)
  BY DEF SendMarksOne, Deals
<1>4. /\ Deals(job, t, c) \in Actors(JobStates)
      /\ Deals(job, t, c)[t].st = job[t].st /\ Deals(job, t, c)[t].todo = job[t].todo \ {c}
      /\ \A u \in Tx \ {t} : Deals(job, t, c)[u] = job[u]
  BY <1>1, <1>2, JobFrame, DealsWith
<1>5. /\ job' \in Actors(JobStates) /\ \A u \in Tx \ {t} : job'[u] = job[u]
      /\ job'[t].st = "mark" /\ job'[t].todo = job[t].todo \ {c}
  BY <1>1, <1>3, <1>4
<1>6. JobMoves(t) /\ JobOffers(t)
  BY <1>1, <1>2, <1>5, OffersNothing DEF JobMoves, Begun
<1>7. Gathered(t) /\ SentWell(t) /\ plan' = plan /\ inputs[t] \subseteq Tx
  BY <1>1, <1>2, JobFrame
<1>8. c \in inputs[t] /\ c \in Tx /\ Out(c)
  BY <1>1, <1>2, <1>3, <1>7 DEF SentWell, Out, Spends
<1>9. /\ writing \subseteq writing'
      /\ \A w \in writing' : w \in writing \/ (w = <<"send", t, c>> /\ utxo[c] # "none")
      /\ utxo[c] # "none" => <<"send", t, c>> \in writing'
  BY <1>3 DEF SpendUtxo
<1>10. Recording
  BY <1>1, <1>9 DEF Recording
<1>11. Gathered(t)'
  BY <1>1, <1>5, <1>7 DEF Gathered
<1>12. SentWell(t)'
  <2>1. \A d \in job'[t].todo \cup inputs'[t] : Kept(d)'
    BY <1>1, <1>2, <1>5, <1>7, <1>8, JobFrame DEF SentWell
  <2>2. ASSUME NEW d \in inputs'[t], d \notin job'[t].todo
        PROVE  Marked("send", t, d)'
    <3>1. CASE d = c
      BY <1>1, <1>9, <3>1 DEF Marked, Gone
    <3>2. CASE d # c
      <4>1. Marked("send", t, d)
        BY <1>1, <1>5, <1>7, <2>2, <3>2 DEF SentWell
      <4> QED
        BY <1>1, <1>9, <4>1 DEF Marked, Gone, Recalls
    <3> QED
      BY <3>1, <3>2
  <2>3. job'[t].todo \subseteq inputs'[t]
    BY <1>1, <1>5, <1>7 DEF SentWell
  <2> QED
    BY <1>5, <2>1, <2>2, <2>3 DEF SentWell
<1>13. /\ txs' \subseteq Tx /\ utxo' \in [Tx -> {"none", "unspent", "spent"}]
       /\ recent \subseteq recent' /\ recent' \subseteq Tx
  BY <1>1, <1>2, JobFrame
<1>14. /\ writing' \subseteq {"watch", "send", "list"} \X Tx \X Tx
       /\ \A w \in writing' : w \in writing \/ (w[1] # "list" /\ Out(w[3]))
  BY <1>1, <1>2, <1>8, <1>9, JobFrame
<1> QED
  BY <1>1, <1>2, <1>6, <1>10, <1>11, <1>12, <1>13, <1>14, JobKeeps

\* and stores the bytes when all marks are written.
LEMMA SendStoresKeeps ==
  ASSUME WalletInv, Recalls, NEW t \in Tx, SendStores(t)
  PROVE  WalletInv'
<1>1. /\ job[t].st = "mark" /\ job[t].todo = {} /\ ~Awaits("send", t) /\ Job /\ txs' = txs \cup {t}
      /\ UNCHANGED <<utxo, recent, writing, inputs, offered>> /\ job' = Goes(job, t, "change")
  BY DEF SendStores, Idle, PutTx, JobGoes, Goes
<1>2. t \in plan.sent /\ t \in Jobs /\ t \in offered
  BY <1>1, MarkingSends
<1>3. /\ Goes(job, t, "change") \in Actors(JobStates)
      /\ Goes(job, t, "change")[t].st = "change" /\ Goes(job, t, "change")[t].todo = job[t].todo
      /\ \A u \in Tx \ {t} : Goes(job, t, "change")[u] = job[u]
  <2>1. "change" \in JobStates
    BY DEF JobStates
  <2> QED
    BY <1>1, <1>2, <2>1, JobFrame, GoesOn
<1>4. /\ job' \in Actors(JobStates) /\ \A u \in Tx \ {t} : job'[u] = job[u]
      /\ job'[t].st = "change" /\ job'[t].todo = {}
  BY <1>1, <1>3
<1>5. JobMoves(t) /\ JobOffers(t)
  BY <1>1, <1>2, <1>4, OffersNothing DEF JobMoves, Begun
<1>6. Gathered(t) /\ SentWell(t) /\ plan' = plan /\ inputs[t] \subseteq Tx
  BY <1>1, <1>2, JobFrame
<1>7. Gathered(t)'
  BY <1>1, <1>4, <1>6 DEF Gathered
<1>8. SentWell(t)'
  <2>1. \A c \in job'[t].todo \cup inputs'[t] : Kept(c)'
    BY <1>1, <1>2, <1>4, <1>6, JobFrame DEF SentWell
  <2>2. ASSUME NEW c \in inputs'[t]
        PROVE  Gone(c)'
    <3>1. Marked("send", t, c)
      BY <1>1, <1>6, <2>2 DEF SentWell
    <3>2. <<"send", t, c>> \notin writing
      <4>1. <<"send", t, c>>[1] = "send" /\ <<"send", t, c>>[2] = t
        OBVIOUS
      <4> QED
        BY <1>1, <4>1 DEF Awaits
    <3> QED
      BY <1>1, <3>1, <3>2 DEF Marked, Gone, Recalls
  <2> QED
    BY <1>4, <2>1, <2>2 DEF SentWell, Marked
<1>9. Recording
  BY <1>1, NoRecord
<1>10. /\ txs' \subseteq Tx /\ utxo' \in [Tx -> {"none", "unspent", "spent"}]
       /\ recent \subseteq recent' /\ recent' \subseteq Tx
       /\ writing' \subseteq {"watch", "send", "list"} \X Tx \X Tx
       /\ \A w \in writing' : w \in writing \/ (w[1] # "list" /\ Out(w[3]))
  BY <1>1, <1>2, JobFrame
<1> QED
  BY <1>1, <1>2, <1>5, <1>7, <1>8, <1>9, <1>10, JobKeeps

\* The change of a send is put: if it had been dealt with, the history has it.
LEMMA SendPutsChangeKeeps ==
  ASSUME WalletInv, Recalls, NEW t \in Tx, SendPutsChange(t)
  PROVE  WalletInv'
<1>1. /\ job[t].st = "change" /\ Job /\ utxo' = [utxo EXCEPT ![t] = "unspent"] /\ recent' = recent \cup {t}
      /\ UNCHANGED <<txs, writing, inputs, offered>> /\ job' = Goes(job, t, "done")
  BY DEF SendPutsChange, PutUtxo, JobGoes, Goes
<1>2. t \in plan.sent /\ t \in Jobs /\ t \in offered
  BY <1>1, MarkingSends
<1>3. /\ Goes(job, t, "done") \in Actors(JobStates)
      /\ Goes(job, t, "done")[t].st = "done" /\ Goes(job, t, "done")[t].todo = job[t].todo
      /\ \A u \in Tx \ {t} : Goes(job, t, "done")[u] = job[u]
  <2>1. "done" \in JobStates
    BY DEF JobStates
  <2> QED
    BY <1>1, <1>2, <2>1, JobFrame, GoesOn
<1>4. /\ job' \in Actors(JobStates) /\ \A u \in Tx \ {t} : job'[u] = job[u]
      /\ job'[t].st = "done" /\ job'[t].todo = job[t].todo
  BY <1>1, <1>3
<1>5. JobMoves(t) /\ JobOffers(t)
  BY <1>1, <1>2, <1>4, OffersNothing DEF JobMoves, Begun
<1>6. Gathered(t) /\ SentWell(t) /\ plan' = plan /\ inputs[t] \subseteq Tx
  BY <1>1, <1>2, JobFrame
<1>7. Gathered(t)'
  BY <1>1, <1>4, <1>6 DEF Gathered
<1>8. /\ utxo'[t] = "unspent" /\ \A c \in Tx \ {t} : utxo'[c] = utxo[c]
      /\ utxo' \in [Tx -> {"none", "unspent", "spent"}]
  BY <1>1, <1>2, JobFrame
<1>9. t \in crossed' \/ \A u \in Tx : ~DealtWith(u, t)
  <2>1. Stores(t)
    BY <1>1 DEF Stores
  <2> QED
    BY <2>1 DEF WalletInv, Recalled, Overtaken, Recalls
<1>10. Recording
  <2>1. Kept(t)'
    BY <1>1, <1>2, <1>6 DEF Kept
  <2> QED
    BY <1>1, <1>8, <1>9, <2>1 DEF Recording
<1>12. SentWell(t)'
  <2>1. \A c \in job'[t].todo \cup inputs'[t] : Kept(c)'
    <3>1. job[t].todo \subseteq Tx
      BY <1>1, <1>2, JobFrame
    <3> QED
      BY <1>1, <1>2, <1>4, <1>6, <3>1, JobFrame DEF SentWell
  <2>2. ASSUME NEW c \in inputs'[t]
        PROVE  Gone(c)'
    <3>1. c \in Tx /\ Gone(c) /\ DealtWith(t, c)
      BY <1>1, <1>2, <1>6, <2>2 DEF SentWell, DealtWith
    <3> QED
      BY <3>1, <1>10, MarkedStays DEF WalletInv
  <2>3. job'[t].todo = {}
    BY <1>1, <1>4, <1>6 DEF SentWell
  <2> QED
    BY <1>4, <2>1, <2>2, <2>3 DEF SentWell, Marked
<1>11. /\ txs' \subseteq Tx /\ recent \subseteq recent' /\ recent' \subseteq Tx
       /\ writing' \subseteq {"watch", "send", "list"} \X Tx \X Tx
       /\ \A w \in writing' : w \in writing \/ (w[1] # "list" /\ Out(w[3]))
  BY <1>1, <1>2, JobFrame
<1> QED
  BY <1>1, <1>2, <1>5, <1>7, <1>8, <1>10, <1>11, <1>12, JobKeeps

------------------------------------------------------------------------------
(* Wallet: the theorems.                                                   *)

\* Every step of a job, and of the specification.
LEMMA JobStartsKeeps ==
  ASSUME WalletInv, Recalls, NEW t \in Tx, JobStarts(t)
  PROVE  WalletInv'
<1>1. t \in Jobs /\ StartJob(t)
  BY DEF JobStarts, PostSend, PostRegister, PostDeregister, Jobs
<1> QED
  BY <1>1, StartJobKeeps

LEMMA JobStepKeeps ==
  ASSUME WalletInv, Recalls, NEW t \in Tx, JobStep(t)
  PROVE  WalletInv'
<1>1. CASE SendGathers(t) \/ RegisterGathers(t) \/ DeregisterGathers(t)
  <2>1. t \in Jobs /\ Gathers(t)
    BY <1>1 DEF SendGathers, RegisterGathers, DeregisterGathers, Jobs
  <2> QED
    BY <2>1, GathersKeeps
<1>2. CASE SendPushes(t) \/ RegisterPushes(t)
  <2>1. t \in Jobs /\ Pushes(t, "pushed") /\ "pushed" \in {"pushed", "done"}
    BY <1>2 DEF SendPushes, RegisterPushes, Jobs
  <2> QED
    BY <2>1, PushesKeeps
<1>3. CASE DeregisterPushes(t)
  <2>1. t \in Jobs /\ Pushes(t, "done") /\ t \notin plan.sent /\ "done" \in {"pushed", "done"}
    BY <1>3, PlanRoles DEF DeregisterPushes, Jobs, WalletInv, WalletTypeOK
  <2> QED
    BY <2>1, PushesKeeps
<1>4. CASE RegistrationPushed(t)
  <2>1. t \in Jobs
    BY <1>4 DEF RegistrationPushed, Jobs
  <2> QED
    BY <1>4, <2>1, RegistrationPushedKeeps
<1>5. CASE SendMarks(t)
  BY <1>5, SendMarksKeeps
<1>6. CASE SendMarksOne(t)
  BY <1>6, SendMarksOneKeeps
<1>7. CASE SendStores(t)
  BY <1>7, SendStoresKeeps
<1>8. CASE SendPutsChange(t)
  BY <1>8, SendPutsChangeKeeps
<1> QED
  BY <1>1, <1>2, <1>3, <1>4, <1>5, <1>6, <1>7, <1>8 DEF JobStep

LEMMA WalletStep ==
  ASSUME WalletInv, [WalletNext]_walletVars
  PROVE  WalletInv'
<1>0. Recalls
  <2>1. crossed \subseteq Tx /\ Overtaken \subseteq crossed /\ Overtaken' \subseteq Tx
    BY DEF WalletInv, WalletTypeOK, Recalled, Overtaken
  <2>2. CASE Remember
    BY <2>1, <2>2 DEF Remember, Recalls, Recalled
  <2>3. CASE UNCHANGED walletVars
    <3>1. UNCHANGED <<plan, inputs, watch, job, fund, crossed>>
      BY <2>3 DEF walletVars, bridge, world, actors
    <3>2. Overtaken' = Overtaken
      BY <3>1 DEF Overtaken, Stores, DealtWith
    <3> QED
      BY <2>1, <3>1, <3>2 DEF Recalls, Recalled
  <2> QED
    BY <2>2, <2>3 DEF WalletNext
<1>1. CASE UNCHANGED walletVars
  <2>1. UNCHANGED <<plan, net, mined, txs, utxo, recent, spentInputs, writing, inputs, offered, watch, job, fund,
                    post, list, clean, server>>
    BY <1>1 DEF walletVars, bridge, world, store, actors
  <2>2. Onward /\ Roles' /\ Fixed' /\ Rejected' /\ Recording
    BY <2>1, StillStep, NoRecord
  <2>3. WalletTypeOK'
    BY <1>0, <2>1 DEF WalletInv, WalletTypeOK, Recalls
  <2>4. Gathering' /\ Puts' /\ Watching' /\ Sending'
    BY <1>0, <2>1, <2>2, <2>3, RecordsStep
  <2>5. Bookmarks' /\ Merging'
    BY <2>1, <2>2, <2>3, BookmarksFrame, MergingStep DEF WalletInv
  <2> QED
    BY <1>0, <2>2, <2>3, <2>4, <2>5 DEF WalletInv, Recalls
<1>2. CASE \E who \in Writers : SpendWritten(who)
  BY <1>0, <1>2, SpendWrittenKeeps
<1>3. CASE GetUnspent
  BY <1>0, <1>3, GetUnspentKeeps
<1>4. CASE ListStep
  BY <1>0, <1>4, GorillaPoolAnswersKeeps, MergeTheirsKeeps, MergeOursKeeps DEF ListStep
<1>5. CASE CleanupStarts \/ CleanupStep
  BY <1>0, <1>5, CleanupKeeps
<1>6. CASE Stop \/ StopStep
  <2>1. PICK st \in {"up", "stopping", "closing", "closed"} : ServerGoes(st)
    BY <1>6 DEF Stop, StopStep, StopServer, CloseStore
  <2> QED
    BY <1>0, <2>1, ServerGoesKeeps
<1>7. ASSUME NEW t \in Tx, Accept(t) \/ Mine(t) \/ Ages(t)
      PROVE  WalletInv'
  BY <1>0, <1>7, AcceptKeeps, MineKeeps, AgesKeeps
<1>8. ASSUME NEW t \in Tx, WatchStep(t)
      PROVE  WalletInv'
  BY <1>0, <1>8, OnTxNewKeeps, HandleInputKeeps, HandleOutputsKeeps, HandleMatchKeeps DEF WatchStep
<1>9. ASSUME NEW t \in Tx, PostFund(t) \/ FundStores(t)
      PROVE  WalletInv'
  BY <1>0, <1>9, PostFundKeeps, FundStoresKeeps
<1>10. ASSUME NEW t \in Tx, JobStarts(t) \/ JobStep(t)
       PROVE  WalletInv'
  BY <1>0, <1>10, JobStartsKeeps, JobStepKeeps
<1>11. ASSUME NEW t \in Tx, PostBroadcast(t) \/ PostApiBroadcast(t) \/ PostStep(t)
       PROVE  WalletInv'
  BY <1>0, <1>11, PostBroadcastKeeps, PostApiBroadcastKeeps, MarkInputsKeeps, TryP2pKeeps, TryArcKeeps, TryWocKeeps
     DEF PostStep
<1> QED
  BY <1>1, <1>2, <1>3, <1>4, <1>5, <1>6, <1>7, <1>8, <1>9, <1>10, <1>11 DEF WalletNext

\* Every state satisfies the invariant.
THEOREM WalletInvariant == WalletSpec => []WalletInv
<1>1. WalletInv /\ [WalletNext]_walletVars => WalletInv'
  BY WalletStep
<1> QED
  BY <1>1, WalletStart, PTL DEF WalletSpec

\* Amounts and states fit, and what the watcher has handled or a send has spent is not
\* offered by the store, but for an output that somebody was storing after it had been
\* dealt with as spent (CoinsConsistent).
THEOREM WalletCoinsConsistent == WalletSpec => []CoinsConsistent
<1>1. WalletInv => CoinsConsistent
  <2> SUFFICES ASSUME WalletInv PROVE CoinsConsistent
    OBVIOUS
  <2>1. ASSUME NEW t \in Tx, watch[t].st = "done"
        PROVE  inputs[t] \cap Unspent \subseteq crossed
    BY <2>1 DEF WalletInv, Watching, WatchedWell, Unspent, Gone
  <2>2. ASSUME NEW t \in plan.sent, job[t].st \in {"change", "done"}
        PROVE  inputs[t] \cap Unspent \subseteq crossed
    BY <2>2 DEF WalletInv, Sending, SentWell, Unspent, Gone
  <2> QED
    BY <2>1, <2>2 DEF CoinsConsistent, SpentIsRecorded, WalletInv
<1> QED
  BY <1>1, WalletInvariant, PTL

\* A broadcast that WhatsOnChain has refused is not in the network, then or later; nothing
\* is claimed of one that fails without its answer (NoFalseFailure).
THEOREM WalletNoFalseFailure == WalletSpec => []NoFalseFailure
<1>1. WalletInv => NoFalseFailure
  BY DEF WalletInv, Rejected, NoFalseFailure
<1> QED
  BY <1>1, WalletInvariant, PTL

\* What a call of spendUtxo may be about.
Justified(w) ==
  \/ w[3] \notin net \/ \E t \in Tx : Spends(t, w[3])
  \/ (w[1] = "list" /\ ~list.heard)
  \/ (w[1] = "list" /\ w[3] \in plan.sent \cup plan.funded)

\* The watcher and a send mark what a transaction that is out spends.
LEMMA HandleInputJustified ==
  ASSUME WalletInv, NEW t \in Tx, HandleInput(t), NEW w \in writing' \ writing
  PROVE  Justified(w)
<1>1. PICK c \in watch[t].todo : writing' \subseteq writing \cup {<<"watch", t, c>>}
  BY DEF HandleInput, SpendUtxo
<1>2. watch[t].st = "spends" /\ WatchedWell(t)
  BY DEF HandleInput, WalletInv, Watching
<1>3. Spends(t, c)
  BY <1>2 DEF WatchedWell, Spends
<1>4. w[3] = c
  BY <1>1
<1> QED
  BY <1>3, <1>4 DEF Justified

LEMMA SendMarksOneJustified ==
  ASSUME WalletInv, NEW t \in Tx, SendMarksOne(t), NEW w \in writing' \ writing
  PROVE  Justified(w)
<1>1. job[t].st = "mark" /\ \E c \in job[t].todo : SpendUtxo("send", t, c)
  BY DEF SendMarksOne
<1>2. PICK c \in job[t].todo : writing' \subseteq writing \cup {<<"send", t, c>>}
  BY <1>1 DEF SpendUtxo
<1>3. t \in plan.sent /\ t \in offered
  BY <1>1, MarkingSends
<1>4. SentWell(t)
  BY <1>3 DEF WalletInv, Sending
<1>5. Spends(t, c)
  BY <1>1, <1>3, <1>4 DEF SentWell, Spends
<1>6. w[3] = c
  BY <1>2
<1> QED
  BY <1>5, <1>6 DEF Justified

\* The listing marks what an answer of GorillaPool no longer lists and is not
\* recent: an output that came by the network has been spent.
LEMMA MergeOursJustified ==
  ASSUME WalletInv, MergeOurs, NEW w \in writing' \ writing
  PROVE  Justified(w)
<1>1. PICK c \in list.ours : /\ ~IsRecent(c)
                             /\ writing' \subseteq writing \cup {<<"list", c, c>>}
  BY DEF MergeOurs, SpendUtxo
<1>2. w[1] = "list" /\ w[3] = c
  BY <1>1
<1>3. list.st = "ours" /\ list.todo = {}
  BY DEF MergeOurs, WalletInv, Merging
<1>4. CASE c \in plan.sent \cup plan.funded \/ ~list.heard
  BY <1>2, <1>4 DEF Justified
<1>5. CASE c \notin plan.sent \cup plan.funded /\ list.heard
  <2>1. Out(c)
    BY <1>1, <1>3, <1>5 DEF WalletInv, Merging, IsRecent
  <2> QED
    BY <1>2, <2>1 DEF Justified, Out
<1> QED
  BY <1>4, <1>5

\* Nobody else calls it.
LEMMA OthersMarkNothing ==
  ASSUME WalletNext, ~MergeOurs, \A t \in Tx : ~HandleInput(t) /\ ~SendMarksOne(t)
  PROVE  writing' \subseteq writing
<1>1. CASE \E who \in Writers : SpendWritten(who)
  BY <1>1 DEF SpendWritten
<1>2. CASE GetUnspent \/ ListStep
  BY <1>2 DEF GetUnspent, ListStep, GorillaPoolAnswers, MergeTheirs
<1>3. CASE CleanupStarts \/ CleanupStep
  BY <1>3 DEF CleanupStarts, CleanupStep, CleanupLooks, CleanupAnswered, CleanupDrops, Cleaning
<1>4. CASE Stop \/ StopStep
  BY <1>4 DEF Stop, StopStep, StopServer, CloseStore, ServerGoes
<1>5. ASSUME NEW t \in Tx, Accept(t) \/ Mine(t) \/ Ages(t)
      PROVE  writing' = writing
  BY <1>5 DEF Accept, Mine, Ages
<1>6. ASSUME NEW t \in Tx, WatchStep(t)
      PROVE  writing' = writing
  BY <1>6 DEF WatchStep, OnTxNew, HandleOutputs, HandleMatch
<1>7. ASSUME NEW t \in Tx, PostFund(t) \/ FundStores(t)
      PROVE  writing' = writing
  BY <1>7 DEF PostFund, FundPuts, FundStores, Funding
<1>8. ASSUME NEW t \in Tx, JobStarts(t) \/ JobStep(t)
      PROVE  writing' = writing
  <2>1. CASE JobStarts(t)
    BY <2>1 DEF JobStarts, PostSend, PostRegister, PostDeregister, StartJob
  <2>2. CASE JobStep(t)
    BY <2>2 DEF JobStep, SendGathers, RegisterGathers, DeregisterGathers, Gathers, SendPushes, RegisterPushes,
                DeregisterPushes, Pushes, SendMarks, SendStores, SendPutsChange, RegistrationPushed
  <2> QED
    BY <1>8, <2>1, <2>2
<1>9. ASSUME NEW t \in Tx, PostBroadcast(t) \/ PostApiBroadcast(t) \/ PostStep(t)
      PROVE  writing' = writing
  BY <1>9 DEF PostBroadcast, PostApiBroadcast, PostStep, MarkInputs, TryP2p, TryArc, TryWoc, Posting
<1> QED
  BY <1>1, <1>2, <1>3, <1>4, <1>5, <1>6, <1>7, <1>8, <1>9 DEF WalletNext

\* An output in the network is marked only if something that spends it was seen or
\* submitted, but by a listing that GorillaPool has not answered, or of an output that a
\* send or the user stored (OnlySpentMarked).
THEOREM WalletOnlySpentMarked == WalletSpec => OnlySpentMarked
<1>1. ASSUME WalletInv, [WalletNext]_walletVars
      PROVE  [\A w \in writing' \ writing :
                \/ w[3] \notin net \/ \E t \in Tx : Spends(t, w[3])
                \/ (w[1] = "list" /\ ~list.heard)
                \/ (w[1] = "list" /\ w[3] \in plan.sent \cup plan.funded)]_walletVars
  <2> SUFFICES ASSUME WalletNext, NEW w \in writing' \ writing PROVE Justified(w)
    BY <1>1 DEF Justified
  <2>1. MergeOurs \/ \E t \in Tx : HandleInput(t) \/ SendMarksOne(t)
    BY OthersMarkNothing
  <2> QED
    BY <1>1, <2>1, MergeOursJustified, HandleInputJustified, SendMarksOneJustified
<1> QED
  BY <1>1, WalletInvariant, PTL DEF WalletSpec, OnlySpentMarked
==============================================================================
