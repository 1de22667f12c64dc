----------------------------- MODULE PaymentGate -----------------------------
(***************************************************************************)
(* The x402 payment gate (packages/bridge/lib/x402-middleware.js) over its *)
(* records in the store (packages/bridge/lib/persistent-store.js).         *)
(*                                                                         *)
(* A request to a paid route names the transaction that pays for it.  The  *)
(* gate claims the txid in the store, fetches the transaction, and turns   *)
(* the claim into a receipt if it pays enough, or releases it.  Requests   *)
(* that name a txid under verification wait for that verification.  The    *)
(* operator may replace the gate by one with other prices while the old    *)
(* one still verifies (PATCH /x402); the process may crash.                *)
(*                                                                         *)
(* Every await of the code ends an action.                                 *)
(***************************************************************************)
EXTENDS Integers, FiniteSets

CONSTANTS
  Request,        \* each is sent once
  Txid,
  Route,          \* the paid routes
  NoRequest,
  MaxGate,        \* bound: gates are numbered 0 .. MaxGate
  Naming,         \* functions of [Request -> Txid]: the requests of a behaviour name
                  \*   their transactions as one of these says
  RouteOf,        \* [Request -> Route]
  Price,          \* [0 .. MaxGate -> [Route -> Nat \ {0}]]
  Paid,           \* [Txid -> Nat] what the transaction pays to payTo
  Aware,          \* fulfillment-aware routes
  MaxConcurrent,  \* verifications of one gate at a time
  MaxCrashes,     \* bounds: crashes,
  MaxReadErrors,  \*   failed reads of the store while claiming,
  MaxStuckClaims  \*   and store errors while releasing

Gate == 0 .. MaxGate

ASSUME InputAssumption ==
  /\ Naming \subseteq [Request -> Txid] /\ RouteOf \in [Request -> Route]
  /\ NoRequest \notin Request
  /\ Paid \in [Txid -> Nat] /\ Aware \subseteq Route
ASSUME PriceAssumption ==
  /\ MaxGate \in Nat
  /\ Price \in [Gate -> [Route -> Nat \ {0}]]
ASSUME BoundAssumption ==
  /\ MaxConcurrent \in Nat \ {0} /\ MaxCrashes \in Nat
  /\ MaxReadErrors \in Nat /\ MaxStuckClaims \in Nat

VARIABLES
  records,    \* [Txid -> Record] the store's entry u!txid
  locks,      \* _claimLocks of the store
  gate,       \* the gate in use
  pending,    \* [Gate -> [Txid -> Request \cup {NoRequest}]] who verifies a txid
  negative,   \* [Gate -> SUBSET Txid] the negative cache
  pc,         \* [Request -> Stage]
  txOf,       \* [Request -> Txid] the transaction a request names
  via,        \* [Request -> Gate] the gate a request came to
  result,     \* [Request -> Result]
  late,       \* history: requests that came after their txid was used up
  faults      \* crashes and store errors so far

vars == <<records, locks, gate, pending, negative, pc, txOf, via, result, late, faults>>

None    == [status |-> "none"]
Claimed == [status |-> "claimed"]
Receipt(route, price, credit) ==
  [status |-> "receipt", endpointKey |-> route, satoshisRequired |-> price,
   credit |-> credit]                \* credit: fulfilled === false

Stage  == {"new", "joined", "claiming", "putting", "conflict", "fetching",
           "releasing", "deleting", "finalizing", "answered", "lost"}
Result == {"none", "ok", "refused", "unpaid", "error"}

PriceOf(r) == Price[via[r]][RouteOf[r]]

Init ==
  /\ records = [t \in Txid |-> None]
  /\ locks = {}
  /\ gate = 0
  /\ pending = [g \in Gate |-> [t \in Txid |-> NoRequest]]
  /\ negative = [g \in Gate |-> {}]
  /\ pc = [r \in Request |-> "new"]
  /\ txOf \in Naming
  /\ via = [r \in Request |-> 0]
  /\ result = [r \in Request |-> "none"]
  /\ late = {}
  /\ faults = [crashes |-> 0, reads |-> 0, stuck |-> 0]

------------------------------------------------------------------------------
(* A request arrives.                                                      *)

\* A finalized but unfulfilled receipt for this very route and price.
IsCredit(rec, route, price) ==
  /\ rec.status = "receipt" /\ rec.credit
  /\ rec.endpointKey = route /\ rec.satoshisRequired = price

\* Mutant: a request joins a verification for any route.
JoinsAny(r, owner) == TRUE

\* The verification under way is for the same route at the same price.
Joins(r, owner) ==
  RouteOf[r] = RouteOf[owner] /\ Price[gate][RouteOf[r]] = PriceOf(owner)

\* The txid of r has bought an answer, and no standing credit is left.
UsedUp(r) ==
  /\ \E s \in Request : txOf[s] = txOf[r] /\ result[s] = "ok"
  /\ ~IsCredit(records[txOf[r]], RouteOf[r], Price[gate][RouteOf[r]])

Refuse(r) == pc' = [pc EXCEPT ![r] = "answered"] /\ result' = [result EXCEPT ![r] = "refused"]

Proceed(r, stage) == pc' = [pc EXCEPT ![r] = stage] /\ UNCHANGED result

\* checkPayment up to its first await.
CheckPayment(r) ==
  /\ pc[r] = "new"
  /\ via' = [via EXCEPT ![r] = gate]
  /\ late' = IF UsedUp(r) THEN late \cup {r} ELSE late
  /\ LET t     == txOf[r]
         owner == pending[gate][t]
         busy  == {u \in Txid : pending[gate][u] # NoRequest}
     IN  \/ /\ t \in negative[gate]
            /\ Refuse(r) /\ UNCHANGED <<pending, locks>>
         \/ /\ t \notin negative[gate] /\ owner # NoRequest
            /\ IF Joins(r, owner) THEN Proceed(r, "joined") ELSE Refuse(r)
            /\ UNCHANGED <<pending, locks>>
         \/ /\ t \notin negative[gate] /\ owner = NoRequest
            /\ Cardinality(busy) >= MaxConcurrent
            /\ Refuse(r) /\ UNCHANGED <<pending, locks>>
         \/ /\ t \notin negative[gate] /\ owner = NoRequest
            /\ Cardinality(busy) < MaxConcurrent
            /\ pending' = [pending EXCEPT ![gate][t] = r]
            /\ locks' = locks \cup {t}
            /\ Proceed(r, IF t \in locks THEN "conflict" ELSE "claiming")
  /\ UNCHANGED <<records, gate, negative, faults, txOf>>

\* Mutant: those who joined are forgotten.
AnsweredAlone(r) == {r}

\* Who gets the answer of the verification of r: r and those who joined it.
Answered(r) ==
  {r} \cup {s \in Request : pc[s] = "joined" /\ via[s] = via[r] /\ txOf[s] = txOf[r]}

\* The verification of r ends with this result.
Answer(r, res) ==
  /\ pc' = [s \in Request |-> IF s \in Answered(r) THEN "answered" ELSE pc[s]]
  /\ result' = [s \in Request |-> IF s \in Answered(r) THEN res ELSE result[s]]
  /\ pending' = [pending EXCEPT ![via[r]][txOf[r]] = NoRequest]

------------------------------------------------------------------------------
(* claimTxid.                                                              *)

\* Mutant: a put without a look, as if abstract-level had a put-if-absent.
AbsentUnchecked(rec) == TRUE

Absent(rec) == rec = None

\* Mutant: the lock is kept when claimTxid fails.
UnlockedNot(t) == locks

\* The finally of claimTxid.
Unlocked(t) == locks \ {t}

\* The read of claimTxid: the txid is free, or taken.
ClaimGet(r) ==
  /\ pc[r] = "claiming"
  /\ IF Absent(records[txOf[r]])
     THEN pc' = [pc EXCEPT ![r] = "putting"] /\ UNCHANGED locks
     ELSE pc' = [pc EXCEPT ![r] = "conflict"] /\ locks' = Unlocked(txOf[r])
  /\ UNCHANGED <<records, gate, pending, negative, via, result, late, faults, txOf>>

\* A read that fails counts as absent.
ClaimGetFails(r) ==
  /\ pc[r] = "claiming"
  /\ faults.reads < MaxReadErrors
  /\ faults' = [faults EXCEPT !.reads = @ + 1]
  /\ pc' = [pc EXCEPT ![r] = "putting"]
  /\ UNCHANGED <<records, locks, gate, pending, negative, via, result, late, txOf>>

ClaimPut(r) ==
  /\ pc[r] = "putting"
  /\ records' = [records EXCEPT ![txOf[r]] = Claimed]
  /\ locks' = Unlocked(txOf[r])
  /\ pc' = [pc EXCEPT ![r] = "fetching"]
  /\ UNCHANGED <<gate, pending, negative, via, result, late, faults, txOf>>

\* The write fails: the claim is refused.
ClaimPutFails(r) ==
  /\ pc[r] = "putting"
  /\ locks' = Unlocked(txOf[r])
  /\ pc' = [pc EXCEPT ![r] = "conflict"]
  /\ UNCHANGED <<records, gate, pending, negative, via, result, late, faults, txOf>>

\* The txid was taken: a standing credit serves, anything else is a replay.  A
\* read that fails counts as no credit.
Inspect(r) ==
  /\ pc[r] = "conflict"
  /\ \/ IsCredit(records[txOf[r]], RouteOf[r], PriceOf(r)) /\ Answer(r, "ok")
     \/ Answer(r, "refused")
  /\ UNCHANGED <<records, locks, gate, negative, via, late, faults, txOf>>

------------------------------------------------------------------------------
(* Verification.                                                           *)

\* Mutant: what is paid is not compared with the price.
PaysAnything(r) == Paid[txOf[r]] > 0

Pays(r) == Paid[txOf[r]] >= PriceOf(r)

\* The transaction is there and its outputs are summed up.
FetchTx(r) ==
  /\ pc[r] = "fetching"
  /\ IF Pays(r)
     THEN pc' = [pc EXCEPT ![r] = "finalizing"] /\ UNCHANGED result
     ELSE /\ pc' = [pc EXCEPT ![r] = "releasing"]
          /\ result' = [result EXCEPT ![r] = "unpaid"]
  /\ UNCHANGED <<records, locks, gate, pending, negative, via, late, faults, txOf>>

\* Not found, not available in time, not what was asked for, or so malformed that
\* the gate throws.
FetchTxFails(r) ==
  /\ pc[r] = "fetching"
  /\ pc' = [pc EXCEPT ![r] = "releasing"]
  /\ \E res \in {"unpaid", "error"} : result' = [result EXCEPT ![r] = res]
  /\ UNCHANGED <<records, locks, gate, pending, negative, via, late, faults, txOf>>

FinalizePayment(r) ==
  /\ pc[r] = "finalizing"
  /\ records' = [records EXCEPT ![txOf[r]] =
                   Receipt(RouteOf[r], PriceOf(r), RouteOf[r] \in Aware)]
  /\ Answer(r, "ok")
  /\ UNCHANGED <<locks, gate, negative, via, late, faults, txOf>>

\* The write fails: the claim is released, the client may try again.
FinalizeFails(r) ==
  /\ pc[r] = "finalizing"
  /\ pc' = [pc EXCEPT ![r] = "releasing"]
  /\ result' = [result EXCEPT ![r] = "error"]
  /\ UNCHANGED <<records, locks, gate, pending, negative, via, late, faults, txOf>>

\* What follows a release: the answer, and a negative entry unless the gate itself failed.
Released(r) ==
  /\ Answer(r, result[r])
  /\ negative' = IF result[r] = "unpaid"
                 THEN [negative EXCEPT ![via[r]] = @ \cup {txOf[r]}] ELSE negative

\* The read of releaseClaim.
ReleaseGet(r) ==
  /\ pc[r] = "releasing"
  /\ IF records[txOf[r]] = Claimed
     THEN pc' = [pc EXCEPT ![r] = "deleting"] /\ UNCHANGED <<result, pending, negative>>
     ELSE Released(r)
  /\ UNCHANGED <<records, locks, gate, via, late, faults, txOf>>

\* The delete of releaseClaim.
Deleted(t) == [records EXCEPT ![t] = None]

ReleaseDel(r) ==
  /\ pc[r] = "deleting"
  /\ records' = Deleted(txOf[r])
  /\ Released(r)
  /\ UNCHANGED <<locks, gate, via, late, faults, txOf>>

\* releaseClaim meets a store error and swallows it: the claim stays.
ReleaseFails(r) ==
  /\ pc[r] \in {"releasing", "deleting"}
  /\ faults.stuck < MaxStuckClaims
  /\ faults' = [faults EXCEPT !.stuck = @ + 1]
  /\ Released(r)
  /\ UNCHANGED <<records, locks, gate, via, late, txOf>>

------------------------------------------------------------------------------
(* Around the gate.                                                        *)

\* A negative entry expires or is trimmed.
ForgetNegative(g, t) ==
  /\ t \in negative[g]
  /\ negative' = [negative EXCEPT ![g] = @ \ {t}]
  /\ UNCHANGED <<records, locks, gate, pending, pc, via, result, late, faults, txOf>>

\* The handler of a fulfillment-aware route has delivered its answer.
MarkFulfilled(t) ==
  /\ \E r \in Request : txOf[r] = t /\ result[r] = "ok"
  /\ records[t].status = "receipt" /\ records[t].credit
  /\ records' = [records EXCEPT ![t].credit = FALSE]
  /\ UNCHANGED <<locks, gate, pending, negative, pc, via, result, late, faults, txOf>>

\* PATCH /x402: a new gate with its own pending map, cache and prices.
ReplaceGate ==
  /\ gate < MaxGate
  /\ gate' = gate + 1
  /\ UNCHANGED <<records, locks, pending, negative, pc, via, result, late, faults, txOf>>

\* The process stops and starts again; only the store is left.  The sweep at
\* startup deletes the claims that are old enough by then.
CrashAndRestart ==
  /\ faults.crashes < MaxCrashes
  /\ faults' = [faults EXCEPT !.crashes = @ + 1]
  /\ locks' = {}
  /\ pending' = [g \in Gate |-> [t \in Txid |-> NoRequest]]
  /\ negative' = [g \in Gate |-> {}]
  /\ pc' = [r \in Request |-> IF pc[r] \in {"new", "answered"} THEN pc[r] ELSE "lost"]
  /\ \E stale \in SUBSET {t \in Txid : records[t] = Claimed} :
       records' = [t \in Txid |-> IF t \in stale THEN None ELSE records[t]]
  /\ UNCHANGED <<gate, via, result, late, txOf>>

\* The steps of a verification.
Verify(r) ==
  \/ ClaimGet(r) \/ ClaimGetFails(r) \/ ClaimPut(r) \/ ClaimPutFails(r) \/ Inspect(r)
  \/ FetchTx(r) \/ FetchTxFails(r) \/ FinalizePayment(r) \/ FinalizeFails(r)
  \/ ReleaseGet(r) \/ ReleaseDel(r) \/ ReleaseFails(r)

Next ==
  \/ \E r \in Request : CheckPayment(r)
  \/ \E r \in Request : ClaimGet(r)
  \/ \E r \in Request : ClaimGetFails(r)
  \/ \E r \in Request : ClaimPut(r)
  \/ \E r \in Request : ClaimPutFails(r)
  \/ \E r \in Request : Inspect(r)
  \/ \E r \in Request : FetchTx(r)
  \/ \E r \in Request : FetchTxFails(r)
  \/ \E r \in Request : FinalizePayment(r)
  \/ \E r \in Request : FinalizeFails(r)
  \/ \E r \in Request : ReleaseGet(r)
  \/ \E r \in Request : ReleaseDel(r)
  \/ \E r \in Request : ReleaseFails(r)
  \/ \E g \in Gate, t \in Txid : ForgetNegative(g, t)
  \/ \E t \in Txid : MarkFulfilled(t)
  \/ ReplaceGate
  \/ CrashAndRestart

Spec == Init /\ [][Next]_vars

\* The store answers, and a fetch ends within its timeout.
FairSpec == Spec /\ \A r \in Request : WF_vars(Verify(r))
------------------------------------------------------------------------------
(* Properties.                                                             *)

Record ==
  {None, Claimed} \cup
    [status : {"receipt"}, endpointKey : Route, satoshisRequired : Nat, credit : BOOLEAN]

\* The types; a receipt is for a route at one of its prices, and a request has a
\* verdict when it is answered and not before, or while its claim is released.
TypeOK ==
  /\ records \in [Txid -> Record]
  /\ \A t \in Txid : records[t].status = "receipt" =>
       \E g \in Gate : records[t].satoshisRequired = Price[g][records[t].endpointKey]
  /\ locks \subseteq Txid
  /\ gate \in Gate
  /\ pending \in [Gate -> [Txid -> Request \cup {NoRequest}]]
  /\ negative \in [Gate -> SUBSET Txid]
  /\ pc \in [Request -> Stage]
  /\ txOf \in Naming
  /\ via \in [Request -> Gate]
  /\ result \in [Request -> Result]
  /\ \A r \in Request :
       \/ pc[r] = "lost" /\ result[r] \notin {"ok", "refused"}
       \/ pc[r] = "answered" /\ result[r] # "none"
       \/ pc[r] \in {"releasing", "deleting"} /\ result[r] \in {"unpaid", "error"}
       \/ pc[r] \in Stage \ {"lost", "answered", "releasing", "deleting"} /\ result[r] = "none"
  /\ late \subseteq Request
  /\ faults \in [crashes : 0 .. MaxCrashes, reads : 0 .. MaxReadErrors,
                 stuck : 0 .. MaxStuckClaims]

\* The critical section of claimTxid: a txid is locked exactly while one request,
\* of whichever gate, is between the read and the write, and at no other time.
LocksMatchClaims ==
  /\ \A t \in locks : \E r \in Request : txOf[r] = t /\ pc[r] \in {"claiming", "putting"}
  /\ \A r, s \in Request :
       /\ pc[r] \in {"claiming", "putting"} /\ pc[s] \in {"claiming", "putting"}
       /\ txOf[r] = txOf[s]
       => r = s /\ txOf[r] \in locks

\* Verdicts, receipts and locks fit what each request is at.
ClaimsConsistent == TypeOK /\ LocksMatchClaims

\* Joined, retried on a standing credit, priced by an old gate or a new one, before
\* or after a crash: no request is served for a transaction that pays less than
\* the price the request was quoted.
PaidInFull ==
  \A r \in Request : result[r] = "ok" => Paid[txOf[r]] >= PriceOf(r)

\* Cross-endpoint protection (x402-middleware.js:270): a payment never buys
\* answers of two routes, nor of one route at two prices; unless the store fails
\* to read while claiming, which claimTxid takes for an absent record.
OneRoutePerPayment ==
  faults.reads = 0 =>
    \A r, s \in Request :
      txOf[r] = txOf[s] /\ result[r] = "ok" /\ result[s] = "ok"
        => RouteOf[r] = RouteOf[s] /\ PriceOf(r) = PriceOf(s)

\* A request that comes after its payment has bought an answer, with no standing
\* credit left, is refused, whatever gates and crashes lie between, if no read failed.
ReplayRefused == faults.reads = 0 => \A r \in late : result[r] # "ok"

\* A payment is good for the answers it was joined for, and for none after.
PaymentUsedOnce == OneRoutePerPayment /\ ReplayRefused

\* While the process runs, no claim stays: it becomes a receipt or is released, so
\* that a client whose payment could not be verified may try again; unless the
\* store fails to release it.
ClaimsResolve ==
  \A t \in Txid : records[t] = Claimed ~>
    \/ records[t] # Claimed
    \/ faults.crashes > 0 \/ faults.stuck > 0

\* Every request that came is answered, also those that joined another.
AllAnswered ==
  \A r \in Request : pc[r] \notin {"new", "answered", "lost"} ~> pc[r] \in {"answered", "lost"}

\* Whatever fails on the way, neither a request nor a claim is left hanging.
EverythingResolves == ClaimsResolve /\ AllAnswered
------------------------------------------------------------------------------
(* The ledger that the gate implements.                                    *)

Account(rec) ==
  CASE rec.status = "receipt" ->
         [state |-> "sold", quote |-> <<rec.endpointKey, rec.satoshisRequired>>,
          credit |-> rec.credit]
    [] rec.status = "claimed" -> [state |-> "held"]
    [] rec.status = "none"    -> [state |-> "free"]

Accounts == [t \in Txid |-> Account(records[t])]

\* The answer a request gets.
AnswerTo(r) == [client |-> r, payment |-> txOf[r], quote |-> <<RouteOf[r], PriceOf(r)>>]

Answers  == {AnswerTo(r) : r \in {s \in Request : result[s] = "ok"}}

Reliable == faults.reads = 0

Ledger == INSTANCE PaymentLedger
            WITH Client <- Request, Payment <- Txid,
                 Quote <- {<<k, Price[g][k]>> : g \in Gate, k \in Route}, Value <- Paid,
                 account <- Accounts, answers <- Answers, intact <- Reliable

\* Whatever gates, joins, crashes and errors: the gate keeps a ledger in which a payment
\* is held by one verification at a time and sold for one quote that it covers, and every
\* answer is given in the step that sells, or on the credit of the same quote
\* (x402-middleware.js:286-358); until a read fails while claiming, from when on a
\* payment may be held and sold again, yet for what it covers.
LedgerSpec == Ledger!Spec
==============================================================================
