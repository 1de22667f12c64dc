---------------------------- MODULE PaymentLedger ----------------------------
(***************************************************************************)
(* What the payment gate promises (packages/bridge/lib/x402-middleware.js, *)
(* lib/persistent-store.js, the comments at lines 893 and 905): a payment  *)
(* is an account that is free, held by a verification, or sold for one     *)
(* quote, a route at a price that it covers.  Clients get their answers in *)
(* the very step that sells it, or while a credit stands on the sale.      *)
(* What is sold stays sold.                                                *)
(***************************************************************************)
EXTENDS Integers

CONSTANTS
  Client,   \* each gets at most one answer
  Payment,
  Quote,    \* pairs <<route, price>>
  Value     \* [Payment -> Nat]

VARIABLES
  account,  \* [Payment -> Free, Held or Sold]
  answers,  \* the answers given
  intact    \* no question about an account has failed so far

Free == [state |-> "free"]
Held == [state |-> "held"]
Sold(q, credit) == [state |-> "sold", quote |-> q, credit |-> credit]

Init ==
  /\ account = [p \in Payment |-> Free]
  /\ answers = {}
  /\ intact = TRUE

\* The account is in this state; once a question has failed, it may be taken for it.
Passes(p, state) == account[p] = state \/ ~intact

\* A group of clients that had no answer yet gets one.
Serve(group, p, q) ==
  /\ \A a \in answers : a.client \notin group
  /\ answers' = answers \cup {[client |-> c, payment |-> p, quote |-> q] : c \in group}

Hold(p) ==
  /\ Passes(p, Free)
  /\ account' = [account EXCEPT ![p] = Held]
  /\ UNCHANGED <<answers, intact>>

\* Verifications give up, one of them or all that a crash has cut off.
GiveBack(P) ==
  /\ \A p \in P : Passes(p, Held)
  /\ account' = [p \in Payment |-> IF p \in P THEN Free ELSE account[p]]
  /\ UNCHANGED <<answers, intact>>

Sell(p, q) ==
  /\ Passes(p, Held)
  /\ Value[p] >= q[2]
  /\ \E credit \in BOOLEAN : account' = [account EXCEPT ![p] = Sold(q, credit)]
  /\ \E group \in (SUBSET Client) \ {{}} : Serve(group, p, q)
  /\ UNCHANGED intact

\* A credit is for the quote that was paid, and stands until it is used up.
Redeem(p) ==
  /\ account[p].state = "sold" /\ account[p].credit
  /\ \E group \in (SUBSET Client) \ {{}} : Serve(group, p, account[p].quote)
  /\ UNCHANGED <<account, intact>>

UseUp(p) ==
  /\ account[p].state = "sold"
  /\ account' = [account EXCEPT ![p] = Sold(@.quote, FALSE)]
  /\ UNCHANGED <<answers, intact>>

\* A question fails.
Fail == intact' = FALSE /\ UNCHANGED <<account, answers>>

Next ==
  \/ \E p \in Payment : Hold(p) \/ Redeem(p) \/ UseUp(p)
  \/ \E P \in SUBSET Payment : GiveBack(P)
  \/ \E p \in Payment, q \in Quote : Sell(p, q)
  \/ Fail

Spec == Init /\ [][Next]_<<account, answers, intact>>
==============================================================================
