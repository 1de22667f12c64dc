---------------------------- MODULE MCPaymentGate ----------------------------
(* Requests and prices for model-checking PaymentGate.                     *)
EXTENDS PaymentGate

CONSTANTS r1, r2, r3, t1, t2, plain, aware

\* Two requests for the aware route, where a credit may stand, and one for the plain one;
\* they name one payment, or one of the aware ones has a smaller payment of its own.
Mixed   == [r \in Request |-> IF r = r3 THEN plain ELSE aware]
Namings == {[r \in Request |-> t1], [r \in Request |-> IF r = r2 THEN t2 ELSE t1]}
Varied  == [t \in Txid |-> IF t = t1 THEN 2 ELSE 1]

\* The second gate asks more for the aware route and less for the plain one.
Prices ==
  [g \in Gate |-> [x \in Route |-> IF (x = plain) = (g = 0) THEN 2 ELSE 1]]
==============================================================================
