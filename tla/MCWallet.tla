------------------------------ MODULE MCWallet ------------------------------
(* What happens to the wallet, for model-checking it.                      *)
EXTENDS Wallet

CONSTANTS f, g, s, x

Quiet == [relayed |-> {f}, funded |-> {}, sent |-> {}, posted |-> {}, spends |-> {},
          bonds |-> {}, registers |-> {}, leaves |-> {}, need |-> 1, again |-> {},
          listed |-> {}, arc |-> TRUE, cleans |-> FALSE, stops |-> FALSE]

\* Two coins, received and funded, and a send of both.
Paying == [Quiet EXCEPT !.funded = {g}, !.sent = {s}, !.need = 2]
\* A send while the clean-up runs, and a shutdown.
Cleaned == [Quiet EXCEPT !.sent = {s}, !.cleans = TRUE, !.stops = TRUE]
\* A client broadcasts a spend of the coin, which is received again, and asks
\* for what is left.
Posted == [Quiet EXCEPT !.posted = {x}, !.spends = {f}, !.listed = {f}, !.again = {f}]
\* It asks while the clean-up runs.
Tidied == [Quiet EXCEPT !.listed = {f}, !.cleans = TRUE]
\* It races with a send, and ARC does not answer.
Racing == [Quiet EXCEPT !.sent = {s}, !.posted = {x}, !.spends = {f}, !.arc = FALSE]
\* A broadcast during a shutdown; ARC does not answer.
Closing == [Quiet EXCEPT !.posted = {x}, !.spends = {f}, !.arc = FALSE, !.cleans = TRUE,
                         !.stops = TRUE]

\* A stake of one of two coins or of the only one, and the registration.
Registering == [Quiet EXCEPT !.funded = {g}, !.bonds = {s}, !.registers = {x}]
\* A send and a deregistration of the same coin.
Contending == [Quiet EXCEPT !.sent = {s}, !.leaves = {x}]

\* Two sends, the second perhaps of the change of the first.
Chaining == [Quiet EXCEPT !.sent = {s, x}, !.again = {s}]
\* A send, and a listing of its change and of the coin.
Listed == [Quiet EXCEPT !.sent = {s}, !.listed = {s, f}]

AllPlans == {Paying, Cleaned, Posted, Tidied, Racing, Closing, Registering, Contending, Chaining, Listed}
==============================================================================
