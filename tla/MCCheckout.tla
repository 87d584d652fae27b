----------------------------- MODULE MCCheckout -----------------------------
(* Instances of Checkout for TLC. *)
EXTENDS Checkout

OneEach == [r \in Requests |-> 1]

\* One seat for two checkouts, and two seats for one tourist within the cap of
\* one.
Mixes == {<<1, {2}>>, <<2, {1, 2}>>}
=============================================================================
