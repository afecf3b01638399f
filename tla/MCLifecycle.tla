----------------------------- MODULE MCLifecycle -----------------------------
(* An instance of Lifecycle for TLC. *)
EXTENDS Lifecycle, TLC

CONSTANTS CKBTC, controller, operator, c1, c2

\* The keys are in no order that helps.
HashScattered == [n \in 0 .. MaxNonce |-> (7 * n + 3) % 11]
===============================================================================
