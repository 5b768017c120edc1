--------------------------- MODULE MCFaucetWorker ---------------------------
(* Instances of FaucetWorker for TLC. *)
EXTENDS FaucetWorker

CONSTANTS r1, r2, s1, s2, s3, a1, a2
=============================================================================
