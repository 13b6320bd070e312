----------------------------- MODULE MCIdentity -----------------------------
(* An instance of Identity for TLC: two logins of two callers, every fault. *)
EXTENDS Identity

AllFaults == FaultKinds
============================================================================
