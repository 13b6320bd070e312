--------------------------- MODULE MCDaemonSocket ---------------------------
(***************************************************************************)
(* Instances of DaemonSocket for TLC.                                      *)
(***************************************************************************)
EXTENDS DaemonSocket
============================================================================
