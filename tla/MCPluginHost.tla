---------------------------- MODULE MCPluginHost ----------------------------
(***************************************************************************)
(* Instances of PluginHost for TLC: four plugins, two of which claim one   *)
(* service between them, and two of which are taken for one another.       *)
(***************************************************************************)
EXTENDS PluginHost, TLC

CONSTANTS p1, p2, p3, p4, s1, s2, s3

MCServices == (p1 :> {s1}) @@ (p2 :> {s1, s2}) @@ (p3 :> {s3}) @@ (p4 :> {s3})

\* Two plugins whose sidecars report one id and are named alike.
Alike == [p \in Plugins |-> IF p = p4 THEN p1 ELSE p]
============================================================================
