----------------------------- MODULE MCRepoSync -----------------------------
(***************************************************************************)
(* An instance of RepoSync for TLC: a group that can be listed, with the   *)
(* meta repository, and one that is larger than the limit and whose        *)
(* listing may fail, with a repository of a name that the first has too.   *)
(***************************************************************************)
EXTENDS RepoSync

CONSTANTS g1, g2, a, b, c, meta

MCSources == <<g1, g2>>
MCRepos == (g1 :> <<meta, a>>) @@ (g2 :> <<b, c>>)
MCLimit == (g1 :> 2) @@ (g2 :> 1)

MCDir == [x \in {a, b, c, meta} |-> IF x = c THEN a ELSE x]

MCModes == {[pull |-> FALSE, preview |-> p] : p \in BOOLEAN}
============================================================================
