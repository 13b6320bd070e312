----------------------------- MODULE MCBazelrc ------------------------------
(***************************************************************************)
(* Instances of Bazelrc for TLC.                                           *)
(***************************************************************************)
EXTENDS Bazelrc, TLC

CONSTANTS c1, c2, x, y

\* Files with a region of their own or none: the user's text may be anything, and
\* need not end in a newline.
Bodies == {<< >>, <<x>>, <<NL, x>>, <<y, NL>>}
MCWellMarked ==
  Bodies \cup {before \o <<Begin, NL, c, NL, End>> \o after :
                 before, after \in Bodies, c \in {c1, c2}}

\* A region whose end marker the user has lost, one whose begin marker is lost, and
\* one turned upside down.
MCDangling ==
  {<<Begin, NL, c, NL, l, NL>> : c \in {c1, c2}, l \in {x, y}}
  \cup {<<l, NL, End, NL>> : l \in {x, y}}
  \cup {<<End, NL, l, NL, Begin, NL>> : l \in {x, y}}

MCFiles == MCWellMarked \cup MCDangling

MCSymmetry == Permutations(Appliers) \cup Permutations({c1, c2})
============================================================================
