------------------------------ MODULE Bazelrc ------------------------------
(***************************************************************************)
(* fvd's managed region of ~/.bazelrc. `apply` reads the file, splices the *)
(* block rendered from the config between the first begin marker and the   *)
(* first end marker, or appends it, and writes the file if that changed    *)
(* it. Daemon and CLI can both apply, and the user edits the file too.     *)
(*                                                                         *)
(* A file is a sequence of pieces of text: the two markers, newlines, the  *)
(* body of a block (which is the config it was rendered from), and the     *)
(* user's lines.                                                           *)
(***************************************************************************)
EXTENDS Naturals, Sequences, FiniteSets, SequencesExt

CONSTANTS
  Appliers,
  Configs,      \* the configs the block can be rendered from
  Lines,        \* the user's lines
  Files,        \* the files there may be at first
  Edits,        \* bound on the user's edits
  RcFaults,     \* "unreadable": a read fails; "crash": an applier dies
  MaxApplies    \* bound on the applies of each applier

Begin == "begin"
End == "end"
NL == "newline"

Text == Configs \cup Lines \cup {Begin, End, NL}

ASSUME BazelrcConstants ==
  /\ Configs \cap Lines = {} /\ (Configs \cup Lines) \cap {Begin, End, NL} = {}
  /\ RcFaults \subseteq {"unreadable", "crash"} /\ {Edits, MaxApplies} \subseteq Nat

VARIABLES
  file,      \* ~/.bazelrc
  config,
  applier,   \* each applier's step: "idle", "read", "write", "truncated"
  existing,  \* what it read
  block,     \* the block it rendered
  preview,   \* validate_only
  applies, edits

rcVars == <<file, config, applier, existing, block, preview, applies, edits>>
----------------------------------------------------------------------------
(***************************************************************************)
(* managed_block and splice.                                               *)
(***************************************************************************)
\* Mutant of ManagedBlock: the markers are the other way round.
ManagedBlockReversed(cfg) == <<End, NL, cfg, NL, Begin, NL>>

ManagedBlock(cfg) == <<Begin, NL, cfg, NL, End, NL>>

FirstAt(s, x) == CHOOSE i \in DOMAIN s : s[i] = x /\ \A j \in 1..(i - 1) : s[j] # x
Has(s, x) == x \in Range(s)

\* Mutants of Splice: the block keeps its newline, and what follows the region is
\* lost.
SpliceGrows(s, b) ==
  IF Has(s, Begin) /\ Has(s, End)
  THEN SubSeq(s, 1, FirstAt(s, Begin) - 1) \o b \o SubSeq(s, FirstAt(s, End) + 1, Len(s))
  ELSE s \o b
SpliceCuts(s, b) ==
  IF Has(s, Begin) /\ Has(s, End) THEN SubSeq(s, 1, FirstAt(s, Begin) - 1) \o b ELSE s \o b

Splice(s, b) ==
  IF Has(s, Begin) /\ Has(s, End)
  THEN SubSeq(s, 1, FirstAt(s, Begin) - 1) \o Front(b)
       \o SubSeq(s, FirstAt(s, End) + 1, Len(s))
  ELSE s \o (IF s # << >> /\ Last(s) # NL THEN <<NL>> ELSE << >>)
         \o (IF s # << >> THEN <<NL>> ELSE << >>) \o b

\* region_diff slices the file from the first begin to the first end marker, and
\* panics if they are the other way round.
Sliceable(s) == Has(s, Begin) /\ Has(s, End) => FirstAt(s, Begin) < FirstAt(s, End)
----------------------------------------------------------------------------
\* A file whose markers are those of one region, or none: what apply itself
\* writes, with any text of the user around it.
At(s, x) == {i \in DOMAIN s : s[i] = x}
OneRegionAt(s, b, e) == b < e /\ At(s, Begin) = {b} /\ At(s, End) = {e}
WellMarked(s) == \/ ~Has(s, Begin) /\ ~Has(s, End)
                 \/ \E b, e \in DOMAIN s : OneRegionAt(s, b, e)

\* The user's text: what lies before the region and behind it.
Before(s) == IF Has(s, Begin) THEN SubSeq(s, 1, FirstAt(s, Begin) - 1) ELSE s
Behind(s) == IF Has(s, End) THEN SubSeq(s, FirstAt(s, End) + 1, Len(s)) ELSE << >>

\* The bodies of blocks are in regions, or in what is left of them: each has a
\* begin marker before it, and no end marker between.
Enclosed(s) ==
  \A i \in DOMAIN s : s[i] \in Configs =>
    \E b \in 1..(i - 1) : s[b] = Begin /\ \A k \in b..i : s[k] # End

\* What stands outside of regions is the user's: no text of theirs is a body.
ASSUME BazelrcFiles == Files \subseteq {s \in Seq(Text) : Enclosed(s)}

\* No end marker stands before the first begin marker.
InOrder(s) == Has(s, End) => Has(s, Begin) /\ FirstAt(s, Begin) < FirstAt(s, End)

\* What apply makes of what it read, and whether it writes that.
Updated(a) == Splice(existing[a], block[a])
Changed(a) == Updated(a) # existing[a]
Writes(a) == Changed(a) /\ ~preview[a] /\ Sliceable(existing[a])

RcTypeOK ==
  /\ file \in Seq(Text) /\ config \in Configs
  /\ applier \in [Appliers -> {"idle", "read", "write", "truncated"}]
  /\ \A a \in Appliers : applier[a] = "truncated" => Writes(a)
  /\ existing \in [Appliers -> Seq(Text)] /\ block \in [Appliers -> Seq(Text)]
  /\ preview \in [Appliers -> BOOLEAN]
  /\ applies \in [Appliers -> 0..MaxApplies] /\ edits \in 0..Edits

RcInit ==
  /\ file \in Files /\ config \in Configs
  /\ applier = [a \in Appliers |-> "idle"]
  /\ existing = [a \in Appliers |-> << >>] /\ block = [a \in Appliers |-> << >>]
  /\ preview = [a \in Appliers |-> FALSE]
  /\ applies = [a \in Appliers |-> 0] /\ edits = 0
----------------------------------------------------------------------------
ApplierAt(a, l) == applier' = [applier EXCEPT ![a] = l]

\* The config is loaded, then the file is read; one that cannot be read counts as
\* empty.
Apply(a) ==
  /\ applier[a] = "idle" /\ applies[a] < MaxApplies
  /\ applies' = [applies EXCEPT ![a] = @ + 1]
  /\ block' = [block EXCEPT ![a] = ManagedBlock(config)]
  /\ \E p \in BOOLEAN : preview' = [preview EXCEPT ![a] = p]
  /\ ApplierAt(a, "read")
  /\ UNCHANGED <<file, config, existing, edits>>

Read(a) ==
  /\ applier[a] = "read"
  /\ \/ existing' = [existing EXCEPT ![a] = file]
     \/ "unreadable" \in RcFaults /\ existing' = [existing EXCEPT ![a] = << >>]
  /\ ApplierAt(a, "write")
  /\ UNCHANGED <<file, config, block, preview, applies, edits>>

NothingToWrite(a) ==
  /\ applier[a] = "write" /\ ~Writes(a)
  /\ ApplierAt(a, "idle")
  /\ UNCHANGED <<file, config, existing, block, preview, applies, edits>>

\* Mutant of Truncate: a preview writes too.
TruncateAnyhow(a) ==
  /\ applier[a] = "write" /\ Changed(a)
  /\ file' = << >>
  /\ ApplierAt(a, "truncated")
  /\ UNCHANGED <<config, existing, block, preview, applies, edits>>

\* fs::write empties the file, then fills it.
Truncate(a) ==
  /\ applier[a] = "write" /\ Writes(a)
  /\ file' = << >>
  /\ ApplierAt(a, "truncated")
  /\ UNCHANGED <<config, existing, block, preview, applies, edits>>

Write(a) ==
  /\ applier[a] = "truncated"
  /\ file' = Updated(a)
  /\ ApplierAt(a, "idle")
  /\ UNCHANGED <<config, existing, block, preview, applies, edits>>

\* What has been written of the file by then stays.
Crash(a) ==
  /\ "crash" \in RcFaults /\ applier[a] # "idle"
  /\ IF applier[a] = "truncated"
     THEN \E n \in 0..Len(Updated(a)) : file' = SubSeq(Updated(a), 1, n)
     ELSE UNCHANGED file
  /\ ApplierAt(a, "idle")
  /\ UNCHANGED <<config, existing, block, preview, applies, edits>>

\* The user saves the file with one more line, or changes the config.
Edit ==
  /\ edits < Edits /\ edits' = edits + 1
  /\ \/ /\ \E x \in Lines, where \in {"before", "after"} :
             file' = IF where = "before" THEN <<x, NL>> \o file ELSE file \o <<x, NL>>
        /\ UNCHANGED config
     \/ config' \in Configs /\ UNCHANGED file
  /\ UNCHANGED <<applier, existing, block, preview, applies>>

RcNext ==
  \/ \E a \in Appliers :
       Apply(a) \/ Read(a) \/ NothingToWrite(a) \/ Truncate(a) \/ Write(a) \/ Crash(a)
  \/ Edit

RcSpec == RcInit /\ [][RcNext]_rcVars
----------------------------------------------------------------------------
(***************************************************************************)
(* Properties.                                                             *)
(***************************************************************************)

\* What is written has one region, rendered from the config that was loaded, and
\* apply is idempotent: to splice the same block again changes nothing; even if the
\* read failed or another apply was under way, if the markers of the file it read
\* were those of one region. (A begin marker without its end gets a second region
\* appended, and the next apply replaces both.)
OneRegion ==
  [][\A a \in Appliers :
       Write(a) /\ WellMarked(existing[a]) =>
         /\ WellMarked(file') /\ Has(file', Begin)
         /\ \E i \in DOMAIN file' : /\ file'[i] = block[a][3] /\ file'[i] \in Configs
                                    /\ \A j \in DOMAIN file' \ {i} : file'[j] \notin Configs
         /\ Splice(file', block[a]) = file']_rcVars

\* Anything outside the region is preserved: an apply that runs to its end leaves
\* what stood before and behind it as it was when it began to write, if the file
\* still is what it read; a region that is new is set off by newlines. (A read that
\* failed passes for an empty file, and what was saved after the read is lost.)
Preserves ==
  [][\A a \in Appliers :
       Truncate(a) /\ existing[a] = file /\ WellMarked(file) =>
         \E gap \in {<< >>, <<NL>>, <<NL, NL>>}, rest \in {<< >>, <<NL>>} :
           /\ Before(Updated(a)) = Before(file) \o gap
           /\ Behind(Updated(a)) = rest \o Behind(file)
           /\ Has(file, Begin) => gap = << >> /\ rest = << >>]_rcVars

\* `apply` never panics on a file that only it and the user's new lines have come
\* into since its markers were in order: however many applies overlap, fail to read
\* and die halfway through a write, no end marker comes to stand before the first
\* begin marker. (An end marker whose begin marker the user has lost does, once a
\* region is appended behind it.)
Orderly ==
  /\ InOrder(file)
  /\ \A a \in Appliers : applier[a] \in {"write", "truncated"} => InOrder(existing[a])
NeverReversed == [][Orderly => Orderly']_rcVars
============================================================================
