---------------------------- MODULE OutputBaseGc ----------------------------
(***************************************************************************)
(* The output-base-gc maintenance task. It lists the directories under     *)
(* Bazel's output_user_root, reads the marker that names each base's       *)
(* workspace, and removes the bases whose workspace does not exist. The    *)
(* workspaces live on a volume that comes and goes, and Bazel and the user *)
(* go on creating and deleting both while the task runs.                   *)
(*                                                                         *)
(* A removal deletes file by file, so it can take the marker and stop.     *)
(***************************************************************************)
EXTENDS Naturals, FiniteSets

CONSTANTS
  Workspaces,  \* each workspace has one output base, named after it
  Events,      \* what can happen besides builds and deletions: "unmount" and mount
               \* the volume, "recreate" a workspace that was deleted
  Faults,      \* "stuck": a removal fails midway; "crash": the daemon dies
  MaxFaults    \* bound on the faults

ASSUME OutputBaseGcConstants ==
  /\ Events \subseteq {"unmount", "recreate"} /\ Faults \subseteq {"stuck", "crash"}
  /\ MaxFaults \in Nat

VARIABLES
  mounted,   \* whether the repos volume is mounted
  source,    \* each workspace: "kept", or "deleted" by its user
  base,      \* each output base: "none", "whole" with its marker, "unmarked"
  step,      \* the task's step: "idle", "scan", "clean" or "erase"
  preview,   \* validate_only
  toScan,    \* entries of the root not read yet
  orphans,   \* those found, still to be removed
  target,    \* the one being removed, as a set
  faults,    \* how often a removal failed or the daemon died
  since      \* history: the Events since the run started; "unmount" if it
             \* started on an unmounted volume, too

vars == <<mounted, source, base, step, preview, toScan, orphans, target, faults, since>>
task == <<step, preview, toScan, orphans, target>>
world == <<mounted, source, base>>

TypeOK ==
  /\ mounted \in BOOLEAN
  /\ source \in [Workspaces -> {"kept", "deleted"}]
  /\ base \in [Workspaces -> {"none", "whole", "unmarked"}]
  /\ step \in {"idle", "scan", "clean", "erase"} /\ preview \in BOOLEAN
  /\ {toScan, orphans, target} \subseteq SUBSET Workspaces
  /\ Cardinality(target) = IF step = "erase" THEN 1 ELSE 0
  /\ since \subseteq Events
  /\ faults \in 0..MaxFaults

Init ==
  /\ mounted = TRUE
  /\ source \in [Workspaces -> {"kept", "deleted"}]
  /\ base \in [Workspaces -> {"none", "whole"}]
  /\ step = "idle" /\ preview = FALSE
  /\ toScan = {} /\ orphans = {} /\ target = {}
  /\ faults = 0 /\ since = {}

\* What Path::exists says of the workspace a marker names.
Exists(w) == mounted /\ source[w] = "kept"
----------------------------------------------------------------------------
(***************************************************************************)
(* The task.                                                               *)
(***************************************************************************)

\* The list of entries is read when the run starts.
Start ==
  /\ step = "idle"
  /\ preview' \in BOOLEAN
  /\ step' = "scan" /\ toScan' = {w \in Workspaces : base[w] # "none"}
  /\ since' = IF mounted THEN {} ELSE {"unmount"}
  /\ UNCHANGED <<orphans, target, faults, world>>

\* Mutant of Read: whether the workspace exists is not asked.
ReadMarker(w) ==
  /\ step = "scan" /\ w \in toScan
  /\ toScan' = toScan \ {w}
  /\ orphans' = IF base[w] = "whole" THEN orphans \cup {w} ELSE orphans
  /\ UNCHANGED <<step, preview, target, faults, since, world>>

Read(w) ==
  /\ step = "scan" /\ w \in toScan
  /\ toScan' = toScan \ {w}
  /\ orphans' = IF base[w] = "whole" /\ ~Exists(w) THEN orphans \cup {w} ELSE orphans
  /\ UNCHANGED <<step, preview, target, faults, since, world>>

\* Mutant of EndScan: every run is taken for a preview.
EndScanOnly ==
  /\ step = "scan" /\ toScan = {}
  /\ step' = "idle" /\ orphans' = {}
  /\ UNCHANGED <<preview, toScan, target, faults, since, world>>

EndScan ==
  /\ step = "scan" /\ toScan = {}
  /\ IF preview THEN step' = "idle" /\ orphans' = {} ELSE step' = "clean" /\ orphans' = orphans
  /\ UNCHANGED <<preview, toScan, target, faults, since, world>>

\* chmod, then the removal: the marker is one of the files, anywhere in the order.
BeginRemove(w) ==
  /\ step = "clean" /\ w \in orphans
  /\ orphans' = orphans \ {w} /\ target' = {w} /\ step' = "erase"
  /\ base' \in {base} \cup
       (IF base[w] = "whole" THEN {[base EXCEPT ![w] = "unmarked"]} ELSE {})
  /\ UNCHANGED <<mounted, source, preview, toScan, faults, since>>

FinishRemove ==
  /\ step = "erase"
  /\ base' = [w \in Workspaces |-> IF w \in target THEN "none" ELSE base[w]]
  /\ step' = "clean" /\ target' = {}
  /\ UNCHANGED <<mounted, source, preview, toScan, orphans, faults, since>>

\* Not counted as removed; the run goes on with the next base.
RemoveFails ==
  /\ step = "erase" /\ "stuck" \in Faults
  /\ faults < MaxFaults /\ faults' = faults + 1
  /\ step' = "clean" /\ target' = {}
  /\ UNCHANGED <<preview, toScan, orphans, since, world>>

EndRun ==
  /\ step = "clean" /\ orphans = {}
  /\ step' = "idle"
  /\ UNCHANGED <<preview, toScan, orphans, target, faults, since, world>>

\* The daemon dies, or an update replaces it.
Crash ==
  /\ "crash" \in Faults
  /\ faults < MaxFaults /\ faults' = faults + 1
  /\ step' = "idle" /\ toScan' = {} /\ orphans' = {} /\ target' = {}
  /\ UNCHANGED <<preview, since, world>>
----------------------------------------------------------------------------
(***************************************************************************)
(* The user, the volume and Bazel.                                         *)
(***************************************************************************)
Note(event) == since' = IF step = "idle" THEN since ELSE since \cup {event}

Build(w) ==
  /\ Exists(w)
  /\ base' = [base EXCEPT ![w] = "whole"]
  /\ UNCHANGED <<mounted, source, faults, since, task>>

Delete(w) ==
  /\ Exists(w)
  /\ source' = [source EXCEPT ![w] = "deleted"]
  /\ UNCHANGED <<mounted, base, faults, since, task>>

Recreate(w) ==
  /\ "recreate" \in Events /\ mounted /\ source[w] = "deleted"
  /\ source' = [source EXCEPT ![w] = "kept"] /\ Note("recreate")
  /\ UNCHANGED <<mounted, base, faults, task>>

MountOrUnmount ==
  /\ "unmount" \in Events
  /\ mounted' = ~mounted /\ Note("unmount")
  /\ UNCHANGED <<source, base, faults, task>>

TaskStep ==
  \/ \E w \in Workspaces : Read(w) \/ BeginRemove(w)
  \/ EndScan \/ FinishRemove \/ RemoveFails \/ EndRun

Next ==
  \/ Start \/ TaskStep \/ Crash
  \/ \E w \in Workspaces : Build(w) \/ Delete(w) \/ Recreate(w)
  \/ MountOrUnmount

\* The scheduler's loop never ends, and its runs are never previews; a run that
\* has started goes on.
Spec ==
  /\ Init /\ [][Next]_vars
  /\ WF_vars(TaskStep) /\ SF_vars(Start /\ ~preview')
----------------------------------------------------------------------------
(***************************************************************************)
(* Properties.                                                             *)
(***************************************************************************)

\* Only a base whose source workspace no longer exists is reclaimed: the task
\* takes nothing from a base whose workspace its user keeps, whatever is built and
\* deleted while it runs, and however often a removal fails. Two things break it:
\* a volume that is not mounted at some moment of the run hides every workspace
\* on it, and a workspace may come back after the run looked.
OnlyOrphansRemoved ==
  [][since = {} => \A w \in Workspaces :
       base'[w] # base[w] /\ base'[w] # "whole" => source[w] = "deleted"]_vars

\* The cache never fills from worktree churn: the base of a workspace that is
\* gone for good is reclaimed in the end, unless a removal took its marker and was
\* cut short: no later run knows such a base for one.
OrphansReclaimed ==
  \A w \in Workspaces :
    source[w] = "deleted" ~>
      base[w] = "none" \/ source[w] = "kept" \/ (base[w] = "unmarked" /\ faults > 0)
============================================================================
