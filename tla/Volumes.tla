------------------------------- MODULE Volumes -------------------------------
(***************************************************************************)
(* Provisioning of the managed volumes. `create` reads the mount table,    *)
(* looks at each location, and, behind an admin prompt that may stay open  *)
(* for minutes, adds a volume for every location it found absent, mounted  *)
(* there. The commands are chained: the first that fails ends the script.  *)
(* Nothing keeps two creations, a mount or an unmount out of the gap.      *)
(***************************************************************************)
EXTENDS Naturals, FiniteSets

CONSTANTS
  Creators,    \* the calls of `create`
  Locations,   \* the managed mount points
  Events,      \* what the user does meanwhile: "mount" and "unmount" a volume
  Faults,      \* "script": an addVolume, or the admin prompt, fails
  MaxCalls     \* bound on the calls of each creator

ASSUME VolumesConstants ==
  /\ Events \subseteq {"mount", "unmount"} /\ Faults \subseteq {"script"}
  /\ MaxCalls \in Nat

VARIABLES
  place,     \* what is at each location: "absent", "folder" or "volume"
  volumes,   \* how many volumes have been made for it
  creator,   \* each creator's step
  want,      \* the locations it was asked for
  table,     \* the locations its mount table has
  left,      \* those it still has to look at
  todo,      \* those it found absent and has not added yet
  calls,
  met        \* history: "unmount" once a volume was unmounted, "mount" once one was
             \* mounted during a creation, "overlap" once two creations were

vars == <<place, volumes, creator, want, table, left, todo, calls, met>>
world == <<place, volumes>>

TypeOK ==
  /\ place \in [Locations -> {"absent", "folder", "volume"}]
  /\ volumes \in [Locations -> Nat]
  /\ \A l \in Locations : place[l] = "volume" => volumes[l] > 0
  /\ creator \in [Creators -> {"idle", "audit", "prompt", "script", "done", "failed"}]
  /\ {want, table, left, todo} \subseteq [Creators -> SUBSET Locations]
  /\ calls \in [Creators -> 0..MaxCalls]
  /\ met \subseteq Events \cup {"overlap"}

Init ==
  /\ place \in [Locations -> {"absent", "folder", "volume"}]
  /\ volumes \in [Locations -> 0..1]
  /\ \A l \in Locations : volumes[l] = IF place[l] = "volume" THEN 1 ELSE 0
  /\ creator = [c \in Creators |-> "idle"]
  /\ want = [c \in Creators |-> {}] /\ table = want /\ left = want
  /\ todo = want
  /\ calls = [c \in Creators |-> 0] /\ met = {}

Busy == {c \in Creators : creator[c] \in {"audit", "prompt", "script"}}
Goto(c, l) == creator' = [creator EXCEPT ![c] = l]
----------------------------------------------------------------------------
Mounted == {l \in Locations : place[l] = "volume"}

\* select: one location, or all of them.
Selections == {{l} : l \in Locations} \cup {Locations}

Call(c) ==
  /\ creator[c] \in {"idle", "done", "failed"} /\ calls[c] < MaxCalls
  /\ calls' = [calls EXCEPT ![c] = @ + 1]
  /\ \E w \in Selections :
       want' = [want EXCEPT ![c] = w] /\ left' = [left EXCEPT ![c] = Locations]
  /\ table' = [table EXCEPT ![c] = Mounted]
  /\ todo' = [todo EXCEPT ![c] = {}]
  /\ Goto(c, "audit")
  /\ met' = IF Busy = {} THEN met ELSE met \cup {"overlap"}
  /\ UNCHANGED world

\* Mutant of Disposition: only the mount table is asked.
DispositionByTable(c, l) == IF l \in table[c] THEN "adopt" ELSE "create"

Disposition(c, l) ==
  IF place[l] = "absent" THEN "create" ELSE IF l \in table[c] THEN "adopt" ELSE "migrate"

\* audit_one looks at every location; only those that were asked for matter.
AuditOne(c, l) ==
  /\ creator[c] = "audit" /\ l \in left[c]
  /\ left' = [left EXCEPT ![c] = @ \ {l}]
  /\ todo' = IF l \in want[c] /\ Disposition(c, l) = "create"
             THEN [todo EXCEPT ![c] = @ \cup {l}] ELSE todo
  /\ UNCHANGED <<world, creator, want, table, calls, met>>

\* Mutant of EndAudit: the script is made of all that was asked for.
EndAuditAll(c) ==
  /\ creator[c] = "audit" /\ left[c] = {}
  /\ todo' = [todo EXCEPT ![c] = want[c]]
  /\ Goto(c, "prompt")
  /\ UNCHANGED <<world, want, table, left, calls, met>>

EndAudit(c) ==
  /\ creator[c] = "audit" /\ left[c] = {}
  /\ Goto(c, IF todo[c] = {} THEN "done" ELSE "prompt")
  /\ UNCHANGED <<world, want, table, left, todo, calls, met>>

\* A dry run returns the script instead.
DryRun(c) ==
  /\ creator[c] = "prompt"
  /\ Goto(c, "done") /\ todo' = [todo EXCEPT ![c] = {}]
  /\ UNCHANGED <<world, want, table, left, calls, met>>

Elevate(c) ==
  /\ creator[c] = "prompt"
  /\ Goto(c, "script")
  /\ UNCHANGED <<world, want, table, left, todo, calls, met>>

AddVolume(c, l) ==
  /\ creator[c] = "script" /\ l \in todo[c]
  /\ volumes' = [volumes EXCEPT ![l] = @ + 1]
  /\ place' = [place EXCEPT ![l] = "volume"]
  /\ todo' = [todo EXCEPT ![c] = @ \ {l}]
  /\ UNCHANGED <<creator, want, table, left, calls, met>>

ScriptFails(c) ==
  /\ creator[c] \in {"prompt", "script"} /\ todo[c] # {} /\ "script" \in Faults
  /\ Goto(c, "failed")
  /\ UNCHANGED <<world, want, table, left, todo, calls, met>>

EndScript(c) ==
  /\ creator[c] = "script" /\ todo[c] = {}
  /\ Goto(c, "done")
  /\ UNCHANGED <<world, want, table, left, todo, calls, met>>

\* A volume that is unmounted leaves nothing at its location.
Mount(l) ==
  /\ "mount" \in Events /\ place[l] = "absent" /\ volumes[l] > 0
  /\ place' = [place EXCEPT ![l] = "volume"]
  /\ met' = IF Busy = {} THEN met ELSE met \cup {"mount"}
  /\ UNCHANGED <<volumes, creator, want, table, left, todo, calls>>

Unmount(l) ==
  /\ "unmount" \in Events /\ place[l] = "volume"
  /\ place' = [place EXCEPT ![l] = "absent"]
  /\ met' = met \cup {"unmount"}
  /\ UNCHANGED <<volumes, creator, want, table, left, todo, calls>>

Create(c) ==
  \/ \E l \in Locations : AuditOne(c, l) \/ AddVolume(c, l)
  \/ EndAudit(c) \/ DryRun(c) \/ Elevate(c) \/ ScriptFails(c) \/ EndScript(c)

Next ==
  \/ \E c \in Creators : Call(c) \/ Create(c)
  \/ \E l \in Locations : Mount(l) \/ Unmount(l)

Spec == Init /\ [][Next]_vars
----------------------------------------------------------------------------
(***************************************************************************)
(* Properties.                                                             *)
(***************************************************************************)

\* A creation never mounts over a location that holds something, unless that came
\* there while the admin prompt was open: mounted, or by another creation.
NeverMountedOver ==
  [][\A c \in Creators, l \in Locations :
       AddVolume(c, l) /\ met \cap {"overlap", "mount"} = {} => place[l] = "absent"]_vars

\* Only a location that is genuinely absent gets a new volume: a location never
\* has two, whatever failed midway and however often creation is retried. (One
\* whose volume is unmounted looks absent, and two creations may both look first.)
OneVolumeEach ==
  met \cap {"overlap", "unmount"} = {} => \A l \in Locations : volumes[l] <= 1
============================================================================
