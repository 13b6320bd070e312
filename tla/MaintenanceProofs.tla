------------------------- MODULE MaintenanceProofs -------------------------
(***************************************************************************)
(* Proofs about the maintenance tasks. About Worktrees, for any set of     *)
(* workspaces, any maintenance calls and any faults: the types, that the   *)
(* runs are runs of module OutputBaseGc, and what pruning, removing and    *)
(* adding leave alone. About DiskCacheGc, for any cache, cap, number of    *)
(* runners and faults: what eviction takes, in which order, and what it    *)
(* leaves.                                                                 *)
(***************************************************************************)
EXTENDS Worktrees, DiskCacheGc, TLAPS, FiniteSetTheorems

\* What the task knows, as long as neither the volume nor a workspace has come or
\* gone since the run started: all it holds is still orphaned.
TaskInv ==
  /\ ~mounted => "unmount" \in Events
  /\ step = "idle" => orphans = {}
  /\ step # "erase" => target = {}
  /\ step # "idle" /\ since = {} => mounted /\ \A w \in orphans \cup target : source[w] = "deleted"

Inv == TypeOK /\ TaskInv

LEMMA TargetSize == Cardinality({}) = 0 /\ \A w \in Workspaces : Cardinality({w}) = 1
BY FS_EmptySet, FS_Singleton

LEMMA InvInit == Init => Inv
<1> SUFFICES ASSUME Init PROVE Inv
  OBVIOUS
<1> USE DEF Init
<1>1. TypeOK
  <2>1. base \in [Workspaces -> {"none", "whole", "unmarked"}] OBVIOUS
  <2>2. faults \in 0..MaxFaults BY OutputBaseGcConstants
  <2>3. Cardinality(target) = IF step = "erase" THEN 1 ELSE 0 BY TargetSize
  <2> QED BY <2>1, <2>2, <2>3 DEF TypeOK
<1>2. TaskInv BY DEF TaskInv
<1> QED BY <1>1, <1>2 DEF Inv

LEMMA InvStep == Inv /\ [Next]_vars => Inv'
<1> SUFFICES ASSUME Inv, [Next]_vars PROVE Inv'
  OBVIOUS
<1> USE OutputBaseGcConstants, TargetSize DEF Inv, TypeOK, TaskInv, task, world
<1>1. CASE Start BY <1>1 DEF Start
<1>2. ASSUME NEW w \in Workspaces, Read(w) PROVE Inv'
  BY <1>2 DEF Read, Exists
<1>3. ASSUME NEW w \in Workspaces, BeginRemove(w) PROVE Inv'
  <2>1. base' \in [Workspaces -> {"none", "whole", "unmarked"}] BY <1>3 DEF BeginRemove
  <2>2. Cardinality(target') = 1 BY <1>3 DEF BeginRemove
  <2> QED BY <1>3, <2>1, <2>2 DEF BeginRemove
<1>4. CASE EndScan BY <1>4 DEF EndScan
<1>5. CASE FinishRemove BY <1>5 DEF FinishRemove
<1>6. CASE RemoveFails BY <1>6 DEF RemoveFails
<1>7. CASE EndRun BY <1>7 DEF EndRun
<1>8. CASE Crash BY <1>8 DEF Crash
<1>9. ASSUME NEW w \in Workspaces, Build(w) PROVE Inv'
  BY <1>9 DEF Build
<1>10. ASSUME NEW w \in Workspaces, Delete(w) PROVE Inv'
  BY <1>10 DEF Delete
<1>11. ASSUME NEW w \in Workspaces, Recreate(w) PROVE Inv'
  BY <1>11 DEF Recreate, Note
<1>12. CASE MountOrUnmount BY <1>12 DEF MountOrUnmount, Note
<1>13. CASE UNCHANGED vars BY <1>13 DEF vars
<1> QED
  BY <1>1, <1>2, <1>3, <1>4, <1>5, <1>6, <1>7, <1>8, <1>9, <1>10, <1>11, <1>12, <1>13
  DEF Next, TaskStep

\* A run of the task takes nothing but what its scan found orphaned.
LEMMA TakesOrphans ==
  Inv /\ [Next]_vars =>
    (since = {} => \A w \in Workspaces :
       base'[w] # base[w] /\ base'[w] # "whole" => source[w] = "deleted")
<1> SUFFICES ASSUME Inv, [Next]_vars, since = {}, NEW w \in Workspaces,
                    base'[w] # base[w], base'[w] # "whole"
             PROVE  source[w] = "deleted"
  OBVIOUS
<1> USE DEF Inv, TypeOK, TaskInv
<1>1. ASSUME NEW v \in Workspaces, BeginRemove(v) PROVE source[w] = "deleted"
  <2>1. w = v BY <1>1 DEF BeginRemove
  <2> QED BY <1>1, <2>1 DEF BeginRemove
<1>2. CASE FinishRemove BY <1>2 DEF FinishRemove
<1>3. ASSUME NEW v \in Workspaces, Build(v) PROVE FALSE
  BY <1>3 DEF Build
<1>4. base' # base OBVIOUS
<1> QED
  BY <1>1, <1>2, <1>3, <1>4 DEF Next, TaskStep, Start, Read, EndScan, RemoveFails, EndRun, Crash,
     Delete, Recreate, MountOrUnmount, vars, world, task
----------------------------------------------------------------------------
\* Every step of the maintenance runs, of `fv worktree` and of the user is a step
\* of module OutputBaseGc, or one that it does not see.
LEMMA Refines == [WNext]_wvars => [Next]_vars
<1> SUFFICES ASSUME [WNext]_wvars PROVE [Next]_vars
  OBVIOUS
<1>1. CASE RunStep
  BY <1>1 DEF RunStep, OutputBaseTask, OtherTask, PruneTask, Next
<1>2. CASE RunDies BY <1>2 DEF RunDies, Next
<1>3. ASSUME NEW w \in Workspaces,
             \/ AddWorktree(w) \/ RemoveWorktree(w) \/ DeleteByHand(w) \/ Commit(w)
             \/ DeleteBranch(w) \/ Build(w)
      PROVE  [Next]_vars
  BY <1>3 DEF AddWorktree, RemoveWorktree, DeleteByHand, Commit, DeleteBranch, Next
<1>4. ASSUME NEW call \in Calls, BeginRun(call) PROVE [Next]_vars
  BY <1>4 DEF BeginRun
<1>5. CASE MountOrUnmount BY <1>5 DEF Next
<1>6. CASE UNCHANGED wvars BY <1>6 DEF wvars
<1> QED BY <1>1, <1>2, <1>3, <1>4, <1>5, <1>6 DEF WNext

\* The maintenance runs, the worktree commands and the user's git leave the
\* output-base task the task that module OutputBaseGc specifies.
THEOREM RunsOutputBaseGc == WSpec => Init /\ [][Next]_vars
BY Refines, PTL DEF WSpec, WInit

THEOREM TaskInvariance == WSpec => []Inv
BY InvInit, InvStep, Refines, PTL DEF WSpec, WInit

\* Whatever the faults and the number of workspaces: without a volume that went
\* away or a workspace that came back, a run takes only orphans.
THEOREM OnlyOrphansAreRemoved == WSpec => OnlyOrphansRemoved
<1>1. Inv /\ [Next]_vars =>
        [since = {} => \A w \in Workspaces :
           base'[w] # base[w] /\ base'[w] # "whole" => source[w] = "deleted"]_vars
  BY TakesOrphans
<1> QED BY <1>1, TaskInvariance, RunsOutputBaseGc, PTL DEF OnlyOrphansRemoved
----------------------------------------------------------------------------
LEMMA WorktreesInit == WInit => WorktreesOK /\ KeptStaysRegistered
<1> SUFFICES ASSUME WInit PROVE WorktreesOK /\ KeptStaysRegistered
  OBVIOUS
<1>1. TypeOK BY InvInit DEF WInit, Inv
<1> QED BY <1>1 DEF WInit, Init, WorktreesOK, KeptStaysRegistered

\* git's entries and branches have their types after every step, and the entry of
\* a worktree that is kept stays: the pruning sees the directories, or no repo.
LEMMA WorktreesStep ==
  Inv /\ WorktreesOK /\ KeptStaysRegistered /\ [WNext]_wvars
    => WorktreesOK' /\ KeptStaysRegistered'
<1> SUFFICES ASSUME Inv, WorktreesOK, KeptStaysRegistered, [WNext]_wvars
             PROVE  WorktreesOK' /\ KeptStaysRegistered'
  OBVIOUS
<1>1. TypeOK' BY InvStep, Refines DEF Inv
<1> USE <1>1 DEF WorktreesOK, KeptStaysRegistered, git, run
<1>2. ASSUME NEW call \in Calls, BeginRun(call)
      PROVE  WorktreesOK' /\ KeptStaysRegistered'
  <2>1. todo' \subseteq DOMAIN Registry BY <1>2 DEF BeginRun
  <2>2. dry' \in BOOLEAN BY <1>2, WorktreesConstants DEF BeginRun
  <2> QED BY <1>2, <2>1, <2>2 DEF BeginRun, vars
<1>3. CASE OutputBaseTask
  BY <1>3 DEF OutputBaseTask, Begins, Start, world
<1>4. CASE OtherTask
  BY <1>4 DEF OtherTask, Begins, vars, world
<1>5. CASE PruneTask
  <2>1. todo' \subseteq DOMAIN Registry /\ source' = source BY <1>5 DEF PruneTask, Begins, vars
  <2>2. registered' \in [Workspaces -> BOOLEAN] BY <1>5 DEF PruneTask, Exists, TypeOK
  <2>3. \A w \in Workspaces : source[w] = "kept" => registered'[w]
    BY <1>5 DEF PruneTask, Exists
  <2> QED BY <1>5, <2>1, <2>2, <2>3 DEF PruneTask
<1>6. CASE TaskStep /\ UNCHANGED <<git, run>>
  <2>1. source' = source
    BY <1>6 DEF TaskStep, Read, BeginRemove, EndScan, FinishRemove, RemoveFails, EndRun, world
  <2> QED BY <1>6, <2>1
<1>7. CASE RunDies BY <1>7 DEF RunDies, Crash, world
<1>8. ASSUME NEW w \in Workspaces, AddWorktree(w)
      PROVE  WorktreesOK' /\ KeptStaysRegistered'
  <2>1. source' = [source EXCEPT ![w] = "kept"] BY <1>8 DEF AddWorktree, Recreate
  <2> QED BY <1>8, <2>1 DEF AddWorktree, TypeOK
<1>9. ASSUME NEW w \in Workspaces, RemoveWorktree(w)
      PROVE  WorktreesOK' /\ KeptStaysRegistered'
  BY <1>9 DEF RemoveWorktree, Delete, TypeOK
<1>10. ASSUME NEW w \in Workspaces, DeleteByHand(w)
       PROVE  WorktreesOK' /\ KeptStaysRegistered'
  BY <1>10 DEF DeleteByHand, Delete, TypeOK
<1>11. ASSUME NEW w \in Workspaces, Commit(w) \/ DeleteBranch(w)
       PROVE  WorktreesOK' /\ KeptStaysRegistered'
  BY <1>11 DEF Commit, DeleteBranch, vars
<1>12. ASSUME NEW w \in Workspaces, Build(w), UNCHANGED <<git, run>>
       PROVE  WorktreesOK' /\ KeptStaysRegistered'
  BY <1>12 DEF Build
<1>13. CASE MountOrUnmount /\ UNCHANGED <<git, run>>
  BY <1>13 DEF MountOrUnmount
<1>14. CASE UNCHANGED wvars BY <1>14 DEF wvars, vars
<1> QED
  BY <1>2, <1>3, <1>4, <1>5, <1>6, <1>7, <1>8, <1>9, <1>10, <1>11, <1>12, <1>13, <1>14
  DEF WNext, RunStep

\* The types of the worktrees, the run and the task, whatever happens.
THEOREM WorktreesTypeCorrect == WSpec => []WorktreesOK
BY WorktreesInit, WorktreesStep, TaskInvariance, PTL DEF WSpec

\* For any workspaces and any calls, whether the volume is there or not, and
\* wherever a run dies: git keeps its entry of every worktree that is kept.
THEOREM KeptAreRegistered == WSpec => []KeptStaysRegistered
BY WorktreesInit, WorktreesStep, TaskInvariance, PTL DEF WSpec

\* No step but the end of a branch touches a branch that has commits.
LEMMA OnlyDeletionLoses ==
  WorktreesOK /\ [WNext]_wvars =>
    \A w \in Workspaces : branch[w] = "ahead" /\ branch'[w] # "ahead" => DeleteBranch(w)
<1> SUFFICES ASSUME WorktreesOK, [WNext]_wvars, NEW w \in Workspaces,
                    branch[w] = "ahead", branch'[w] # "ahead"
             PROVE  DeleteBranch(w)
  OBVIOUS
<1> USE DEF WorktreesOK, git, run
<1>1. ASSUME NEW v \in Workspaces, AddWorktree(v) PROVE FALSE
  BY <1>1 DEF AddWorktree
<1>2. ASSUME NEW v \in Workspaces, Commit(v) PROVE FALSE
  BY <1>2 DEF Commit
<1>3. ASSUME NEW v \in Workspaces, DeleteBranch(v) PROVE DeleteBranch(w)
  <2>1. w = v BY <1>3 DEF DeleteBranch
  <2> QED BY <1>3, <2>1
<1>4. branch' # branch OBVIOUS
<1>5. ~RunStep /\ ~RunDies
  BY <1>4 DEF RunStep, RunDies, OutputBaseTask, OtherTask, PruneTask
<1>6. \A call \in Calls : ~BeginRun(call) BY <1>4 DEF BeginRun
<1> QED
  BY <1>1, <1>2, <1>3, <1>4, <1>5, <1>6 DEF WNext, RemoveWorktree, DeleteByHand, wvars

\* The commits of a branch outlive all maintenance and all worktree commands.
THEOREM CommitsOutlive == WSpec => CommitsSurvive
<1>1. WorktreesOK /\ [WNext]_wvars =>
        [\A w \in Workspaces :
           branch[w] = "ahead" /\ branch'[w] # "ahead" => DeleteBranch(w)]_wvars
  BY OnlyDeletionLoses
<1> QED BY <1>1, WorktreesTypeCorrect, PTL DEF WSpec, CommitsSurvive
----------------------------------------------------------------------------
(***************************************************************************)
(* Trimming the disk cache. First, the bytes of a set of entries.          *)
(***************************************************************************)
Content(S) == UNION {{f} \X (1..Size[f]) : f \in S}

LEMMA ContentFinite == \A S \in SUBSET Files : IsFiniteSet(Content(S))
<1> SUFFICES ASSUME NEW S \in SUBSET Files PROVE IsFiniteSet(Content(S))
  OBVIOUS
<1> DEFINE Of == [f \in S |-> {f} \X (1..Size[f])]
<1> DEFINE T == {{f} \X (1..Size[f]) : f \in S}
<1>1. IsFiniteSet(S) BY DiskCacheGcConstants, FS_Subset
<1>2. Of \in Surjection(S, T) BY DEF Surjection
<1>3. IsFiniteSet(T) BY <1>1, <1>2, FS_Surjection
<1>4. \A f \in S : IsFiniteSet({f} \X (1..Size[f]))
  <2> SUFFICES ASSUME NEW f \in S PROVE IsFiniteSet({f} \X (1..Size[f]))
    OBVIOUS
  <2>1. Size[f] \in Int BY DiskCacheGcConstants
  <2>2. IsFiniteSet(1..Size[f])
    <3> DEFINE n == Size[f]
    <3>1. 1 \in Int /\ n \in Int BY <2>1
    <3> HIDE DEF n
    <3>2. IsFiniteSet(1..n) BY <3>1, FS_Interval
    <3> QED BY <3>2 DEF n
  <2>3. IsFiniteSet({f}) BY FS_Singleton
  <2> QED BY <2>2, <2>3, FS_Product
<1>5. \A U \in T : IsFiniteSet(U) BY <1>4
<1> HIDE DEF T
<1>6. IsFiniteSet(UNION T) BY <1>3, <1>5, FS_UNION
<1> QED BY <1>6 DEF Content, T

LEMMA BytesAre ==
  ASSUME NEW S \in SUBSET Files
  PROVE  Bytes(S) = Cardinality(Content(S)) /\ Bytes(S) \in Nat
BY ContentFinite, FS_CardinalityType DEF Bytes, Content

LEMMA BytesNone == Bytes({}) = 0
<1>1. Content({}) = {} BY DEF Content
<1> QED BY <1>1, BytesAre, FS_EmptySet

LEMMA BytesGrow ==
  ASSUME NEW S \in SUBSET Files, NEW T \in SUBSET S
  PROVE  Bytes(T) <= Bytes(S)
<1>1. Content(T) \subseteq Content(S) BY DEF Content
<1> QED BY <1>1, BytesAre, ContentFinite, FS_Subset

LEMMA BytesRemove ==
  ASSUME NEW S \in SUBSET Files, NEW f \in S
  PROVE  Bytes(S) = Bytes(S \ {f}) + Size[f]
<1> DEFINE one == {f} \X (1..Size[f])
<1> DEFINE rest == S \ {f}
<1>1. Content(S) = Content(rest) \cup one BY DEF Content
<1>2. Content(rest) \cap one = {}
  <2>1. \A x \in Content(rest) : x[1] # f BY DEF Content
  <2>2. \A x \in one : x[1] = f OBVIOUS
  <2> QED BY <2>1, <2>2
<1>3. Cardinality(one) = Size[f] /\ IsFiniteSet(one)
  <2>1. Size[f] \in Nat BY DiskCacheGcConstants
  <2>2. IsFiniteSet(1..Size[f]) /\ Cardinality(1..Size[f]) = Size[f]
    BY <2>1, FS_Interval
  <2>3. IsFiniteSet({f}) /\ Cardinality({f}) = 1 BY FS_Singleton
  <2>4. IsFiniteSet(one) /\ Cardinality(one) = 1 * Size[f] BY <2>2, <2>3, FS_Product
  <2> QED BY <2>1, <2>4
<1>4. Cardinality({}) = 0 BY FS_EmptySet
<1>5. rest \in SUBSET Files OBVIOUS
<1> HIDE DEF one, rest
<1>6. IsFiniteSet(Content(rest)) BY <1>5, ContentFinite
<1>7. Cardinality(Content(S)) = Cardinality(Content(rest)) + Cardinality(one) - 0
  BY <1>1, <1>2, <1>3, <1>4, <1>6, FS_Union
<1>8. Bytes(S) = Bytes(rest) + Size[f] - 0 BY <1>3, <1>5, <1>7, BytesAre
<1>9. Bytes(rest) \in Nat /\ Size[f] \in Nat BY <1>5, BytesAre, DiskCacheGcConstants
<1> QED BY <1>8, <1>9 DEF rest

(***************************************************************************)
(* Sorting what was seen loses nothing and repeats nothing.                *)
(***************************************************************************)
Entries == Files \X (0..MaxTime)
Distinct(s) == \A i, j \in DOMAIN s : s[i][1] = s[j][1] => i = j

LEMMA SortedIs ==
  ASSUME NEW seen \in Seq(Entries), Distinct(seen), NEW s \in OldestFirstOf(seen)
  PROVE  /\ s \in Seq(Entries) /\ Range(s) = Range(seen)
         /\ Distinct(s) /\ \A i, j \in DOMAIN s : i < j => s[i][2] <= s[j][2]
<1> DEFINE R == Range(seen)
           n == Cardinality(R)
<1>1. R \subseteq Entries BY DEF Range
<1>2. \A x, y \in R : x[1] = y[1] => x = y BY DEF Range, Distinct
<1>3. IsFiniteSet(R)
  <2>1. seen \in Surjection(DOMAIN seen, R) BY DEF Surjection, Range
  <2>2. Len(seen) \in Int /\ 1 \in Int OBVIOUS
  <2>3. IsFiniteSet(1..Len(seen)) BY <2>2, FS_Interval
  <2>4. IsFiniteSet(DOMAIN seen) BY <2>3
  <2> QED BY <2>1, <2>4, FS_Surjection
<1>4. n \in Nat BY <1>3, FS_CardinalityType
<1>5. /\ s \in [1..n -> R] /\ \A i, j \in 1..n : i # j => s[i] # s[j]
      /\ \A i, j \in DOMAIN s : i < j => s[i][2] <= s[j][2]
  BY DEF OldestFirstOf, SetToSeqs
<1> HIDE DEF R
<1>6. Range(s) = R
  <2>1. s \in Injection(1..n, R) BY <1>5 DEF Injection, IsInjective
  <2>2. IsFiniteSet(1..n) /\ Cardinality(1..n) = n
    <3>1. 1 \in Int /\ n \in Int BY <1>4
    <3> HIDE DEF n
    <3>2. IsFiniteSet(1..n) /\ Cardinality(1..n) = IF 1 > n THEN 0 ELSE n - 1 + 1
      BY <3>1, FS_Interval
    <3> QED BY <3>2, <1>4
  <2>3. s \in Surjection(1..n, R) BY <1>3, <2>1, <2>2, FS_Injection
  <2> QED BY <2>3, <1>5 DEF Surjection, Range
<1>7. s \in Seq(Entries)
  <2> HIDE DEF n
  <2>1. s \in [1..n -> Entries] BY <1>1, <1>5
  <2> QED BY <2>1, <1>4
<1>8. Distinct(s)
  <2> HIDE DEF n
  <2> QED BY <1>2, <1>5 DEF Distinct
<1> QED BY <1>5, <1>6, <1>7, <1>8 DEF R

(***************************************************************************)
(* One run, among given entries with given dates, after a given history.   *)
(***************************************************************************)
Shape(w) ==
  /\ w.at = "idle" => w = Idle
  /\ w.at = "walk" => w.next = 1 /\ w.reclaimed = 0
  /\ w.next \in 1..(Len(w.seen) + 1)
  /\ Distinct(w.seen)
  /\ w.at = "evict" => \A i, j \in DOMAIN w.seen : i < j => w.seen[i][2] <= w.seen[j][2]

\* No date goes back, and what is there again after the run tried to remove it is
\* newer than what the run saw.
Dated(w, entries, dates, history) ==
  /\ \A i \in DOMAIN w.seen : w.seen[i][2] <= dates[w.seen[i][1]]
  /\ ~w.preview /\ "stuck" \notin history =>
       \A i \in 1..(w.next - 1) :
         w.seen[i][1] \in entries => w.seen[i][2] < dates[w.seen[i][1]]

\* What the run holds to be left of what it met: all it has not tried. As long as no
\* other run evicts, it is there.
Counts(w, left, entries, history) ==
  /\ Untried(w) \subseteq left /\ left \subseteq Met(w)
  /\ w.total = w.reclaimed + Bytes(left)
  /\ ~w.preview /\ "overlap" \notin history => left \subseteq entries

RunInv(w, entries, dates, history) ==
  /\ Shape(w) /\ Dated(w, entries, dates, history)
  /\ \E left \in SUBSET Files : Counts(w, left, entries, history)

LEMMA TriedIsSeen ==
  ASSUME NEW w \in RunsOfTask, Shape(w)
  PROVE  /\ w.seen \in Seq(Entries) /\ w.next \in Nat \ {0} /\ w.next <= Len(w.seen) + 1
         /\ DOMAIN w.seen = 1..Len(w.seen) /\ 1..(w.next - 1) \subseteq DOMAIN w.seen
         /\ Met(w) \subseteq Files /\ Tried(w) \subseteq Met(w)
         /\ \A i \in DOMAIN w.seen :
              w.seen[i] \in Entries /\ (w.seen[i][1] \in Tried(w) <=> i < w.next)
<1>1. w.seen \in Seq(Entries) BY DEF RunsOfTask, Entries
<1>2. w.next \in Nat \ {0} /\ w.next <= Len(w.seen) + 1 BY <1>1 DEF Shape
<1>3. DOMAIN w.seen = 1..Len(w.seen) /\ 1..(w.next - 1) \subseteq DOMAIN w.seen
  BY <1>1, <1>2
<1>4. \A i \in DOMAIN w.seen : w.seen[i] \in Entries BY <1>1
<1>5. Met(w) \subseteq Files /\ Tried(w) \subseteq Met(w)
  BY <1>3, <1>4 DEF Met, Tried, Entries
<1>6. ASSUME NEW i \in DOMAIN w.seen PROVE w.seen[i][1] \in Tried(w) <=> i < w.next
  <2>1. i \in Nat \ {0} BY <1>1
  <2>2. CASE i < w.next
    <3>1. i \in 1..(w.next - 1) BY <1>2, <2>1, <2>2
    <3> QED BY <2>2, <3>1 DEF Tried
  <2>3. ASSUME w.seen[i][1] \in Tried(w) PROVE i < w.next
    <3>1. PICK j \in 1..(w.next - 1) : w.seen[i][1] = w.seen[j][1] BY <2>3 DEF Tried
    <3>2. i = j BY <1>3, <3>1 DEF Shape, Distinct
    <3> QED BY <1>2, <3>1, <3>2
  <2> QED BY <2>2, <2>3
<1> QED BY <1>1, <1>2, <1>3, <1>4, <1>5, <1>6

LEMMA IdleInv == \A entries, dates, history : RunInv(Idle, entries, dates, history)
<1>1. Shape(Idle) BY DEF Shape, Idle, Distinct
<1>2. Met(Idle) = {} /\ Untried(Idle) = {} BY DEF Met, Untried, Idle
<1>3. \A entries, history : Counts(Idle, {}, entries, history)
  BY <1>2, BytesNone DEF Counts, Idle
<1>4. \A entries, dates, history : Dated(Idle, entries, dates, history) BY DEF Dated, Idle
<1> QED BY <1>1, <1>3, <1>4 DEF RunInv

\* What others do: entries get younger, those that come are new, and those that go
\* are no evictor's that is alone.
LEMMA Undisturbed ==
  ASSUME NEW w \in RunsOfTask, NEW entries, NEW entries2,
         NEW dates \in [Files -> 0..MaxTime], NEW dates2 \in [Files -> 0..MaxTime],
         NEW history, NEW history2 \in SUBSET (TrimFaults \cup {"overlap"}),
         RunInv(w, entries, dates, history), history \subseteq history2,
         \A f \in Files : dates[f] <= dates2[f],
         \A f \in Files : f \in entries2 /\ f \notin entries => dates[f] < dates2[f],
         entries \subseteq entries2 \/ w.preview \/ w.at = "idle" \/ "overlap" \in history2
  PROVE  RunInv(w, entries2, dates2, history2)
<1> USE DEF RunInv
<1>1. CASE w.at = "idle" BY <1>1, IdleInv DEF Shape
<1>2. CASE w.at # "idle"
  <2>1. PICK left \in SUBSET Files : Counts(w, left, entries, history) OBVIOUS
  <2>2. Counts(w, left, entries2, history2) BY <1>2, <2>1 DEF Counts
  <2>3. ASSUME NEW i \in DOMAIN w.seen
        PROVE  /\ w.seen[i][1] \in Files /\ w.seen[i][2] \in Nat
               /\ dates[w.seen[i][1]] \in Nat /\ dates2[w.seen[i][1]] \in Nat
               /\ w.seen[i][2] <= dates2[w.seen[i][1]]
    <3>1. w.seen[i] \in Entries BY <2>3, TriedIsSeen
    <3>2. w.seen[i][1] \in Files /\ w.seen[i][2] \in Nat BY <3>1 DEF Entries
    <3>3. w.seen[i][2] <= dates[w.seen[i][1]] BY <2>3 DEF Dated
    <3> QED BY <3>2, <3>3
  <2>4. ASSUME ~w.preview, "stuck" \notin history2, NEW i \in 1..(w.next - 1),
               w.seen[i][1] \in entries2
        PROVE  w.seen[i][2] < dates2[w.seen[i][1]]
    <3>1. i \in DOMAIN w.seen BY <2>4, TriedIsSeen
    <3>2. CASE w.seen[i][1] \in entries
      <4>1. w.seen[i][2] < dates[w.seen[i][1]] BY <2>4, <3>2 DEF Dated
      <4> QED BY <2>3, <3>1, <4>1
    <3>3. CASE w.seen[i][1] \notin entries
      <4>1. w.seen[i][2] <= dates[w.seen[i][1]] BY <3>1 DEF Dated
      <4>2. dates[w.seen[i][1]] < dates2[w.seen[i][1]] BY <2>3, <2>4, <3>1, <3>3
      <4> QED BY <2>3, <3>1, <4>1, <4>2
    <3> QED BY <3>2, <3>3
  <2>5. Dated(w, entries2, dates2, history2) BY <2>3, <2>4 DEF Dated
  <2> QED BY <2>2, <2>5
<1> QED BY <1>1, <1>2

(***************************************************************************)
(* The steps of the run itself.                                            *)
(***************************************************************************)
LEMMA Visited ==
  ASSUME NEW w \in RunsOfTask, NEW entries \in SUBSET Files,
         NEW dates \in [Files -> 0..MaxTime], NEW history,
         RunInv(w, entries, dates, history), w.at = "walk",
         NEW f \in entries \ Met(w),
         NEW v, v = [w EXCEPT !.seen = Append(@, <<f, dates[f]>>), !.total = @ + Size[f]]
  PROVE  v \in RunsOfTask /\ v.reclaimed <= v.total /\ RunInv(v, entries, dates, history)
<1> USE DEF RunInv
<1> DEFINE s == w.seen
           t == Append(s, <<f, dates[f]>>)
<1>1. s \in Seq(Entries) /\ <<f, dates[f]>> \in Entries
  BY TriedIsSeen DEF Entries
<1>2. Size[f] \in Nat \ {0} BY DiskCacheGcConstants
<1>3. v = [at |-> "walk", preview |-> w.preview, owed |-> w.owed, seen |-> t,
           next |-> 1, total |-> w.total + Size[f], reclaimed |-> 0]
  BY DEF Shape, RunsOfTask
<1>4. w.total \in Nat /\ w.reclaimed = 0 /\ w.next = 1 BY DEF Shape, RunsOfTask
<1>5. v.seen = t BY DEF RunsOfTask
<1>6. /\ t \in Seq(Entries) /\ Len(t) = Len(s) + 1
      /\ DOMAIN t = DOMAIN s \cup {Len(t)} /\ Len(t) \notin DOMAIN s
      /\ t[Len(t)] = <<f, dates[f]>> /\ \A i \in DOMAIN s : t[i] = s[i]
  BY <1>1
<1>7. Len(t) \in Nat \ {0} BY <1>6, <1>1
<1>8. v \in RunsOfTask
  <2>1. t \in Seq(Files \X (0..MaxTime)) BY <1>6 DEF Entries
  <2>2. w.total + Size[f] \in Nat BY <1>2, <1>4
  <2> HIDE DEF t
  <2> QED BY <1>3, <2>1, <2>2 DEF RunsOfTask
<1>9. \A i \in DOMAIN s : s[i][1] # f BY DEF Met
<1> HIDE DEF t
<1>10. Distinct(t)
  <2>1. Distinct(s) BY DEF Shape
  <2> QED BY <1>6, <1>9, <2>1 DEF Distinct
<1>11. Shape(v)
  <2>1. v.at = "walk" /\ v.next = 1 /\ v.reclaimed = 0 BY <1>4 DEF RunsOfTask
  <2>2. 1 \in 1..(Len(t) + 1) BY <1>7
  <2> QED BY <2>1, <2>2, <1>5, <1>10 DEF Shape
<1>12. Dated(v, entries, dates, history)
  <2>1. \A i \in DOMAIN s : s[i][2] <= dates[s[i][1]] BY DEF Dated
  <2>2. dates[f] <= dates[f] OBVIOUS
  <2>3. \A i \in DOMAIN t : t[i][2] <= dates[t[i][1]] BY <1>6, <2>1, <2>2
  <2>4. v.next = 1 BY <1>4 DEF RunsOfTask
  <2> QED BY <2>3, <2>4, <1>5 DEF Dated
<1>13. PICK left \in SUBSET Files : Counts(w, left, entries, history) OBVIOUS
<1>14. Met(v) = Met(w) \cup {f} BY <1>3, <1>6 DEF Met
<1>15. Untried(v) = Met(v) /\ Untried(w) = Met(w)
  BY <1>3, <1>4 DEF Untried, Tried
<1>16. Bytes(left \cup {f}) = Bytes(left) + Size[f]
  <2>1. left \cup {f} \in SUBSET Files /\ f \notin left BY <1>13 DEF Counts
  <2>2. (left \cup {f}) \ {f} = left BY <2>1
  <2> QED BY <2>1, <2>2, BytesRemove
<1>17. Bytes(left) \in Nat BY BytesAre
<1>18. Counts(v, left \cup {f}, entries, history)
  BY <1>2, <1>3, <1>4, <1>13, <1>14, <1>15, <1>16, <1>17 DEF Counts
<1>19. v.reclaimed <= v.total BY <1>2, <1>3, <1>4
<1> QED BY <1>8, <1>11, <1>12, <1>18, <1>19

LEMMA Walked ==
  ASSUME NEW w \in RunsOfTask, NEW entries, NEW dates, NEW history,
         RunInv(w, entries, dates, history), w.at = "walk", w.reclaimed <= w.total,
         NEW s \in OldestFirstOf(w.seen),
         NEW v, v = [w EXCEPT !.at = "evict", !.owed = {}, !.seen = s]
  PROVE  v \in RunsOfTask /\ v.reclaimed <= v.total /\ RunInv(v, entries, dates, history)
<1> USE DEF RunInv
<1>1. w.seen \in Seq(Entries) /\ Distinct(w.seen) BY TriedIsSeen DEF Shape
<1>2. /\ s \in Seq(Entries) /\ Range(s) = Range(w.seen) /\ Distinct(s)
      /\ \A i, j \in DOMAIN s : i < j => s[i][2] <= s[j][2]
  BY <1>1, SortedIs
<1>3. v = [at |-> "evict", preview |-> w.preview, owed |-> {}, seen |-> s,
           next |-> 1, total |-> w.total, reclaimed |-> 0]
  BY DEF Shape, RunsOfTask
<1>4. w.total \in Nat /\ w.reclaimed = 0 /\ w.next = 1 BY DEF Shape, RunsOfTask
<1>5. v \in RunsOfTask BY <1>2, <1>3, <1>4 DEF RunsOfTask, Entries
<1>6. 1 \in 1..(Len(s) + 1)
  <2>1. Len(s) \in Nat BY <1>2
  <2> QED BY <2>1
<1>7. Shape(v) BY <1>2, <1>3, <1>6 DEF Shape
<1>8. \A i \in DOMAIN s : \E j \in DOMAIN w.seen : s[i] = w.seen[j] BY <1>2 DEF Range
<1>9. \A j \in DOMAIN w.seen : \E i \in DOMAIN s : s[i] = w.seen[j] BY <1>2 DEF Range
<1>10. Dated(v, entries, dates, history)
  <2>1. \A j \in DOMAIN w.seen : w.seen[j][2] <= dates[w.seen[j][1]] BY DEF Dated
  <2>2. \A i \in DOMAIN s : s[i][2] <= dates[s[i][1]] BY <1>8, <2>1
  <2>3. v.seen = s BY DEF RunsOfTask
  <2>4. v.next = 1 BY <1>4 DEF RunsOfTask
  <2> QED BY <2>2, <2>3, <2>4 DEF Dated
<1>11. Met(v) = Met(w) BY <1>3, <1>8, <1>9 DEF Met
<1>12. Untried(v) = Untried(w) BY <1>3, <1>4, <1>11 DEF Untried, Tried
<1>13. PICK left \in SUBSET Files : Counts(w, left, entries, history) OBVIOUS
<1>14. Counts(v, left, entries, history) BY <1>3, <1>4, <1>11, <1>12, <1>13 DEF Counts
<1> QED BY <1>3, <1>4, <1>5, <1>7, <1>10, <1>14

\* Trying the next file: it is removed, passed over, or, in a preview, counted.
NextFile(w)        == w.seen[w.next][1]
Trying(w, removed) == [w EXCEPT !.next = @ + 1,
                                !.reclaimed = IF removed THEN @ + Size[NextFile(w)] ELSE @]
Leaves(w, removed, entries) ==
  IF removed /\ ~w.preview THEN entries \ {NextFile(w)} ELSE entries
Tells(w, removed, entries, history) ==
  IF NextFile(w) \in entries /\ ~removed THEN history \cup {"stuck"} ELSE history

LEMMA TriedNext ==
  ASSUME NEW w \in RunsOfTask, NEW entries \in SUBSET Files,
         NEW dates \in [Files -> 0..MaxTime], NEW history, NEW ok \in BOOLEAN,
         RunInv(w, entries, dates, history), w.at = "evict", HasNext(w),
         ok => w.preview \/ NextFile(w) \in entries
  PROVE  /\ Trying(w, ok) \in RunsOfTask
         /\ Trying(w, ok).reclaimed <= Trying(w, ok).total
         /\ RunInv(Trying(w, ok), Leaves(w, ok, entries), dates,
                   Tells(w, ok, entries, history))
<1> DEFINE f == NextFile(w)
           v == Trying(w, ok)
           entries2 == Leaves(w, ok, entries)
           history2 == Tells(w, ok, entries, history)
<1>1. f = w.seen[w.next][1] BY DEF NextFile
<1>2. v = [w EXCEPT !.next = @ + 1, !.reclaimed = IF ok THEN @ + Size[f] ELSE @]
  BY DEF Trying
<1>3. entries2 = (IF ok /\ ~w.preview THEN entries \ {f} ELSE entries) BY DEF Leaves
<1>4. history2 = (IF f \in entries /\ ~ok THEN history \cup {"stuck"} ELSE history)
  BY DEF Tells
<1>5. ok => w.preview \/ f \in entries OBVIOUS
<1> HIDE DEF f, v, entries2, history2
<1> USE <1>1, <1>2, <1>3, <1>4, <1>5
<1> USE DEF RunInv
<1>6. /\ w.seen \in Seq(Entries) /\ DOMAIN w.seen = 1..Len(w.seen)
      /\ w.next \in Nat \ {0} /\ w.next <= Len(w.seen) /\ w.next \in DOMAIN w.seen
  BY TriedIsSeen DEF HasNext
<1>7. f \in Files /\ f \in Met(w) /\ f \in Untried(w)
  <2>1. f \in Met(w) BY <1>6 DEF Met
  <2>2. f \notin Tried(w) BY <1>6, TriedIsSeen
  <2> QED BY <2>1, <2>2, TriedIsSeen DEF Untried
<1>8. Size[f] \in Nat \ {0} BY <1>7, DiskCacheGcConstants
<1>9. w.total \in Nat /\ w.reclaimed \in Nat BY DEF RunsOfTask
<1>10. /\ v.at = "evict" /\ v.preview = w.preview /\ v.seen = w.seen
      /\ v.next = w.next + 1 /\ v.total = w.total
      /\ v.reclaimed = IF ok THEN w.reclaimed + Size[f] ELSE w.reclaimed
  BY DEF RunsOfTask
<1>11. v \in RunsOfTask
  <2>1. v.next \in Nat /\ v.reclaimed \in Nat BY <1>6, <1>8, <1>9, <1>10
  <2>2. v = [at |-> w.at, preview |-> w.preview, owed |-> w.owed, seen |-> w.seen,
             next |-> v.next, total |-> w.total, reclaimed |-> v.reclaimed]
    BY DEF RunsOfTask
  <2> QED BY <2>1, <2>2 DEF RunsOfTask
<1>12. Shape(v)
  <2>1. v.next \in 1..(Len(v.seen) + 1)
    <3>1. Len(w.seen) \in Nat BY <1>6
    <3> QED BY <3>1, <1>6, <1>10
  <2> QED BY <1>10, <2>1 DEF Shape
<1>13. Dated(v, entries2, dates, history2)
  <2>1. ASSUME ~w.preview, "stuck" \notin history2, NEW i \in 1..(v.next - 1),
               w.seen[i][1] \in entries2
        PROVE  w.seen[i][2] < dates[w.seen[i][1]]
    <3>1. i = w.next \/ i \in 1..(w.next - 1) BY <1>6, <1>10
    <3>2. i # w.next BY <2>1
    <3> QED BY <2>1, <3>1, <3>2 DEF Dated
  <2> QED BY <1>10, <2>1 DEF Dated
<1>14. Met(v) = Met(w) BY <1>10 DEF Met
<1>15. Untried(v) \subseteq Untried(w) \ {f}
  <2>1. 1..(v.next - 1) = 1..(w.next - 1) \cup {w.next} BY <1>6, <1>10
  <2>2. Tried(v) = Tried(w) \cup {f} BY <1>10, <2>1 DEF Tried
  <2> QED BY <1>14, <2>2 DEF Untried
<1>16. PICK left \in SUBSET Files : Counts(w, left, entries, history) OBVIOUS
<1>17. Bytes(left) = Bytes(left \ {f}) + Size[f]
  BY <1>7, <1>16, BytesRemove DEF Counts
<1>18. Bytes(left) \in Nat /\ Bytes(left \ {f}) \in Nat BY BytesAre
<1>19. v.reclaimed <= v.total BY <1>8, <1>9, <1>10, <1>16, <1>17, <1>18 DEF Counts
<1>20. ASSUME ok PROVE RunInv(v, entries2, dates, history2)
  <2>1. Counts(v, left \ {f}, entries2, history2)
    <3>1. v.total = v.reclaimed + Bytes(left \ {f})
      BY <1>8, <1>9, <1>10, <1>16, <1>17, <1>18, <1>20 DEF Counts
    <3> QED BY <1>10, <1>14, <1>15, <1>16, <1>20, <3>1 DEF Counts
  <2> QED BY <1>12, <1>13, <2>1
<1>21. ASSUME ~ok PROVE RunInv(v, entries2, dates, history2)
  <2>1. Counts(v, left, entries2, history2)
    BY <1>10, <1>14, <1>15, <1>16, <1>21 DEF Counts
  <2> QED BY <1>12, <1>13, <2>1
<1>22. v \in RunsOfTask /\ v.reclaimed <= v.total /\ RunInv(v, entries2, dates, history2)
  BY <1>11, <1>19, <1>20, <1>21
<1> QED BY <1>22 DEF v, entries2, history2

(***************************************************************************)
(* The inductive invariant: every run is sound, and only runs that overlap *)
(* let two evict at once.                                                  *)
(***************************************************************************)
TrimInv ==
  /\ TrimTypeOK
  /\ \A f \in Files : mtime[f] <= now
  /\ "overlap" \notin met => \A q, r \in Evictors : q = r
  /\ \A r \in Runners : RunInv(trim[r], disk, mtime, met)

LEMMA TrimStart == TrimInit => TrimInv
<1> SUFFICES ASSUME TrimInit PROVE TrimInv
  OBVIOUS
<1> USE DEF TrimInit
<1>1. now \in 0..MaxTime
  <2>1. IsFiniteSet(disk) /\ Cardinality(disk) <= Cardinality(Files)
    BY DiskCacheGcConstants, FS_Subset
  <2>2. Cardinality(disk) \in Nat /\ Cardinality(Files) \in Nat
    BY <2>1, DiskCacheGcConstants, FS_CardinalityType
  <2> QED BY <2>1, <2>2, DiskCacheGcConstants
<1>2. mtime \in [Files -> 0..MaxTime] /\ \A f \in Files : mtime[f] <= now
  <2>1. mtime \in [Files -> 0..now] OBVIOUS
  <2>2. 0..now \subseteq 0..MaxTime BY <1>1, DiskCacheGcConstants
  <2>3. \A f \in Files : mtime[f] \in 0..now BY <2>1
  <2> QED BY <1>1, <2>1, <2>2, <2>3
<1>3. Idle \in RunsOfTask /\ Idle.reclaimed <= Idle.total
  BY DEF Idle, RunsOfTask
<1>4. trim \in [Runners -> RunsOfTask] /\ \A r \in Runners : trim[r] = Idle BY <1>3
<1>5. runs \in [Runners -> 0..MaxRuns] BY DiskCacheGcConstants
<1>6. TrimTypeOK BY <1>1, <1>2, <1>3, <1>4, <1>5 DEF TrimTypeOK
<1>7. Evictors = {} BY <1>4 DEF Evictors, Idle
<1> QED BY <1>2, <1>4, <1>6, <1>7, IdleInv DEF TrimInv

\* A step of a run, given what it makes of that run and of the rest.
LEMMA RunnerSteps ==
  ASSUME TrimInv, NEW r \in Runners, NEW v \in RunsOfTask,
         trim' = [trim EXCEPT ![r] = v], v.reclaimed <= v.total,
         disk' \subseteq disk, UNCHANGED <<mtime, now>>,
         runs' \in [Runners -> 0..MaxRuns],
         met \subseteq met', met' \subseteq TrimFaults \cup {"overlap"},
         RunInv(v, disk', mtime, met'),
         v.at # "idle" /\ ~v.preview /\ "overlap" \notin met' =>
           r \in Evictors \/ Evictors = {},
         disk' = disk \/ r \in Evictors
  PROVE  TrimInv'
<1> USE DEF TrimInv
<1>1. TrimTypeOK'
  <2>1. trim' \in [Runners -> RunsOfTask] BY DEF TrimTypeOK
  <2>2. \A q \in Runners : trim'[q].reclaimed <= trim'[q].total BY DEF TrimTypeOK
  <2> QED BY <2>1, <2>2 DEF TrimTypeOK
<1>2. trim'[r] = v /\ \A q \in Runners \ {r} : trim'[q] = trim[q] BY DEF TrimTypeOK
<1>3. "overlap" \notin met' => \A p, q \in Evictors' : p = q
  <2> SUFFICES ASSUME "overlap" \notin met', NEW p \in Evictors', NEW q \in Evictors'
               PROVE  p = q
    OBVIOUS
  <2>1. \A o \in Evictors' : o \in Runners /\ (o # r => o \in Evictors)
    BY <1>2 DEF Evictors
  <2>2. r \in Evictors' => v.at # "idle" /\ ~v.preview BY <1>2 DEF Evictors
  <2> QED BY <2>1, <2>2
<1>4. ASSUME NEW q \in Runners \ {r} PROVE RunInv(trim[q], disk', mtime', met')
  <2>1. trim[q] \in RunsOfTask /\ mtime \in [Files -> 0..MaxTime] BY DEF TrimTypeOK
  <2>2. disk \subseteq disk' \/ trim[q].preview \/ trim[q].at = "idle" \/ "overlap" \in met'
    BY DEF Evictors
  <2>3. \A f \in Files : mtime[f] <= mtime'[f]
    <3>1. \A f \in Files : mtime[f] \in Nat BY <2>1
    <3> QED BY <3>1
  <2> QED BY <2>1, <2>2, <2>3, Undisturbed
<1>5. ASSUME NEW q \in Runners PROVE RunInv(trim'[q], disk', mtime', met')
  BY <1>2, <1>4
<1>6. (\A f \in Files : mtime[f] <= now)' OBVIOUS
<1>7. (\A q \in Runners : RunInv(trim[q], disk, mtime, met))'
  BY <1>5 DEF RunInv, Shape, Dated, Counts, Distinct, Untried, Tried, Met, Idle
<1> QED BY <1>1, <1>3, <1>6, <1>7

LEMMA StartTrimKeeps == ASSUME TrimInv, NEW r \in Runners, StartTrim(r) PROVE TrimInv'
<1> USE DEF TrimInv, StartTrim
<1>1. PICK dryRun \in BOOLEAN :
        /\ trim' = [trim EXCEPT ![r] = [Idle EXCEPT !.at = "walk", !.preview = dryRun,
                                                    !.owed = disk]]
        /\ met' = IF ~dryRun /\ Evictors # {} THEN met \cup {"overlap"} ELSE met
  OBVIOUS
<1> DEFINE v == [Idle EXCEPT !.at = "walk", !.preview = dryRun, !.owed = disk]
<1>2. /\ Idle \in RunsOfTask /\ Idle.seen = << >> /\ Idle.next = 1
      /\ Idle.total = 0 /\ Idle.reclaimed = 0
  BY DEF Idle, RunsOfTask
<1>3. v \in RunsOfTask
  <2>1. disk \in SUBSET Files BY DEF TrimTypeOK
  <2> HIDE DEF TrimInv, StartTrim
  <2> QED BY <1>2, <2>1 DEF RunsOfTask
<1>4. /\ v.at = "walk" /\ v.preview = dryRun /\ v.seen = << >> /\ v.next = 1
       /\ v.total = 0 /\ v.reclaimed = 0
  BY <1>2 DEF RunsOfTask
<1>5. RunInv(v, disk', mtime, met')
  <2>1. v.seen = << >> /\ v.at = "walk" /\ v.next = 1 /\ v.reclaimed = 0 /\ v.total = 0
    BY <1>4
  <2> HIDE DEF v
  <2>2. Shape(v) BY <2>1 DEF Shape, Distinct
  <2>3. Dated(v, disk', mtime, met') BY <2>1 DEF Dated
  <2>4. Untried(v) = {} /\ Met(v) = {} BY <2>1 DEF Untried, Met
  <2>5. Counts(v, {}, disk', met') BY <2>1, <2>4, BytesNone DEF Counts
  <2> QED BY <2>2, <2>3, <2>5 DEF RunInv
<1>6. runs' \in [Runners -> 0..MaxRuns]
  <2>1. runs[r] \in 0..MaxRuns /\ runs[r] < MaxRuns BY DEF TrimTypeOK
  <2>2. runs[r] + 1 \in 0..MaxRuns BY <2>1, DiskCacheGcConstants
  <2> QED BY <2>2 DEF TrimTypeOK
<1>7. v.preview = dryRun /\ v.reclaimed <= v.total BY <1>4
<1>8. met \subseteq met' /\ met' \subseteq TrimFaults \cup {"overlap"} BY <1>1 DEF TrimTypeOK
<1>9. trim' = [trim EXCEPT ![r] = v] BY <1>1
<1>10. ~v.preview /\ "overlap" \notin met' => Evictors = {} BY <1>1, <1>7
<1> HIDE DEF v
<1> QED BY <1>3, <1>5, <1>6, <1>7, <1>8, <1>9, <1>10, RunnerSteps

LEMMA VisitKeeps == ASSUME TrimInv, NEW r \in Runners, Visit(r) PROVE TrimInv'
<1>1. PICK f \in disk \ Met(trim[r]) :
        trim' = [trim EXCEPT ![r].seen = Append(@, <<f, mtime[f]>>),
                             ![r].total = @ + Size[f]]
  BY DEF Visit
<1> DEFINE w == trim[r]
           v == [w EXCEPT !.seen = Append(@, <<f, mtime[f]>>), !.total = @ + Size[f]]
<1>2. /\ w \in RunsOfTask /\ disk \in SUBSET Files /\ mtime \in [Files -> 0..MaxTime]
      /\ runs \in [Runners -> 0..MaxRuns] /\ met \subseteq TrimFaults \cup {"overlap"}
  BY DEF TrimInv, TrimTypeOK
<1>3. trim' = [trim EXCEPT ![r] = v] BY <1>1, <1>2 DEF TrimInv, TrimTypeOK
<1>4. v.at = w.at /\ v.preview = w.preview BY <1>2 DEF RunsOfTask
<1>5. v \in RunsOfTask /\ v.reclaimed <= v.total /\ RunInv(v, disk, mtime, met)
  <2> HIDE DEF v
  <2>1. v = [w EXCEPT !.seen = Append(@, <<f, mtime[f]>>), !.total = @ + Size[f]] BY DEF v
  <2>2. RunInv(w, disk, mtime, met) /\ w.at = "walk" /\ f \in disk \ Met(w)
    BY DEF TrimInv, Visit
  <2> HIDE DEF w
  <2> QED BY <1>2, <2>1, <2>2, Visited
<1>6. v.at # "idle" /\ ~v.preview => r \in Evictors BY <1>4 DEF Evictors, Visit
<1>7. UNCHANGED <<disk, mtime, now, runs, met>> BY DEF Visit
<1> HIDE DEF v
<1> QED BY <1>2, <1>3, <1>5, <1>6, <1>7, RunnerSteps

LEMMA EndWalkKeeps == ASSUME TrimInv, NEW r \in Runners, EndWalk(r) PROVE TrimInv'
<1> DEFINE w == trim[r]
<1>1. /\ w \in RunsOfTask /\ w.reclaimed <= w.total /\ RunInv(w, disk, mtime, met)
      /\ runs \in [Runners -> 0..MaxRuns] /\ met \subseteq TrimFaults \cup {"overlap"}
  BY DEF TrimInv, TrimTypeOK
<1>2. w.at = "walk" /\ UNCHANGED <<disk, mtime, now, runs, met>> BY DEF EndWalk
<1>3. CASE trim' = [trim EXCEPT ![r] = Idle]
  <2>1. Idle \in RunsOfTask /\ Idle.reclaimed <= Idle.total /\ Idle.at = "idle"
    BY DEF Idle, RunsOfTask
  <2>2. RunInv(Idle, disk', mtime, met') BY IdleInv
  <2> QED BY <1>1, <1>2, <1>3, <2>1, <2>2, RunnerSteps
<1>4. ASSUME NEW s \in OldestFirstOf(w.seen),
             trim' = [trim EXCEPT ![r].at = "evict", ![r].owed = {}, ![r].seen = s]
      PROVE  TrimInv'
  <2> DEFINE v == [w EXCEPT !.at = "evict", !.owed = {}, !.seen = s]
  <2>1. trim' = [trim EXCEPT ![r] = v] BY <1>1, <1>4 DEF TrimInv, TrimTypeOK
  <2>2. v.at = "evict" /\ v.preview = w.preview BY <1>1 DEF RunsOfTask
  <2>3. v \in RunsOfTask /\ v.reclaimed <= v.total /\ RunInv(v, disk, mtime, met)
    <3> HIDE DEF v
    <3>1. v = [w EXCEPT !.at = "evict", !.owed = {}, !.seen = s] BY DEF v
    <3> HIDE DEF w
    <3> QED BY <1>1, <1>2, <3>1, Walked
  <2>4. v.at # "idle" /\ ~v.preview => r \in Evictors BY <1>2, <2>2 DEF Evictors
  <2> HIDE DEF v
  <2> QED BY <1>1, <1>2, <2>1, <2>3, <2>4, RunnerSteps
<1> QED BY <1>3, <1>4 DEF EndWalk

LEMMA EvictKeeps == ASSUME TrimInv, NEW r \in Runners, Evict(r) PROVE TrimInv'
<1> DEFINE w == trim[r]
           f == w.seen[w.next][1]
<1>1. /\ w \in RunsOfTask /\ RunInv(w, disk, mtime, met)
      /\ disk \in SUBSET Files /\ mtime \in [Files -> 0..MaxTime]
      /\ runs \in [Runners -> 0..MaxRuns] /\ met \subseteq TrimFaults \cup {"overlap"}
  BY DEF TrimInv, TrimTypeOK
<1>2. w.at = "evict" /\ HasNext(w) /\ UNCHANGED <<mtime, now, runs>> BY DEF Evict
<1>3. PICK ok \in BOOLEAN :
        /\ IF w.preview THEN ok
           ELSE IF f \in disk THEN ok \/ "stuck" \in TrimFaults ELSE ~ok
        /\ trim' = [trim EXCEPT ![r].next = @ + 1,
                                ![r].reclaimed = IF ok THEN @ + Size[f] ELSE @]
        /\ disk' = IF ok /\ ~w.preview THEN disk \ {f} ELSE disk
        /\ met' = IF f \in disk /\ ~ok THEN met \cup {"stuck"} ELSE met
  BY DEF Evict
<1> DEFINE v == [w EXCEPT !.next = @ + 1, !.reclaimed = IF ok THEN @ + Size[f] ELSE @]
<1>4. trim' = [trim EXCEPT ![r] = v] BY <1>1, <1>3 DEF TrimInv, TrimTypeOK
<1>5. v.at = "evict" /\ v.preview = w.preview BY <1>1, <1>2 DEF RunsOfTask
<1>6. ok => w.preview \/ f \in disk BY <1>3
<1>7. met \subseteq met' /\ met' \subseteq TrimFaults \cup {"overlap"}
  <2>1. w.preview \in BOOLEAN BY <1>1 DEF RunsOfTask
  <2> QED BY <1>1, <1>3, <2>1
<1>8. v \in RunsOfTask /\ v.reclaimed <= v.total /\ RunInv(v, disk', mtime, met')
  <2>1. v = Trying(w, ok) BY DEF Trying, NextFile
  <2>2. disk' = Leaves(w, ok, disk) BY <1>3 DEF Leaves, NextFile
  <2>3. met' = Tells(w, ok, disk, met) BY <1>3 DEF Tells, NextFile
  <2>4. ok => w.preview \/ NextFile(w) \in disk BY <1>6 DEF NextFile
  <2> HIDE DEF v, w
  <2> QED BY <1>1, <1>2, <2>1, <2>2, <2>3, <2>4, TriedNext
<1>9. v.at # "idle" /\ ~v.preview => r \in Evictors BY <1>2, <1>5 DEF Evictors
<1>10. disk' \subseteq disk /\ (disk' = disk \/ r \in Evictors)
  BY <1>2, <1>3 DEF Evictors
<1> HIDE DEF v
<1> QED BY <1>1, <1>2, <1>4, <1>7, <1>8, <1>9, <1>10, RunnerSteps

LEMMA EndTrimKeeps == ASSUME TrimInv, NEW r \in Runners, EndTrim(r) PROVE TrimInv'
<1>1. trim' = [trim EXCEPT ![r] = Idle] /\ UNCHANGED <<disk, mtime, now, runs, met>>
  BY DEF EndTrim
<1>2. Idle \in RunsOfTask /\ Idle.reclaimed <= Idle.total /\ Idle.at = "idle"
  BY DEF Idle, RunsOfTask
<1>3. RunInv(Idle, disk', mtime, met') BY IdleInv
<1>4. runs \in [Runners -> 0..MaxRuns] /\ met \subseteq TrimFaults \cup {"overlap"}
  BY DEF TrimInv, TrimTypeOK
<1> QED BY <1>1, <1>2, <1>3, <1>4, RunnerSteps

LEMMA WriteKeeps == ASSUME TrimInv, NEW f \in Files, Write(f) PROVE TrimInv'
<1> USE DEF Write
<1>1. /\ disk \subseteq Files /\ mtime \in [Files -> 0..MaxTime] /\ now \in 0..MaxTime
      /\ trim \in [Runners -> RunsOfTask] /\ met \in SUBSET (TrimFaults \cup {"overlap"})
      /\ \A g \in Files : mtime[g] <= now
  BY DEF TrimInv, TrimTypeOK
<1>2. now' = now + 1 /\ now' \in 0..MaxTime BY <1>1, DiskCacheGcConstants
<1>3. /\ mtime' \in [Files -> 0..MaxTime] /\ mtime'[f] = now + 1
      /\ \A g \in Files \ {f} : mtime'[g] = mtime[g]
  BY <1>1, <1>2
<1>4. \A g \in Files : mtime[g] \in Nat /\ mtime'[g] \in Nat /\ now \in Nat BY <1>1, <1>3
<1>5. \A g \in Files : mtime[g] <= mtime'[g] /\ mtime'[g] <= now'
  BY <1>1, <1>2, <1>3, <1>4
<1>6. \A g \in Files : g \in disk' /\ g \notin disk => mtime[g] < mtime'[g]
  BY <1>1, <1>3, <1>4
<1>7. TrimTypeOK'
  <2>1. disk' \subseteq Files BY <1>1
  <2>2. \A r \in Runners : trim'[r].reclaimed <= trim'[r].total BY DEF TrimInv, TrimTypeOK
  <2> QED BY <1>2, <1>3, <2>1, <2>2 DEF TrimInv, TrimTypeOK
<1>8. ASSUME NEW r \in Runners PROVE RunInv(trim[r], disk', mtime', met')
  <2>1. trim[r] \in RunsOfTask /\ RunInv(trim[r], disk, mtime, met) BY <1>1 DEF TrimInv
  <2>2. disk \subseteq disk' /\ met' = met OBVIOUS
  <2> HIDE DEF Write
  <2> QED BY <1>1, <1>3, <1>5, <1>6, <2>1, <2>2, Undisturbed
<1>9. ASSUME NEW r \in Runners PROVE RunInv(trim'[r], disk', mtime', met')
  BY <1>8
<1>10. (\A r \in Runners : RunInv(trim[r], disk, mtime, met))'
  BY <1>9 DEF RunInv, Shape, Dated, Counts, Distinct, Untried, Tried, Met, Idle
<1>11. Evictors' = Evictors BY DEF Evictors
<1> QED BY <1>5, <1>7, <1>10, <1>11 DEF TrimInv

LEMMA TrimStep == TrimInv /\ [TrimNext]_trimVars => TrimInv'
<1> SUFFICES ASSUME TrimInv, [TrimNext]_trimVars PROVE TrimInv'
  OBVIOUS
<1>1. CASE UNCHANGED trimVars
  <2>1. UNCHANGED <<disk, mtime, now, trim, runs, met>> BY <1>1 DEF trimVars
  <2>2. TrimTypeOK' BY <2>1 DEF TrimInv, TrimTypeOK
  <2>3. Evictors' = Evictors BY <2>1 DEF Evictors
  <2>4. \A r \in Runners : RunInv(trim'[r], disk', mtime', met') BY <2>1 DEF TrimInv
  <2>5. (\A r \in Runners : RunInv(trim[r], disk, mtime, met))'
    BY <2>4 DEF RunInv, Shape, Dated, Counts, Distinct, Untried, Tried, Met, Idle
  <2>6. (\A f \in Files : mtime[f] <= now)' BY <2>1 DEF TrimInv
  <2> QED BY <2>1, <2>2, <2>3, <2>5, <2>6 DEF TrimInv
<1>2. ASSUME NEW r \in Runners,
             StartTrim(r) \/ Visit(r) \/ EndWalk(r) \/ Evict(r) \/ EndTrim(r)
      PROVE  TrimInv'
  BY <1>2, StartTrimKeeps, VisitKeeps, EndWalkKeeps, EvictKeeps, EndTrimKeeps
<1>3. CASE AddEntry \/ UseEntry
  <2>1. \A f \in disk : f \in Files BY DEF TrimInv, TrimTypeOK
  <2> QED BY <1>3, <2>1, WriteKeeps DEF AddEntry, UseEntry
<1> QED BY <1>1, <1>2, <1>3 DEF TrimNext

LEMMA TrimInvariance == TrimSpec => []TrimInv
BY TrimStart, TrimStep, PTL DEF TrimSpec

\* For any cache, cap and callers: the types, and no run counts more reclaimed than
\* it counted there.
THEOREM TrimTypeCorrect == TrimSpec => []TrimTypeOK
<1>1. TrimInv => TrimTypeOK BY DEF TrimInv
<1> QED BY <1>1, TrimInvariance, PTL

(***************************************************************************)
(* What a step may do.                                                     *)
(***************************************************************************)
LEMMA DateSeenIs ==
  ASSUME NEW w \in RunsOfTask, Shape(w), NEW i \in DOMAIN w.seen
  PROVE  DateSeen(w, w.seen[i][1]) = w.seen[i][2]
<1> DEFINE f == w.seen[i][1]
           t == w.seen[i][2]
<1>1. w.seen[i] \in Entries BY TriedIsSeen
<1>2. w.seen[i] = <<f, t>> /\ t \in 0..MaxTime BY <1>1 DEF Entries
<1>3. <<f, t>> \in Range(w.seen) BY <1>2 DEF Range
<1>4. ASSUME NEW u, <<f, u>> \in Range(w.seen) PROVE u = t
  <2>1. PICK j \in DOMAIN w.seen : w.seen[j] = <<f, u>> BY <1>4 DEF Range
  <2>2. w.seen[j][1] = f /\ w.seen[j][2] = u BY <2>1
  <2>3. i = j BY <2>2 DEF Shape, Distinct
  <2> QED BY <2>2, <2>3
<1> HIDE DEF f, t
<1>5. (CHOOSE u \in 0..MaxTime : <<f, u>> \in Range(w.seen)) = t BY <1>2, <1>3, <1>4
<1> QED BY <1>5 DEF DateSeen, f, t

\* Only eviction takes entries away.
LEMMA OnlyEvictEvicts ==
  ASSUME TrimNext, NEW f \in Files, Evicted(f)
  PROVE  \E r \in Runners : Evict(r)
<1>1. f \in disk /\ f \notin disk' BY DEF Evicted
<1>2. ~AddEntry /\ ~UseEntry BY <1>1 DEF AddEntry, UseEntry, Write
<1>3. \A r \in Runners : ~StartTrim(r) /\ ~Visit(r) /\ ~EndWalk(r) /\ ~EndTrim(r)
  BY <1>1 DEF StartTrim, Visit, EndWalk, EndTrim
<1> QED BY <1>2, <1>3 DEF TrimNext

\* A step of Evict, as far as the theorems need it.
LEMMA EvictIs ==
  ASSUME TrimInv, NEW r \in Runners, Evict(r)
  PROVE  LET w == trim[r] IN
         /\ w \in RunsOfTask /\ RunInv(w, disk, mtime, met) /\ w.at = "evict"
         /\ w.next \in DOMAIN w.seen /\ Exceeds(w) /\ mtime' = mtime
         /\ trim'[r] \in RunsOfTask /\ RunInv(trim'[r], disk', mtime', met')
         /\ trim'[r].seen = w.seen /\ trim'[r].next = w.next + 1
         /\ \A f \in Files : Evicted(f) => f = w.seen[w.next][1] /\ ~w.preview
<1> DEFINE w == trim[r]
<1>1. w \in RunsOfTask /\ RunInv(w, disk, mtime, met) BY DEF TrimInv, TrimTypeOK
<1>2. w.at = "evict" /\ Exceeds(w) /\ HasNext(w) /\ mtime' = mtime BY DEF Evict
<1>3. w.next \in DOMAIN w.seen
  <2> HIDE DEF w
  <2>1. /\ w.seen \in Seq(Entries) /\ DOMAIN w.seen = 1..Len(w.seen)
        /\ w.next \in Nat \ {0} /\ w.next <= Len(w.seen)
    BY <1>1, <1>2, TriedIsSeen DEF RunInv, HasNext
  <2> QED BY <2>1
<1>4. PICK ok \in BOOLEAN :
        /\ trim' = [trim EXCEPT ![r].next = @ + 1,
                     ![r].reclaimed = IF ok THEN @ + Size[w.seen[w.next][1]] ELSE @]
        /\ disk' = IF ok /\ ~w.preview THEN disk \ {w.seen[w.next][1]} ELSE disk
  BY DEF Evict
<1>5. trim'[r].seen = w.seen /\ trim'[r].next = w.next + 1
  BY <1>1, <1>4 DEF TrimInv, TrimTypeOK, RunsOfTask
<1>6. \A f \in Files : Evicted(f) => f = w.seen[w.next][1] /\ ~w.preview
  BY <1>4 DEF Evicted
<1>7. TrimInv' BY EvictKeeps
<1>8. trim'[r] \in RunsOfTask BY <1>7 DEF TrimInv, TrimTypeOK
<1>9. RunInv(trim'[r], disk', mtime', met')
  <2>1. (\A q \in Runners : RunInv(trim[q], disk, mtime, met))' BY <1>7 DEF TrimInv
  <2> QED BY <2>1 DEF RunInv, Shape, Dated, Counts, Distinct, Untried, Tried, Met, Idle
<1> QED BY <1>1, <1>2, <1>3, <1>5, <1>6, <1>8, <1>9

LEMMA EvictsAboveCap ==
  ASSUME TrimInv, TrimNext, NEW f \in Files, Evicted(f), "overlap" \notin met
  PROVE  Bytes(disk) > Cap
<1>1. PICK r \in Runners : Evict(r) BY OnlyEvictEvicts
<1> DEFINE w == trim[r]
<1>2. /\ w \in RunsOfTask /\ RunInv(w, disk, mtime, met) /\ Exceeds(w)
      /\ ~w.preview
  BY <1>1, EvictIs
<1> HIDE DEF w
<1>3. PICK left \in SUBSET Files : Counts(w, left, disk, met) BY <1>2 DEF RunInv
<1>4. left \subseteq disk /\ w.total = w.reclaimed + Bytes(left)
  BY <1>2, <1>3 DEF Counts
<1>5. w.total - w.reclaimed > Cap BY <1>2 DEF Exceeds
<1>6. disk \in SUBSET Files BY DEF TrimInv, TrimTypeOK
<1>7. Bytes(left) <= Bytes(disk) BY <1>4, <1>6, BytesGrow
<1>8. Bytes(left) \in Nat /\ Bytes(disk) \in Nat BY <1>6, BytesAre
<1>9. w.total \in Nat /\ w.reclaimed \in Nat /\ Cap \in Nat
  BY <1>2, DiskCacheGcConstants DEF RunsOfTask
<1> QED BY <1>4, <1>5, <1>7, <1>8, <1>9

LEMMA EvictsNoNewer ==
  ASSUME TrimInv, NEW r \in Runners, NEW f \in Files, Evict(r), Evicted(f),
         NEW g \in disk' \cap Untried(trim'[r])
  PROVE  DateSeen(trim[r], f) <= mtime[g]
<1> DEFINE w == trim[r]
           v == trim'[r]
<1>1. /\ w \in RunsOfTask /\ RunInv(w, disk, mtime, met) /\ w.at = "evict"
      /\ w.next \in DOMAIN w.seen /\ f = w.seen[w.next][1]
      /\ v \in RunsOfTask /\ RunInv(v, disk', mtime', met')
      /\ v.seen = w.seen /\ v.next = w.next + 1
  BY EvictIs
<1>2. g \in Untried(v) OBVIOUS
<1>3. disk \subseteq Files /\ mtime \in [Files -> 0..MaxTime] BY DEF TrimInv, TrimTypeOK
<1> HIDE DEF w, v
<1>4. Shape(w) /\ Shape(v) BY <1>1 DEF RunInv
<1>5. PICK j \in DOMAIN w.seen : g = w.seen[j][1] BY <1>1, <1>2 DEF Untried, Met
<1>6. w.next < j
  <2>1. ~(j < v.next) BY <1>1, <1>2, <1>4, <1>5, TriedIsSeen DEF Untried
  <2>2. j \in Nat /\ w.next \in Nat
    <3>1. w.seen \in Seq(Entries) /\ w.next \in Nat BY <1>1, <1>4, TriedIsSeen
    <3> QED BY <3>1
  <2> QED BY <1>1, <2>1, <2>2
<1>7. w.seen[w.next][2] <= w.seen[j][2] BY <1>1, <1>4, <1>6 DEF Shape
<1>8. w.seen[j][2] <= mtime[g] BY <1>1, <1>5 DEF RunInv, Dated
<1>9. DateSeen(w, f) = w.seen[w.next][2] BY <1>1, <1>4, DateSeenIs
<1>10. w.seen[w.next] \in Entries /\ w.seen[j] \in Entries
  BY <1>1, <1>4, TriedIsSeen
<1>11. /\ w.seen[w.next][2] \in Nat /\ w.seen[j][2] \in Nat /\ mtime[g] \in Nat
  <2>1. w.seen[w.next][2] \in 0..MaxTime /\ w.seen[j][2] \in 0..MaxTime /\ g \in Files
    BY <1>5, <1>10 DEF Entries
  <2> QED BY <1>3, <2>1
<1>12. DateSeen(w, f) <= mtime[g] BY <1>7, <1>8, <1>9, <1>11
<1> QED BY <1>12 DEF w

LEMMA LeavesTheCap ==
  ASSUME TrimInv, NEW r \in Runners, EndTrim(r), ~trim[r].preview, "stuck" \notin met
  PROVE  Bytes(Left(trim[r])) <= Cap
<1> DEFINE w == trim[r]
<1>1. w \in RunsOfTask /\ RunInv(w, disk, mtime, met) BY DEF TrimInv, TrimTypeOK
<1>2. ~(HasNext(w) /\ Exceeds(w)) /\ ~w.preview BY DEF EndTrim
<1> HIDE DEF w
<1>3. Shape(w) BY <1>1 DEF RunInv
<1>4. PICK left \in SUBSET Files : Counts(w, left, disk, met) BY <1>1 DEF RunInv
<1>5. Left(w) \subseteq Untried(w)
  <2> SUFFICES ASSUME NEW f \in Left(w), f \in Tried(w) PROVE FALSE
    BY DEF Left, Untried
  <2>1. f \in disk /\ mtime[f] = DateSeen(w, f) BY DEF Left
  <2>2. PICK i \in 1..(w.next - 1) : f = w.seen[i][1] BY DEF Tried
  <2>3. i \in DOMAIN w.seen BY <1>1, <1>3, TriedIsSeen
  <2>4. w.seen[i][2] < mtime[f] BY <1>1, <1>2, <2>1, <2>2 DEF RunInv, Dated
  <2>5. DateSeen(w, f) = w.seen[i][2] BY <1>1, <1>3, <2>2, <2>3, DateSeenIs
  <2>6. w.seen[i] \in Entries BY <1>1, <1>3, <2>3, TriedIsSeen
  <2>7. w.seen[i][2] \in Nat BY <2>6 DEF Entries
  <2> QED BY <2>1, <2>4, <2>5, <2>7
<1>6. Cap \in Nat BY DiskCacheGcConstants
<1>7. CASE HasNext(w)
  <2>1. ~(w.total - w.reclaimed > Cap) BY <1>2, <1>7 DEF Exceeds
  <2>2. w.total = w.reclaimed + Bytes(left) /\ Left(w) \subseteq left
    BY <1>4, <1>5 DEF Counts
  <2>3. Bytes(Left(w)) <= Bytes(left) BY <2>2, BytesGrow
  <2>4. Left(w) \in SUBSET Files BY <2>2
  <2>5. Bytes(left) \in Nat /\ Bytes(Left(w)) \in Nat BY <2>4, BytesAre
  <2>6. w.total \in Nat /\ w.reclaimed \in Nat BY <1>1 DEF RunsOfTask
  <2> QED BY <1>6, <2>1, <2>2, <2>3, <2>5, <2>6 DEF w
<1>8. CASE ~HasNext(w)
  <2>1. ASSUME NEW i \in DOMAIN w.seen PROVE i < w.next
    <3>1. w.seen \in Seq(Entries) /\ w.next \in Nat BY <1>1, <1>3, TriedIsSeen
    <3>2. i \in 1..Len(w.seen) /\ Len(w.seen) \in Nat BY <3>1
    <3> QED BY <1>8, <3>1, <3>2 DEF HasNext
  <2>2. \A i \in DOMAIN w.seen : w.seen[i][1] \in Tried(w)
    BY <1>1, <1>3, <2>1, TriedIsSeen
  <2>3. Untried(w) = {} BY <2>2 DEF Untried, Met
  <2>4. Left(w) = {} BY <1>5, <2>3
  <2> QED BY <1>6, <2>4, BytesNone DEF w
<1> QED BY <1>7, <1>8

\* For any cache, cap and callers, whatever Bazel adds and uses: as long as runs that
\* evict do not overlap, none evicts a file from a cache that fits its cap.
THEOREM NeverOverEvicts == TrimSpec => NoOverEviction
<1>1. TrimInv /\ [TrimNext]_trimVars =>
        [\A f \in Files : Evicted(f) /\ "overlap" \notin met => Bytes(disk) > Cap]_trimVars
  BY EvictsAboveCap
<1> QED BY <1>1, TrimInvariance, PTL DEF TrimSpec, NoOverEviction

\* For any cache and callers, overlapping runs and files that refuse included: a run
\* evicts by age.
THEOREM EvictsOldest == TrimSpec => OldestFirst
<1> DEFINE A == \A r \in Runners, f \in Files :
                  Evict(r) /\ Evicted(f) =>
                    \A g \in disk' \cap Untried(trim'[r]) :
                      DateSeen(trim[r], f) <= mtime[g]
<1>1. TrimInv /\ [TrimNext]_trimVars => [A]_trimVars BY EvictsNoNewer
<1>2. [][A]_trimVars => OldestFirst BY DEF OldestFirst
<1> HIDE DEF A
<1> QED BY <1>1, <1>2, TrimInvariance, PTL DEF TrimSpec

\* For any cache, cap and callers, whoever else evicts, adds and uses entries: what
\* is left of what a run met fits the cap, unless a file refused to be removed.
THEOREM TrimmedToCap == TrimSpec => TrimsToCap
<1> DEFINE A == \A r \in Runners :
                  EndTrim(r) /\ ~trim[r].preview /\ "stuck" \notin met =>
                    Bytes(Left(trim[r])) <= Cap
<1>1. TrimInv /\ [TrimNext]_trimVars => [A]_trimVars BY LeavesTheCap
<1>2. [][A]_trimVars => TrimsToCap BY DEF TrimsToCap
<1> HIDE DEF A
<1> QED BY <1>1, <1>2, TrimInvariance, PTL DEF TrimSpec
============================================================================
