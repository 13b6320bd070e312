----------------------------- MODULE DiskCacheGc -----------------------------
(***************************************************************************)
(* The disk-cache-gc maintenance task: it walks Bazel's --disk_cache, and  *)
(* if what it saw exceeds the cap it deletes the files it saw, oldest      *)
(* first, until by its own count the rest fits.                            *)
(*                                                                         *)
(* The daemon's scheduler, the MaintainNow and RunTask RPCs and every fvd  *)
(* that is alive can run it at once; nothing locks the cache, and Bazel    *)
(* adds to it and touches what it uses all the while.                      *)
(***************************************************************************)
EXTENDS Naturals, FiniteSets, SequencesExt

CONSTANTS
  Runners,     \* the callers of the task
  Files,       \* the cache entries there may ever be
  Size,        \* their sizes
  Cap,         \* disk_cache_max_gib; 0 disables the task
  Bazel,       \* what Bazel does meanwhile: "add" entries, "touch" them
  TrimFaults,  \* "stuck": a file may refuse to be removed
  MaxRuns,     \* bound on the runs of each runner
  MaxTime      \* bound on the clock that dates the files

ASSUME DiskCacheGcConstants ==
  /\ IsFiniteSet(Files) /\ Cardinality(Files) <= MaxTime
  /\ Size \in [Files -> Nat \ {0}] /\ Cap \in Nat
  /\ Bazel \subseteq {"add", "touch"} /\ TrimFaults \subseteq {"stuck"}
  /\ MaxRuns \in Nat \ {0} /\ MaxTime \in Nat

VARIABLES
  disk,      \* the entries in the cache
  mtime,     \* when each was last written or used
  now,
  trim,      \* each runner's step, and the variables of its run
  runs,      \* how often each has run
  met        \* history: "stuck" once a file refused to be removed, "overlap" once
             \* a run that evicts started beside another

trimVars == <<disk, mtime, now, trim, runs, met>>

\* The bytes of a set of entries, numbered entry by entry.
Bytes(S) == Cardinality(UNION {{f} \X (1..Size[f]) : f \in S})

\* seen: the files the walk has met and their dates; owed: those it has to meet;
\* next: the first of the sorted files not tried yet.
Idle == [at |-> "idle", preview |-> FALSE, owed |-> {}, seen |-> << >>, next |-> 1,
         total |-> 0, reclaimed |-> 0]

RunsOfTask ==
  [at : {"idle", "walk", "evict"}, preview : BOOLEAN, owed : SUBSET Files,
   seen : Seq(Files \X (0..MaxTime)), next : Nat, total : Nat, reclaimed : Nat]

TrimTypeOK ==
  /\ disk \subseteq Files /\ mtime \in [Files -> 0..MaxTime] /\ now \in 0..MaxTime
  /\ trim \in [Runners -> RunsOfTask] /\ runs \in [Runners -> 0..MaxRuns]
  /\ met \subseteq TrimFaults \cup {"overlap"}
  /\ \A r \in Runners : trim[r].reclaimed <= trim[r].total

TrimInit ==
  /\ disk \in SUBSET Files
  /\ now = Cardinality(disk)
  /\ mtime \in {m \in [Files -> 0..now] : \A f \in Files : m[f] = 0 <=> f \notin disk}
  /\ trim = [r \in Runners |-> Idle] /\ runs = [r \in Runners |-> 0]
  /\ met = {}
----------------------------------------------------------------------------
(***************************************************************************)
(* One run of the task.                                                    *)
(***************************************************************************)
Evictors == {q \in Runners : trim[q].at # "idle" /\ ~trim[q].preview}

StartTrim(r) ==
  /\ trim[r].at = "idle" /\ runs[r] < MaxRuns /\ Cap # 0
  /\ \E preview \in BOOLEAN :
       /\ trim' = [trim EXCEPT ![r] = [Idle EXCEPT !.at = "walk", !.preview = preview,
                                                   !.owed = disk]]
       /\ met' = IF ~preview /\ Evictors # {} THEN met \cup {"overlap"} ELSE met
  /\ runs' = [runs EXCEPT ![r] = @ + 1]
  /\ UNCHANGED <<disk, mtime, now>>

Met(w) == {w.seen[i][1] : i \in DOMAIN w.seen}

\* The walk meets every file that stays, and may meet those added behind it.
Visit(r) ==
  /\ trim[r].at = "walk"
  /\ \E f \in disk \ Met(trim[r]) :
       trim' = [trim EXCEPT ![r].seen = Append(@, <<f, mtime[f]>>),
                          ![r].total = @ + Size[f]]
  /\ UNCHANGED <<disk, mtime, now, runs, met>>

\* Mutant of OldestFirstOf: the comparison is turned around.
NewestFirstOf(seen) ==
  {s \in SetToSeqs(Range(seen)) : \A i, j \in DOMAIN s : i < j => s[i][2] >= s[j][2]}

\* Of the same date, in the order of the walk, which is any order.
OldestFirstOf(seen) ==
  {s \in SetToSeqs(Range(seen)) : \A i, j \in DOMAIN s : i < j => s[i][2] <= s[j][2]}

EndWalk(r) ==
  /\ trim[r].at = "walk" /\ trim[r].owed \cap disk \subseteq Met(trim[r])
  /\ IF trim[r].total <= Cap THEN trim' = [trim EXCEPT ![r] = Idle]
     ELSE \E sorted \in OldestFirstOf(trim[r].seen) :
            trim' = [trim EXCEPT ![r].at = "evict", ![r].owed = {}, ![r].seen = sorted]
  /\ UNCHANGED <<disk, mtime, now, runs, met>>

\* Mutants of Exceeds: eviction goes on at the cap, and it stops one short of it.
ExceedsOrMeets(w) == w.total - w.reclaimed >= Cap
ExceedsByMore(w) == w.total - w.reclaimed > Cap + 1

\* By the run's own count, the cache still exceeds the cap.
Exceeds(w) == w.total - w.reclaimed > Cap
HasNext(w) == w.next <= Len(w.seen)

\* Mutant of Evict: what is removed is counted as reclaimed and taken off the
\* total as well.
EvictCountedTwice(r) ==
  LET w == trim[r]
      f == w.seen[w.next][1]
  IN /\ w.at = "evict" /\ HasNext(w) /\ Exceeds(w)
     /\ trim' = [trim EXCEPT ![r].next = @ + 1,
                           ![r].reclaimed = IF f \in disk THEN @ + Size[f] ELSE @,
                           ![r].total = IF f \in disk THEN @ - Size[f] ELSE @]
     /\ disk' = IF w.preview THEN disk ELSE disk \ {f}
     /\ UNCHANGED <<mtime, now, runs, met>>

\* A file that is gone, or that refuses, is passed over and not counted.
Evict(r) ==
  LET w == trim[r]
      f == w.seen[w.next][1]
  IN /\ w.at = "evict" /\ HasNext(w) /\ Exceeds(w)
     /\ \E ok \in BOOLEAN :
          /\ IF w.preview THEN ok
             ELSE IF f \in disk THEN ok \/ "stuck" \in TrimFaults ELSE ~ok
          /\ trim' = [trim EXCEPT ![r].next = @ + 1,
                                ![r].reclaimed = IF ok THEN @ + Size[f] ELSE @]
          /\ disk' = IF ok /\ ~w.preview THEN disk \ {f} ELSE disk
          /\ met' = IF f \in disk /\ ~ok THEN met \cup {"stuck"} ELSE met
     /\ UNCHANGED <<mtime, now, runs>>

EndTrim(r) ==
  /\ trim[r].at = "evict" /\ ~(HasNext(trim[r]) /\ Exceeds(trim[r]))
  /\ trim' = [trim EXCEPT ![r] = Idle]
  /\ UNCHANGED <<disk, mtime, now, runs, met>>
----------------------------------------------------------------------------
(***************************************************************************)
(* Bazel.                                                                  *)
(***************************************************************************)
Write(f) ==
  /\ now < MaxTime /\ now' = now + 1
  /\ mtime' = [mtime EXCEPT ![f] = now + 1]
  /\ disk' = disk \cup {f}
  /\ UNCHANGED <<trim, runs, met>>

\* An entry's name is its digest: one that was evicted may be built again.
AddEntry == "add" \in Bazel /\ \E f \in Files \ disk : Write(f)
UseEntry == "touch" \in Bazel /\ \E f \in disk : Write(f)

TrimNext ==
  \/ \E r \in Runners : StartTrim(r) \/ Visit(r) \/ EndWalk(r) \/ Evict(r) \/ EndTrim(r)
  \/ AddEntry \/ UseEntry

TrimSpec == TrimInit /\ [][TrimNext]_trimVars
----------------------------------------------------------------------------
(***************************************************************************)
(* Properties.                                                             *)
(***************************************************************************)
Evicted(f) == f \in disk /\ f \notin disk'

\* The files a run has tried to remove, and those it has not.
Tried(w)   == {w.seen[i][1] : i \in 1..(w.next - 1)}
Untried(w) == Met(w) \ Tried(w)
DateSeen(w, f) == CHOOSE t \in 0..MaxTime : <<f, t>> \in Range(w.seen)

\* The files a run met and that stay: those Bazel built again once the run had
\* evicted them are new.
Left(w) == {f \in disk \cap Met(w) : f \in Tried(w) => mtime[f] = DateSeen(w, f)}

\* A run is a no-op once the cache fits: no file is evicted from a cache that is
\* at or under its cap. (Two runs at once break this: each counts on removing what
\* the other has removed, and goes on to files that fit.)
NoOverEviction ==
  [][\A f \in Files : Evicted(f) /\ "overlap" \notin met => Bytes(disk) > Cap]_trimVars

\* Eviction goes by age: what a run evicts was, when the walk met it, no newer than
\* any file is that the run met and has not tried. (It may have been used since.)
OldestFirst ==
  [][\A r \in Runners, f \in Files :
       Evict(r) /\ Evicted(f) =>
         \A g \in disk' \cap Untried(trim'[r]) :
           DateSeen(trim[r], f) <= mtime[g]]_trimVars

\* A run that trims leaves no more than the cap of the files it met, whoever else
\* evicts, uses or adds to them meanwhile, unless a file refused to be removed.
TrimsToCap ==
  [][\A r \in Runners :
       EndTrim(r) /\ ~trim[r].preview /\ "stuck" \notin met =>
         Bytes(Left(trim[r])) <= Cap]_trimVars
============================================================================
