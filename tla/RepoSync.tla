------------------------------ MODULE RepoSync ------------------------------
(***************************************************************************)
(* sync_sources: for each configured source, list the group's repositories *)
(* on its forge, clone the missing ones into the repos directory and, when *)
(* asked to, fast-forward the checkouts that are there. The scheduler runs *)
(* it, RPCs and the CLI run it too, and the user works in the checkouts    *)
(* all the while.                                                          *)
(*                                                                         *)
(* A repository's directory is its name, whatever group or forge it is     *)
(* from; git's own guards (no pull on a detached head, none that would     *)
(* overwrite changes, no clone into a directory that is not empty) are     *)
(* external and modelled from how sync_one relies on them.                 *)
(***************************************************************************)
EXTENDS Naturals, Sequences, FiniteSets, SequencesExt, Functions

CONSTANTS
  Syncs,       \* the callers
  Scheduler,   \* the one that is fvd's scheduler
  Sources,     \* the configured sources, a sequence of groups
  Repos,       \* [group -> sequence of repositories], what the forge holds
  Limit,       \* [group -> number], how many of them a listing yields at most: `gh`
               \* is asked for 500, GitLab for every page
  Dir,         \* [repository -> directory], its name
  MetaRepo,    \* the repository that is never checked out here, by directory name
  MaxRevs,     \* bound on the revisions pushed
  Modes,       \* what the other callers ask for: [pull, preview]
  MaxSyncs,    \* bound on the runs of each other caller
  MaxCrashes,  \* bound on the crashes
  User,        \* what the user does meanwhile: "edit", "detach", "other" (a
               \* directory of their own that is not a git repository)
  Edited,      \* the directories the user works in, and whose repositories change
  Broken,      \* the groups whose listing may fail
  Faults,      \* "git": a git command fails; "crash": the machine stops
  None

Groups == DOMAIN Repos
AllRepos == UNION {Range(Repos[g]) : g \in Groups}
Dirs == {Dir[x] : x \in AllRepos} \ {MetaRepo}

ASSUME RepoSyncConstants ==
  /\ Broken \subseteq Groups /\ Edited \subseteq Dirs
  /\ Sources \in Seq(Groups) /\ DOMAIN Dir = AllRepos
  /\ \A g \in Groups : Repos[g] \in Seq(AllRepos)
  /\ Limit \in [Groups -> Nat]
  /\ Modes \subseteq [pull : BOOLEAN, preview : BOOLEAN]
  /\ Scheduler \in Syncs /\ {MaxRevs, MaxSyncs, MaxCrashes} \subseteq Nat
  /\ User \subseteq {"edit", "detach", "other"} /\ Faults \subseteq {"git", "crash"}
  /\ None \notin AllRepos

VARIABLES
  upstream,  \* each repository's revision on its forge
  disk,      \* each directory: its kind, and as a checkout of what at which revision
  sync,      \* each caller's run
  runs,        \* how often each other caller has run
  crashes      \* how often the machine has stopped

vars == <<upstream, disk, sync, runs, crashes>>

Absent == [kind |-> "absent", of |-> None, rev |-> 0, detached |-> FALSE, dirty |-> FALSE]
Alien  == [Absent EXCEPT !.kind = "alien"]
Partial(x) == [Absent EXCEPT !.kind = "partial", !.of = x]
Hollow(x) == [kind |-> "hollow", of |-> x, rev |-> upstream[x], detached |-> FALSE, dirty |-> TRUE]
Cloned(x) == [kind |-> "git", of |-> x, rev |-> upstream[x], detached |-> FALSE, dirty |-> FALSE]

Actions == {"cloned", "updated", "up-to-date", "failed",
            "skipped-present", "skipped-detached", "skipped-dirty"}

\* source: which source is synced; specs: its repositories still to do; step: how
\* far the first of them is.
Idle == [step |-> "idle", source |-> 0, specs |-> << >>, pull |-> FALSE,
         preview |-> FALSE, outcomes |-> << >>]

Runs ==
  [step : {"idle", "list", "repo", "clone", "cloning", "pull"}, source : 0..Len(Sources) + 1,
   specs : Seq(AllRepos), pull : BOOLEAN, preview : BOOLEAN,
   outcomes : Seq(AllRepos \X Actions)]

Places == [kind : {"absent", "alien", "partial", "hollow", "git"}, of : AllRepos \cup {None},
           rev : Nat, detached : BOOLEAN, dirty : BOOLEAN]

TypeOK ==
  /\ upstream \in [AllRepos -> Nat] /\ disk \in [Dirs -> Places]
  /\ \A d \in Dirs : disk[d].kind \in {"partial", "hollow", "git"} <=> disk[d].of # None
  /\ sync \in [Syncs -> Runs] /\ runs \in [Syncs -> 0..MaxSyncs]
  /\ crashes \in 0..MaxCrashes

Init ==
  /\ upstream = [x \in AllRepos |-> 0]
  /\ disk \in [Dirs -> {Absent, Alien}]
  /\ \A d \in Dirs : disk[d] = Alien => d \in Edited /\ "other" \in User
  /\ sync = [s \in Syncs |-> Idle]
  /\ runs = [s \in Syncs |-> 0]
  /\ crashes = 0
----------------------------------------------------------------------------
(***************************************************************************)
(* sync_sources and sync.                                                  *)
(***************************************************************************)
\* The scheduler fast-forwards, and never as a preview.
Asks(s) == IF s = Scheduler THEN {[pull |-> TRUE, preview |-> FALSE]} ELSE Modes

Start(s) ==
  /\ sync[s].step = "idle" /\ (s = Scheduler \/ runs[s] < MaxSyncs)
  /\ \E m \in Asks(s) : sync' = [sync EXCEPT ![s] =
       [Idle EXCEPT !.step = "list", !.source = 1, !.pull = m.pull, !.preview = m.preview]]
  /\ runs' = IF s = Scheduler THEN runs ELSE [runs EXCEPT ![s] = @ + 1]
  /\ UNCHANGED <<upstream, disk, crashes>>

\* `enumerate`: of a group with more repositories than the limit the rest is cut
\* off, whichever the forge puts last, and nothing says so.
Whole(g) == Len(Repos[g]) <= Limit[g]
Listings(g) ==
  IF Whole(g) THEN {Repos[g]} ELSE {l \in [1..Limit[g] -> Range(Repos[g])] : IsInjective(l)}

List(s) ==
  /\ sync[s].step = "list" /\ sync[s].source <= Len(Sources)
  /\ \E l \in Listings(Sources[sync[s].source]) :
       sync' = [sync EXCEPT ![s].step = "repo", ![s].specs = l]
  /\ UNCHANGED <<upstream, disk, runs, crashes>>

\* Mutant of ListFails: the run goes on with the next source.
ListFailsOn(s) ==
  /\ sync[s].step = "list" /\ sync[s].source <= Len(Sources)
  /\ Sources[sync[s].source] \in Broken
  /\ sync' = [sync EXCEPT ![s].source = @ + 1]
  /\ UNCHANGED <<upstream, disk, runs, crashes>>

\* The first source that cannot be listed ends the run, and its reports are lost.
ListFails(s) ==
  /\ sync[s].step = "list" /\ sync[s].source <= Len(Sources)
  /\ Sources[sync[s].source] \in Broken
  /\ sync' = [sync EXCEPT ![s] = Idle]
  /\ UNCHANGED <<upstream, disk, runs, crashes>>

NextSource(s) ==
  /\ sync[s].step = "repo" /\ sync[s].specs = << >>
  /\ sync' = [sync EXCEPT ![s].step = "list", ![s].source = @ + 1]
  /\ UNCHANGED <<upstream, disk, runs, crashes>>

Finish(s) ==
  /\ sync[s].step = "list" /\ sync[s].source > Len(Sources)
  /\ sync' = [sync EXCEPT ![s] = Idle]
  /\ UNCHANGED <<upstream, disk, runs, crashes>>
----------------------------------------------------------------------------
(***************************************************************************)
(* sync_one: the checks, the outcome they settle, or the clone or pull.    *)
(***************************************************************************)
Spec1(s) == Head(sync[s].specs)
At(s) == disk[Dir[Spec1(s)]]

Report(s, action) ==
  sync' = [sync EXCEPT ![s].step = "repo", ![s].specs = Tail(@),
                       ![s].outcomes = Append(@, <<Spec1(s), action>>)]

AtRepo(s) == sync[s].step = "repo" /\ sync[s].specs # << >>

\* Mutant of PassMetaRepo: a `break` instead of the `continue`.
PassMetaRepoStops(s) ==
  /\ AtRepo(s) /\ Dir[Spec1(s)] = MetaRepo
  /\ sync' = [sync EXCEPT ![s].specs = << >>]
  /\ UNCHANGED <<upstream, disk, runs, crashes>>

PassMetaRepo(s) ==
  /\ AtRepo(s) /\ Dir[Spec1(s)] = MetaRepo
  /\ sync' = [sync EXCEPT ![s].specs = Tail(@)]
  /\ UNCHANGED <<upstream, disk, runs, crashes>>

IsGit(d) == disk[d].kind \in {"partial", "hollow", "git"}

\* The branch and the status of a checkout that is being cloned, or that a crash
\* left half cloned, can look like anything.
Detached(d) == IF disk[d].kind = "partial" THEN BOOLEAN ELSE {disk[d].detached}
Dirty(d)    == IF disk[d].kind = "partial" THEN BOOLEAN ELSE {disk[d].dirty}

\* What sync_one does with the directory as it finds it: "clone", "pull", or the
\* outcome it reports.
Verdicts(s) ==
  LET d == Dir[Spec1(s)]
      w == sync[s]
  IN IF disk[d] = Absent THEN {IF w.preview THEN "cloned" ELSE "clone"}
     ELSE IF ~IsGit(d) \/ ~w.pull THEN {"skipped-present"}
     ELSE {"skipped-detached" : x \in Detached(d) \cap {TRUE}}
          \cup {"skipped-dirty" : x \in (Detached(d) \X Dirty(d)) \cap {<<FALSE, TRUE>>}}
          \cup {IF w.preview THEN "updated" ELSE "pull" :
                 x \in (Detached(d) \X Dirty(d)) \cap {<<FALSE, FALSE>>}}

Check(s) ==
  /\ AtRepo(s) /\ Dir[Spec1(s)] # MetaRepo
  /\ \E v \in Verdicts(s) :
       IF v \in {"clone", "pull"} THEN sync' = [sync EXCEPT ![s].step = v] ELSE Report(s, v)
  /\ UNCHANGED <<upstream, disk, runs, crashes>>

\* `git clone` refuses a directory that has appeared since.
Clone(s) ==
  /\ sync[s].step = "clone"
  /\ IF At(s) = Absent
     THEN /\ disk' = [disk EXCEPT ![Dir[Spec1(s)]] = Partial(Spec1(s))]
          /\ sync' = [sync EXCEPT ![s].step = "cloning"]
     ELSE Report(s, "failed") /\ UNCHANGED disk
  /\ UNCHANGED <<upstream, runs, crashes>>

CloneSucceeds(s) ==
  /\ sync[s].step = "cloning"
  /\ disk' = [disk EXCEPT ![Dir[Spec1(s)]] = Cloned(Spec1(s))]
  /\ Report(s, "cloned")
  /\ UNCHANGED <<upstream, runs, crashes>>

\* Mutant of CloneFails: the exit status of `git clone` is not looked at.
CloneFailsUnseen(s) ==
  /\ sync[s].step = "cloning" /\ "git" \in Faults
  /\ disk' \in {[disk EXCEPT ![Dir[Spec1(s)]] = c] : c \in {Absent, Hollow(Spec1(s))}}
  /\ Report(s, "cloned")
  /\ UNCHANGED <<upstream, runs, crashes>>

\* A clone that fails leaves nothing behind, unless it is its checkout that fails
\* (the blobs are fetched only then): git keeps the repository, on its branch,
\* with every file missing.
CloneFails(s) ==
  /\ sync[s].step = "cloning" /\ "git" \in Faults
  /\ disk' \in {[disk EXCEPT ![Dir[Spec1(s)]] = c] : c \in {Absent, Hollow(Spec1(s))}}
  /\ Report(s, "failed")
  /\ UNCHANGED <<upstream, runs, crashes>>

\* A run that saw the clone of another before its checkout failed may pull there,
\* and git finds nothing wrong with it.
Pull(s) ==
  /\ sync[s].step = "pull"
  /\ LET d == Dir[Spec1(s)]
         head == IF IsGit(d) THEN upstream[disk[d].of] ELSE 0
     IN \/ /\ disk[d].kind \in {"hollow", "git"} /\ ~disk[d].detached
           /\ disk' = [disk EXCEPT ![d].rev = head]
           /\ Report(s, IF head # disk[d].rev THEN "updated" ELSE "up-to-date")
        \/ /\ disk[d].kind \notin {"hollow", "git"} \/ disk[d].detached \/ disk[d].dirty \/ "git" \in Faults
           /\ Report(s, "failed") /\ UNCHANGED disk
  /\ UNCHANGED <<upstream, runs, crashes>>
----------------------------------------------------------------------------
(***************************************************************************)
(* The forge and the user.                                                 *)
(***************************************************************************)
Push(x) ==
  /\ SumFunction(upstream) < MaxRevs /\ Dir[x] \in Edited
  /\ upstream' = [upstream EXCEPT ![x] = @ + 1]
  /\ UNCHANGED <<disk, sync, runs, crashes>>

\* The user begins or commits an edit, detaches the head or returns to a branch.
Work(d) ==
  /\ disk[d].kind = "git"
  /\ \/ "edit" \in User /\ disk' = [disk EXCEPT ![d].dirty = ~@]
     \/ "detach" \in User /\ disk' = [disk EXCEPT ![d].detached = ~@]
  /\ UNCHANGED <<upstream, sync, runs, crashes>>

\* Every caller dies with the machine; what it was cloning stays half cloned.
Crash ==
  /\ "crash" \in Faults /\ crashes < MaxCrashes /\ crashes' = crashes + 1
  /\ \E s \in Syncs : sync[s].step # "idle"
  /\ sync' = [s \in Syncs |-> Idle]
  /\ UNCHANGED <<upstream, disk, runs>>

SyncStep(s) ==
  List(s) \/ ListFails(s) \/ NextSource(s) \/ Finish(s) \/ PassMetaRepo(s) \/ Check(s)
  \/ Clone(s) \/ CloneSucceeds(s) \/ CloneFails(s) \/ Pull(s)

Next ==
  \/ \E s \in Syncs : Start(s) \/ SyncStep(s)
  \/ \E x \in AllRepos : Push(x)
  \/ \E d \in Edited : Work(d)
  \/ Crash

\* The scheduler goes on, and so does each run; not each of its clones fails.
Spec ==
  /\ Init /\ [][Next]_vars
  /\ WF_vars(Start(Scheduler))
  /\ \A s \in Syncs : WF_vars(SyncStep(s))
  /\ SF_vars(CloneSucceeds(Scheduler))
----------------------------------------------------------------------------
(***************************************************************************)
(* Properties.                                                             *)
(***************************************************************************)
Reported(w, x) == {w.outcomes[i][2] : i \in {j \in DOMAIN w.outcomes : w.outcomes[j][1] = x}}

\* An outcome is about the repository it names: one that a real run reports as
\* cloned is checked out in its directory when the run ends, one that it reports as
\* updated or up to date has its repository there (a checkout that failed under
\* another run passes for up to date), whoever else syncs, whatever the user does,
\* and even after a crash left half a clone. (Two repositories of one name share
\* their directory: there the outcome can be about the other.)
OutcomesAreTrue ==
  [][\A s \in Syncs : (Finish(s) \/ ListFails(s)) /\ ~sync[s].preview =>
       \A x \in AllRepos :
         /\ Reported(sync[s], x) \cap {"cloned", "updated", "up-to-date"} # {}
         /\ \A y \in AllRepos \ {x} : Dir[y] # Dir[x]
         => /\ disk[Dir[x]].kind \in {"git", "hollow"} /\ disk[Dir[x]].of = x
            /\ "cloned" \in Reported(sync[s], x) => disk[Dir[x]].kind = "git"]_vars

\* A run that ends well accounts for every repository of every source but the meta
\* repository: that a source could not be listed never passes for a source without
\* repositories. Of a source with more of them than the limit it does for some
\* listing, as many as the limit, although `enumerate` is to "enumerate every repo".
OkMeansAll ==
  [][\A s \in Syncs : Finish(s) =>
       \A i \in DOMAIN Sources : \E l \in Listings(Sources[i]) :
         \A x \in Range(l) : Dir[x] = MetaRepo \/ Reported(sync[s], x) # {}]_vars

\* A missing repository is checked out in the end, if the scheduler's syncs come to
\* it: one source that cannot be listed keeps them from every source after it, a
\* source beyond the limit from some of its own; and a clone that was cut short by
\* the machine's failure, or whose checkout failed, is taken for a checkout for good.
Reached(x) ==
  \E i \in DOMAIN Sources :
    /\ x \in Range(Repos[Sources[i]]) /\ Whole(Sources[i])
    /\ \A j \in 1..i : Sources[j] \notin Broken
MissingIsCloned ==
  \A x \in {y \in AllRepos : Reached(y) /\ Dir[y] # MetaRepo} :
    disk[Dir[x]] = Absent ~>
      \/ disk[Dir[x]].kind \in {"git", "hollow"}
      \/ disk[Dir[x]].kind = "partial" /\ crashes > 0
============================================================================
