----------------------------- MODULE Worktrees -----------------------------
(***************************************************************************)
(* The git worktrees of the managed repos, and the maintenance runs over   *)
(* them. Each workspace of module OutputBaseGc is a worktree here: `fv     *)
(* worktree` adds and removes it, its user may delete its directory by     *)
(* hand, Bazel gives it an output base. A run is a sequence of tasks, of   *)
(* which output-base-gc is that module's and worktree-prune this one's.    *)
(*                                                                         *)
(* git keeps an entry per worktree in the repo, and the repos are on the   *)
(* volume the worktrees are on: both are directories of the meta repo.     *)
(***************************************************************************)
EXTENDS OutputBaseGc, Sequences

CONSTANT Calls   \* the maintenance calls made: [only, dry]

ASSUME WorktreesConstants == Calls \subseteq [only: SUBSET STRING, dry: BOOLEAN]

\* Mutant of Registry: the last task was not registered.
RegistryShort == <<"disk-cache-gc", "output-base-gc", "git-gc">>

\* `registry`, whose tasks are all on by default.
Registry == <<"disk-cache-gc", "output-base-gc", "git-gc", "worktree-prune">>

VARIABLES
  registered,  \* whether git has an entry for the worktree
  branch,      \* its branch: "absent", "fresh" (as HEAD was) or "ahead" (with commits)
  todo, dry    \* the places in Registry of the run's tasks that have not begun, and
               \* its validate_only

wvars == <<vars, registered, branch, todo, dry>>
git   == <<registered, branch>>
run   == <<todo, dry>>

WorktreesOK ==
  /\ TypeOK
  /\ registered \in [Workspaces -> BOOLEAN]
  /\ branch \in [Workspaces -> {"absent", "fresh", "ahead"}]
  /\ todo \subseteq DOMAIN Registry /\ dry \in BOOLEAN

WInit ==
  /\ Init
  /\ registered = [w \in Workspaces |-> source[w] = "kept"]
  /\ branch = [w \in Workspaces |-> IF source[w] = "kept" THEN "fresh" ELSE "absent"]
  /\ todo = {} /\ dry = FALSE
----------------------------------------------------------------------------
(***************************************************************************)
(* A maintenance run, of the scheduler or of a call.                       *)
(***************************************************************************)

\* `run` and `run_one`: the tasks named, or all of them, in the registry's order.
BeginRun(call) ==
  /\ todo = {} /\ step = "idle"
  /\ todo' = {i \in DOMAIN Registry : call.only = {} \/ Registry[i] \in call.only}
  /\ dry' = call.dry
  /\ UNCHANGED <<vars, git>>

Begins(id) ==
  /\ step = "idle"
  /\ \E i \in todo : Registry[i] = id /\ (\A k \in todo : i <= k) /\ todo' = todo \ {i}

OutputBaseTask == Begins("output-base-gc") /\ Start /\ preview' = dry /\ UNCHANGED <<git, dry>>

\* The disk cache has a module of its own, and `git gc` changes nothing here.
OtherTask ==
  /\ Begins("disk-cache-gc") \/ Begins("git-gc")
  /\ UNCHANGED <<vars, git, dry>>

\* Mutant of PruneTask: a repo that is not there counts as one without worktrees.
PruneTaskBlind ==
  /\ Begins("worktree-prune")
  /\ registered' = IF dry THEN registered ELSE [w \in Workspaces |-> registered[w] /\ Exists(w)]
  /\ UNCHANGED <<vars, branch, dry>>

\* `git worktree prune` in every repo that is there: git drops its entry for each
\* worktree whose directory is gone. The task reports success whatever git does.
PruneTask ==
  /\ Begins("worktree-prune")
  /\ registered' = IF dry \/ ~mounted THEN registered
                   ELSE [w \in Workspaces |-> registered[w] /\ Exists(w)]
  /\ UNCHANGED <<vars, branch, dry>>

RunDies == Crash /\ todo' = {} /\ UNCHANGED <<git, dry>>
----------------------------------------------------------------------------
(***************************************************************************)
(* `fv worktree`, and the user's own git.                                  *)
(***************************************************************************)

\* Mutant of AddWorktree: the branch is made anew where there is one.
AddAnew(w) ==
  /\ Recreate(w) /\ ~registered[w]
  /\ branch' = [branch EXCEPT ![w] = "fresh"]
  /\ registered' = [registered EXCEPT ![w] = TRUE]
  /\ UNCHANGED run

\* `worktree_add`: on the branch if there is one, else on one made from HEAD. git
\* refuses both while the directory or an entry for it is there.
AddWorktree(w) ==
  /\ Recreate(w) /\ ~registered[w]
  /\ branch' = IF branch[w] = "absent" THEN [branch EXCEPT ![w] = "fresh"] ELSE branch
  /\ registered' = [registered EXCEPT ![w] = TRUE]
  /\ UNCHANGED run

\* `worktree_remove` runs git in the worktree, which has to be there.
RemoveWorktree(w) ==
  /\ registered[w] /\ Delete(w)
  /\ registered' = [registered EXCEPT ![w] = FALSE]
  /\ UNCHANGED <<branch, run>>

DeleteByHand(w) == Delete(w) /\ UNCHANGED <<git, run>>

\* A commit, and the end of a branch that no worktree is on.
Commit(w) ==
  /\ Exists(w) /\ branch' = [branch EXCEPT ![w] = "ahead"]
  /\ UNCHANGED <<vars, registered, run>>
DeleteBranch(w) ==
  /\ mounted /\ ~registered[w] /\ branch' = [branch EXCEPT ![w] = "absent"]
  /\ UNCHANGED <<vars, registered, run>>

RunStep == OutputBaseTask \/ OtherTask \/ PruneTask \/ (TaskStep /\ UNCHANGED <<git, run>>)

WNext ==
  \/ \E call \in Calls : BeginRun(call)
  \/ RunStep \/ RunDies
  \/ \E w \in Workspaces :
       \/ AddWorktree(w) \/ RemoveWorktree(w) \/ DeleteByHand(w) \/ Commit(w) \/ DeleteBranch(w)
       \/ (Build(w) /\ UNCHANGED <<git, run>>)
  \/ (MountOrUnmount /\ UNCHANGED <<git, run>>)

\* The scheduler's loop never ends: it runs every task, none as a preview, again
\* and again, and a run that has begun goes on.
Scheduled == BeginRun([only |-> {}, dry |-> FALSE])
WSpec == WInit /\ [][WNext]_wvars /\ WF_wvars(RunStep) /\ SF_wvars(Scheduled)
----------------------------------------------------------------------------
(***************************************************************************)
(* Properties.                                                             *)
(***************************************************************************)

\* A worktree its user keeps stays one: whatever is pruned, removed and added, and
\* whether or not its volume is there meanwhile, git keeps its entry for it.
KeptStaysRegistered == \A w \in Workspaces : source[w] = "kept" => registered[w]

\* A worktree whose directory was deleted by hand blocks `worktree_add` of its
\* branch only until a maintenance run has pruned git's entry for it, if the volume
\* is not away at every prune.
StaleIsPruned ==
  <>[]mounted => \A w \in Workspaces :
    registered[w] /\ source[w] = "deleted" ~> ~registered[w] \/ source[w] = "kept"

\* The commits of a branch outlive its worktree: only who deletes the branch loses
\* them, no removal and no second `worktree_add`.
CommitsSurvive ==
  [][\A w \in Workspaces : branch[w] = "ahead" /\ branch'[w] # "ahead" => DeleteBranch(w)]_wvars
============================================================================
