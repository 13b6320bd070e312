------------------------------- MODULE Update -------------------------------
(***************************************************************************)
(* Self-update. `apply` asks the release channel for the newest release,   *)
(* downloads its image, mounts it, removes the installed app, copies the   *)
(* new one in its place, stops fvd and opens the app. The CLI runs it and  *)
(* so does fvd itself, for the ApplyUpdate RPC; fvd's scheduler only       *)
(* checks, at the end of each of its cycles (the repo sync and the         *)
(* maintenance run come first), and notifies the user of a version once.   *)
(*                                                                         *)
(* Both binaries that can update live inside the app they replace: `fv` is *)
(* a link into the bundle, and fvd is started from it.                     *)
(***************************************************************************)
EXTENDS Naturals, FiniteSets

CONSTANTS
  Updaters,     \* the calls of `apply`
  InDaemon,     \* those of them that fvd runs
  MaxVersion,   \* bound on the releases: versions are 1..MaxVersion
  Odd,          \* the versions whose name is not dotted numbers
  Faults,       \* "net": the release channel or the download fails; "attach": the
                \* image does not mount or holds no app; "remove": the installed
                \* app cannot be removed, or not all of it; "copy": cp fails midway;
                \* "crash": an updater dies; "hang": a sync or a maintenance run
                \* of the scheduler never ends
  MaxCalls,     \* bound on the calls of each updater
  MaxReleases,  \* bound on the releases made
  None

ASSUME UpdateConstants ==
  /\ InDaemon \subseteq Updaters /\ MaxVersion \in Nat \ {0} /\ {MaxCalls, MaxReleases} \subseteq Nat
  /\ Faults \subseteq {"net", "attach", "remove", "copy", "crash", "hang"}
  /\ None \notin Updaters

Versions == 1..MaxVersion

VARIABLES
  latest,    \* the last release that is not a draft; 0 while there is none
  released,  \* every version released so far
  app,       \* the bundle in /Applications: "none", "torn" or "whole"
  version,   \* the version its files are, or are becoming
  writer,    \* the updater that last began to copy into it, None once another
             \* began to remove what it copied
  fvd,       \* the version of the fvd that runs, 0 if none does
  updater,   \* each updater's step
  info,      \* what its check returned: the version it installs
  force,
  mine,      \* the version of the program that runs the updater
  calls,
  cycle,     \* fvd's scheduler: "off", or where its cycle is
  notified,  \* the version fvd's scheduler last notified of
  notices,   \* history: the versions this fvd has notified of
  met        \* history: "overlap" once an update began while another was under
             \* way, "copy" once a copy failed, "crash" once an updater died
             \* between the removal of the app and its relaunch

upd == <<updater, info, force, mine, calls, met>>
sched == <<cycle, notified, notices>>
bundle == <<app, version, writer>>
channel == <<latest, released>>
vars == <<channel, bundle, fvd, upd, sched>>

Steps == {"idle", "check", "download", "attach", "remove", "removing", "copy", "copying",
          "kill", "open", "dead"}

TypeOK ==
  /\ latest \in 0..MaxVersion /\ released \subseteq Versions
  /\ app \in {"none", "torn", "whole"} /\ version \in Versions
  /\ writer \in Updaters \cup {None} /\ fvd \in 0..MaxVersion
  /\ updater \in [Updaters -> Steps] /\ info \in [Updaters -> 0..MaxVersion]
  /\ force \in [Updaters -> BOOLEAN] /\ mine \in [Updaters -> Versions]
  /\ calls \in [Updaters -> 0..MaxCalls]
  /\ met \subseteq {"overlap", "copy", "crash"}
  /\ cycle \in {"off", "wait", "sync", "maintain", "check", "hung"}
  /\ notified \in 0..MaxVersion /\ notices \in [Versions -> 0..2]

Init ==
  /\ latest = 0 /\ released = {}
  /\ app = "whole" /\ version = 1 /\ writer = None /\ fvd = 1
  /\ updater = [u \in Updaters |-> "idle"]
  /\ info = [u \in Updaters |-> 0] /\ force = [u \in Updaters |-> FALSE]
  /\ mine = [u \in Updaters |-> 1] /\ calls = [u \in Updaters |-> 0]
  /\ met = {} /\ cycle = "wait" /\ notified = 0 /\ notices = [v \in Versions |-> 0]

\* Mutant of IsNewer: any other version counts.
IsOther(v, current) == v # 0 /\ v # current

\* is_newer: numbers compare, anything else is newer when it differs.
IsNewer(v, current) ==
  v # 0 /\ IF {v, current} \cap Odd = {} THEN v > current ELSE v # current

Quiet == \A u \in Updaters : updater[u] \in {"idle", "dead"}
At(u, l) == updater[u] = l
Goto(u, l) == updater' = [updater EXCEPT ![u] = l]
----------------------------------------------------------------------------
(***************************************************************************)
(* apply.                                                                  *)
(***************************************************************************)

\* The CLI is the bundle's `fv`; fvd runs the others.
Call(u) ==
  /\ At(u, "idle") /\ calls[u] < MaxCalls
  /\ IF u \in InDaemon THEN fvd # 0 ELSE app = "whole"
  /\ \E f \in BOOLEAN : force' = [force EXCEPT ![u] = f]
  /\ mine' = [mine EXCEPT ![u] = IF u \in InDaemon THEN fvd ELSE version]
  /\ calls' = [calls EXCEPT ![u] = @ + 1]
  /\ met' = IF Quiet THEN met ELSE met \cup {"overlap"}
  /\ Goto(u, "check")
  /\ UNCHANGED <<channel, bundle, fvd, info, sched>>

\* No release, a channel that refuses the token, and a release that is not newer
\* all end an update that is not forced.
Check(u) ==
  /\ At(u, "check")
  /\ info' = [info EXCEPT ![u] = latest]
  /\ Goto(u, IF latest # 0 /\ (force[u] \/ IsNewer(latest, mine[u])) THEN "download" ELSE "idle")
  /\ UNCHANGED <<channel, bundle, fvd, force, mine, calls, met, sched>>

\* Also a release that has no image.
NetFails(u) ==
  /\ updater[u] \in {"check", "download"} /\ "net" \in Faults
  /\ Goto(u, "idle")
  /\ UNCHANGED <<channel, bundle, fvd, info, force, mine, calls, met, sched>>

Download(u) ==
  /\ At(u, "download")
  /\ Goto(u, "attach")
  /\ UNCHANGED <<channel, bundle, fvd, info, force, mine, calls, met, sched>>

\* Mutant of Attach: the installed app is removed first, then the image mounted.
AttachLate(u) ==
  /\ At(u, "attach")
  /\ app' = "none"
  /\ \/ Goto(u, "copy")
     \/ "attach" \in Faults /\ Goto(u, "idle")
  /\ UNCHANGED <<channel, version, writer, fvd, info, force, mine, calls, met, sched>>

Attach(u) ==
  /\ At(u, "attach")
  /\ \/ Goto(u, "remove")
     \/ "attach" \in Faults /\ Goto(u, "idle")
  /\ UNCHANGED <<channel, bundle, fvd, info, force, mine, calls, met, sched>>

RemoveApp(u) ==
  /\ At(u, "remove")
  /\ app' = (IF app = "none" THEN "none" ELSE "torn") /\ writer' = None
  /\ Goto(u, "removing")
  /\ UNCHANGED <<channel, version, fvd, info, force, mine, calls, met, sched>>

\* An error of the removal is ignored: the copy goes over what is left.
EndRemove(u) ==
  /\ At(u, "removing")
  /\ app' = "none" \/ ("remove" \in Faults /\ UNCHANGED app)
  /\ Goto(u, "copy")
  /\ UNCHANGED <<channel, version, writer, fvd, info, force, mine, calls, met, sched>>

BeginCopy(u) ==
  /\ At(u, "copy")
  /\ app' = "torn" /\ version' = info[u] /\ writer' = u
  /\ Goto(u, "copying")
  /\ UNCHANGED <<channel, fvd, info, force, mine, calls, met, sched>>

\* The copy is whole if nothing else removed or wrote the bundle meanwhile; the
\* image is detached either way.
EndCopy(u) ==
  /\ At(u, "copying")
  /\ \/ /\ app = "torn" /\ writer = u
        /\ app' = "whole" /\ Goto(u, "kill") /\ UNCHANGED met
     \/ /\ app # "none" /\ writer # u
        /\ app' = IF version = info[u] THEN app ELSE "torn"
        /\ Goto(u, "kill") /\ UNCHANGED met
     \/ (app = "none" \/ writer = None) /\ Goto(u, "idle") /\ UNCHANGED <<app, met>>
     \/ "copy" \in Faults /\ Goto(u, "idle") /\ met' = met \cup {"copy"} /\ UNCHANGED app
  /\ UNCHANGED <<channel, version, writer, fvd, info, force, mine, calls, sched>>

\* pkill takes fvd, and with it every update that fvd runs.
KillFvd(u) ==
  /\ At(u, "kill")
  /\ fvd' = 0 /\ cycle' = "off"
  /\ updater' = [x \in Updaters |->
       IF x \in InDaemon /\ updater[x] # "idle" THEN "dead"
       ELSE IF x = u THEN "open" ELSE updater[x]]
  /\ UNCHANGED <<channel, bundle, info, force, mine, calls, met, notified, notices>>

Open(u) ==
  /\ At(u, "open")
  /\ Goto(u, "idle")
  /\ UNCHANGED <<channel, bundle, fvd, info, force, mine, calls, met, sched>>

Crash(u) ==
  /\ "crash" \in Faults /\ updater[u] \notin {"idle", "dead"}
  /\ Goto(u, "dead")
  /\ met' = IF updater[u] \in {"removing", "copy", "copying", "kill"}
            THEN met \cup {"crash"} ELSE met
  /\ UNCHANGED <<channel, bundle, fvd, info, force, mine, calls, sched>>
----------------------------------------------------------------------------
(***************************************************************************)
(* The release channel, launchd, and the scheduler's check.                *)
(***************************************************************************)
\* A fix may be shipped at a lower version than the last release.
Release ==
  /\ Cardinality(released) < MaxReleases /\ latest' \in Versions \ released
  /\ released' = released \cup {latest'}
  /\ UNCHANGED <<bundle, fvd, upd, sched>>

\* A new fvd remembers no notice. An interval of 0 turns its scheduler off; else
\* the first tick is passed over.
StartFvd ==
  /\ fvd = 0 /\ app = "whole"
  /\ fvd' = version /\ cycle' \in {"off", "wait"}
  /\ notified' = 0 /\ notices' = [v \in Versions |-> 0]
  /\ UNCHANGED <<channel, bundle, upd>>

\* The tick, missed ticks counting as one; without sources nothing is synced.
Tick ==
  /\ cycle = "wait" /\ cycle' \in {"sync", "maintain"}
  /\ UNCHANGED <<channel, bundle, fvd, upd, notified, notices>>

\* Mutant of StageEnds: a sync that fails ends the cycle.
StageEndsEarly ==
  /\ cycle \in {"sync", "maintain"}
  /\ cycle' = IF cycle = "sync" THEN "wait" ELSE "check"
  /\ UNCHANGED <<channel, bundle, fvd, upd, notified, notices>>

\* However a sync or a maintenance run ends (it fails, it panics), the cycle goes on.
StageEnds ==
  /\ cycle \in {"sync", "maintain"}
  /\ cycle' = IF cycle = "sync" THEN "maintain" ELSE "check"
  /\ UNCHANGED <<channel, bundle, fvd, upd, notified, notices>>

\* Neither has a limit of time.
StageHangs ==
  /\ "hang" \in Faults /\ cycle \in {"sync", "maintain"}
  /\ cycle' = "hung"
  /\ UNCHANGED <<channel, bundle, fvd, upd, notified, notices>>

\* Mutant of Notice: the notice is sent and not remembered.
NoticeAgain ==
  IF IsNewer(latest, fvd) /\ notified # latest
  THEN notices' = [notices EXCEPT ![latest] = @ + 1] /\ UNCHANGED notified
  ELSE UNCHANGED <<notified, notices>>

Notice ==
  IF IsNewer(latest, fvd) /\ notified # latest
  THEN notices' = [notices EXCEPT ![latest] = @ + 1] /\ notified' = latest
  ELSE UNCHANGED <<notified, notices>>

ScheduledCheck ==
  /\ cycle = "check" /\ cycle' = "wait" /\ Notice
  /\ UNCHANGED <<channel, bundle, fvd, upd>>
CheckFails ==
  /\ "net" \in Faults /\ cycle = "check" /\ cycle' = "wait"
  /\ UNCHANGED <<channel, bundle, fvd, upd, notified, notices>>

Apply(u) ==
  \/ Check(u) \/ NetFails(u) \/ Download(u) \/ Attach(u) \/ RemoveApp(u)
  \/ EndRemove(u) \/ BeginCopy(u) \/ EndCopy(u) \/ KillFvd(u) \/ Open(u)

Cycle == Tick \/ StageEnds \/ StageHangs \/ ScheduledCheck \/ CheckFails

Next ==
  \/ \E u \in Updaters : Call(u) \/ Apply(u) \/ Crash(u)
  \/ Release \/ StartFvd \/ Cycle

\* The scheduler's loop goes on, and its check does not fail each time.
Spec == Init /\ [][Next]_vars /\ WF_vars(Cycle) /\ SF_vars(ScheduledCheck)
----------------------------------------------------------------------------
(***************************************************************************)
(* Properties.                                                             *)
(***************************************************************************)

\* The updater is the recovery channel: when no update is under way there is a
\* whole app, hence an `fv` that can update again, whatever the last one met; but
\* the app is removed before the new one is there, and a copy that fails, a death
\* before it ends or a second update at the same time leaves none.
AppStays == Quiet /\ met = {} => app = "whole"

\* Unless it is forced, an update never replaces the app by an older one, however
\* releases come meanwhile: but for versions that do not compare, for two updates
\* at once (the later was decided before the earlier installed its own), and for
\* an fvd that was never stopped, and compares with its own version.
NoDowngrade ==
  [][\A u \in Updaters :
       BeginCopy(u) /\ ~force[u] /\ met = {} /\ {version, version'} \cap Odd = {}
       => version' >= version]_vars

\* A standing update is notified of once, not every cycle, as long as fvd runs.
NotifiesOnce == \A v \in Versions : notices[v] <= 1

\* A release newer than the fvd that runs is notified of in the end, whatever the
\* syncs and maintenance runs before the check meet, unless there is a newer one
\* meanwhile, fvd is stopped, its scheduler is off, or a run before the check hangs.
UpdateIsNoticed ==
  \A v \in Versions :
    latest = v /\ IsNewer(v, fvd) /\ fvd # 0 ~>
      notified = v \/ latest # v \/ fvd = 0 \/ cycle \in {"off", "hung"}
============================================================================
