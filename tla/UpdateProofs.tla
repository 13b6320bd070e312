---------------------------- MODULE UpdateProofs ----------------------------
(***************************************************************************)
(* Proofs about Update, for any updaters, any number of releases and calls *)
(* and any faults: the types, that fvd notifies of a release at most once, *)
(* that an app stays installed, and that it never goes back.               *)
(***************************************************************************)
EXTENDS Update, TLAPS

\* An update that has passed its check has a release to install.
TypeInv ==
  /\ TypeOK
  /\ \A u \in Updaters : updater[u] \in {"download", "attach", "remove", "removing", "copy"} => info[u] # 0

\* A version is notified of when it becomes the last notified of; it stops being
\* the latest for good, since no release is made twice.
NoticesInv ==
  /\ {latest, notified} \subseteq released \cup {0}
  /\ \A v \in Versions : notices[v] <= 1
  /\ \A v \in Versions : notices[v] # 0 => v = notified \/ (v \in released /\ v # latest)

\* Until two updates overlap, a copy fails or an updater dies in one: who updates
\* is alone, the app is whole but between its removal and the end of the copy, and
\* what an update decided on is newer than what is installed.
Busy(u) == updater[u] \notin {"idle", "dead"}

AppInv ==
  met = {} =>
    /\ \A u, v \in Updaters : Busy(u) /\ Busy(v) => u = v
    /\ app # "whole" => \E u \in Updaters : updater[u] \in {"removing", "copy", "copying"}
    /\ fvd \notin {0, version} => \E u \in Updaters : updater[u] \in {"copying", "kill"}
    /\ \A u \in Updaters :
         /\ updater[u] = "copying" => app = "torn" /\ writer = u
         /\ updater[u] \in {"check", "download", "attach", "remove", "removing", "copy"} => mine[u] = version
         /\ updater[u] \in {"download", "attach", "remove", "removing", "copy"} /\ ~force[u]
              => IsNewer(info[u], mine[u])

Inv == TypeInv /\ NoticesInv /\ AppInv

LEMMA VersionsAreNaturals ==
  /\ MaxVersion \in Nat /\ MaxCalls \in Nat
  /\ Versions \subseteq 0..MaxVersion /\ 0 \in 0..MaxVersion \ Versions /\ 1 \in Versions
  /\ \A v \in 0..MaxVersion : v # 0 => v \in Versions
BY UpdateConstants DEF Versions

LEMMA InvInit == Init => Inv
<1> SUFFICES ASSUME Init PROVE Inv
  OBVIOUS
<1> USE VersionsAreNaturals DEF Init
<1>1. TypeOK BY DEF TypeOK, Steps
<1>2. \A u \in Updaters : updater[u] = "idle" OBVIOUS
<1>3. NoticesInv
  <2>1. \A v \in Versions : notices[v] = 0 OBVIOUS
  <2> QED BY <2>1 DEF NoticesInv
<1>4. AppInv BY <1>2 DEF AppInv, Busy
<1> QED BY <1>1, <1>2, <1>3, <1>4 DEF Inv, TypeInv
----------------------------------------------------------------------------
\* The types, one action at a time.
LEMMA TypeStep == Inv /\ [Next]_vars => TypeInv'
<1> SUFFICES ASSUME Inv, [Next]_vars PROVE TypeInv'
  OBVIOUS
<1> USE VersionsAreNaturals DEF Inv, TypeInv, TypeOK, At, Goto, channel, bundle, upd, sched, Steps
<1>1. ASSUME NEW u \in Updaters, Call(u) PROVE TypeInv'
  <2>1. PICK f \in BOOLEAN : force' = [force EXCEPT ![u] = f] BY <1>1 DEF Call
  <2>2. calls' \in [Updaters -> 0..MaxCalls] BY <1>1 DEF Call
  <2>3. mine' \in [Updaters -> Versions] BY <1>1 DEF Call
  <2>4. force' \in [Updaters -> BOOLEAN] BY <2>1
  <2> QED BY <1>1, <2>2, <2>3, <2>4 DEF Call
<1>2. ASSUME NEW u \in Updaters, Check(u) PROVE TypeInv'
  BY <1>2 DEF Check
<1>3. ASSUME NEW u \in Updaters, NetFails(u) \/ Download(u) \/ Attach(u) PROVE TypeInv'
  BY <1>3 DEF NetFails, Download, Attach
<1>4. ASSUME NEW u \in Updaters, RemoveApp(u) \/ EndRemove(u) PROVE TypeInv'
  BY <1>4 DEF RemoveApp, EndRemove
<1>5. ASSUME NEW u \in Updaters, BeginCopy(u) PROVE TypeInv'
  BY <1>5 DEF BeginCopy
<1>6. ASSUME NEW u \in Updaters, EndCopy(u) PROVE TypeInv'
  <2>1. /\ app' \in {"none", "torn", "whole"} /\ met' \subseteq {"overlap", "copy", "crash"}
        /\ Goto(u, "kill") \/ Goto(u, "idle")
    BY <1>6 DEF EndCopy
  <2> QED BY <1>6, <2>1 DEF EndCopy
<1>7. ASSUME NEW u \in Updaters, KillFvd(u) PROVE TypeInv'
  BY <1>7 DEF KillFvd
<1>8. ASSUME NEW u \in Updaters, Open(u) \/ Crash(u) PROVE TypeInv'
  BY <1>8 DEF Open, Crash
<1>9. CASE Release BY <1>9 DEF Release
<1>10. CASE StartFvd BY <1>10 DEF StartFvd
<1>11. CASE Tick \/ StageEnds \/ StageHangs \/ CheckFails
  BY <1>11 DEF Tick, StageEnds, StageHangs, CheckFails
<1>12. CASE ScheduledCheck
  <2>1. notified' \in 0..MaxVersion BY <1>12 DEF ScheduledCheck, Notice
  <2>2. notices' \in [Versions -> 0..2]
    <3>1. CASE IsNewer(latest, fvd) /\ notified # latest
      <4>1. latest \in Versions BY <3>1 DEF IsNewer
      <4>2. notices[latest] \in 0..1 BY <4>1 DEF NoticesInv
      <4> QED BY <1>12, <3>1, <4>1, <4>2 DEF ScheduledCheck, Notice
    <3>2. CASE ~(IsNewer(latest, fvd) /\ notified # latest)
      BY <1>12, <3>2 DEF ScheduledCheck, Notice
    <3> QED BY <3>1, <3>2
  <2> QED BY <1>12, <2>1, <2>2 DEF ScheduledCheck
<1>13. CASE UNCHANGED vars BY <1>13 DEF vars
<1> QED
  BY <1>1, <1>2, <1>3, <1>4, <1>5, <1>6, <1>7, <1>8, <1>9, <1>10, <1>11, <1>12, <1>13
  DEF Next, Apply, Cycle

\* The notices change with the releases, the checks and the starts of fvd.
LEMMA NoticesStep == Inv /\ [Next]_vars => NoticesInv'
<1> SUFFICES ASSUME Inv, [Next]_vars PROVE NoticesInv'
  OBVIOUS
<1> USE VersionsAreNaturals DEF Inv, TypeInv, TypeOK, NoticesInv, channel, bundle, upd, sched
<1>1. CASE UNCHANGED <<channel, notified, notices>> BY <1>1
<1>2. CASE Release BY <1>2 DEF Release
<1>3. CASE StartFvd BY <1>3 DEF StartFvd
<1>4. CASE ScheduledCheck
  <2>1. CASE IsNewer(latest, fvd) /\ notified # latest
    <3>1. latest \in Versions BY <2>1 DEF IsNewer
    <3>2. notices[latest] = 0 BY <2>1, <3>1
    <3>3. \A v \in Versions : notices'[v] = IF v = latest THEN 1 ELSE notices[v]
      BY <1>4, <2>1, <3>1, <3>2 DEF ScheduledCheck, Notice
    <3>4. latest' = latest /\ released' = released /\ notified' = latest
      BY <1>4, <2>1 DEF ScheduledCheck, Notice
    <3> QED BY <3>1, <3>3, <3>4
  <2>2. CASE ~(IsNewer(latest, fvd) /\ notified # latest)
    BY <1>4, <2>2 DEF ScheduledCheck, Notice
  <2> QED BY <2>1, <2>2
<1> QED
  BY <1>1, <1>2, <1>3, <1>4 DEF Next, Apply, Cycle, Call, Check, NetFails, Download, Attach,
     RemoveApp, EndRemove, BeginCopy, EndCopy, KillFvd, Open, Crash, Tick, StageEnds, StageHangs, CheckFails,
     vars

\* Only who updates changes the app, and it is whole again when it ends.
LEMMA AppStep == Inv /\ [Next]_vars => AppInv'
<1> SUFFICES ASSUME Inv, [Next]_vars, met' = {} PROVE AppInv'
  BY DEF AppInv
<1>1. met = {}
  BY DEF Next, Apply, Cycle, Call, Check, NetFails, Download, Attach, RemoveApp, EndRemove,
     BeginCopy, EndCopy, KillFvd, Open, Crash, Release, StartFvd, Tick, StageEnds, StageHangs,
     ScheduledCheck, CheckFails, vars, upd
<1> USE <1>1, VersionsAreNaturals
        DEF Inv, TypeInv, TypeOK, AppInv, Busy, At, Goto, channel, bundle, upd, sched
<1>2. ASSUME NEW u \in Updaters, Call(u) PROVE AppInv'
  <2>1. Quiet BY <1>2 DEF Call
  <2>2. app = "whole" /\ fvd \in {0, version} BY <2>1 DEF Quiet
  <2>3. mine'[u] = version BY <1>2, <2>2 DEF Call
  <2> QED BY <1>2, <2>1, <2>2, <2>3 DEF Call, Quiet
<1>3. ASSUME NEW u \in Updaters, Check(u) PROVE AppInv'
  BY <1>3 DEF Check
<1>4. ASSUME NEW u \in Updaters, NetFails(u) \/ Download(u) \/ Attach(u) PROVE AppInv'
  BY <1>4 DEF NetFails, Download, Attach
<1>5. ASSUME NEW u \in Updaters, RemoveApp(u) \/ EndRemove(u) PROVE AppInv'
  BY <1>5 DEF RemoveApp, EndRemove
<1>6. ASSUME NEW u \in Updaters, BeginCopy(u) PROVE AppInv'
  BY <1>6 DEF BeginCopy
<1>7. ASSUME NEW u \in Updaters, EndCopy(u) PROVE AppInv'
  <2>1. app = "torn" /\ writer = u /\ writer # None BY <1>7, UpdateConstants DEF EndCopy
  <2>2. app' = "whole" /\ updater' = [updater EXCEPT ![u] = "kill"]
    BY <1>7, <2>1 DEF EndCopy
  <2> QED BY <1>7, <2>1, <2>2 DEF EndCopy
<1>8. ASSUME NEW u \in Updaters, KillFvd(u) PROVE AppInv'
  BY <1>8 DEF KillFvd
<1>9. ASSUME NEW u \in Updaters, Open(u) PROVE AppInv'
  BY <1>9 DEF Open
<1>10. ASSUME NEW u \in Updaters, Crash(u) PROVE AppInv'
  BY <1>10 DEF Crash
<1>11. CASE Release BY <1>11 DEF Release
<1>12. CASE StartFvd BY <1>12 DEF StartFvd
<1>13. CASE Cycle
  BY <1>13 DEF Cycle, Tick, StageEnds, StageHangs, ScheduledCheck, CheckFails
<1>14. CASE UNCHANGED vars BY <1>14 DEF vars
<1> QED
  BY <1>2, <1>3, <1>4, <1>5, <1>6, <1>7, <1>8, <1>9, <1>10, <1>11, <1>12, <1>13, <1>14
  DEF Next, Apply
----------------------------------------------------------------------------
LEMMA Invariance == Spec => []Inv
<1>1. Inv /\ [Next]_vars => Inv' BY TypeStep, NoticesStep, AppStep DEF Inv
<1> QED BY <1>1, InvInit, PTL DEF Spec

\* The types of the bundle, the updaters, the channel and the scheduler.
THEOREM TypeCorrect == Spec => []TypeOK
<1>1. Inv => TypeOK BY DEF Inv, TypeInv
<1> QED BY <1>1, Invariance, PTL

\* However many releases are made and cycles run, an fvd notifies of each release
\* at most once.
THEOREM NotifiedOnce == Spec => []NotifiesOnce
<1>1. Inv => NotifiesOnce BY DEF Inv, NoticesInv, NotifiesOnce
<1> QED BY <1>1, Invariance, PTL

\* With any number of updaters, releases and calls: the app is whole whenever no
\* update is under way, until two overlap, a copy fails or an updater dies in one.
THEOREM AppIsKept == Spec => []AppStays
<1>1. Inv => AppStays BY DEF Inv, AppInv, AppStays, Quiet
<1> QED BY <1>1, Invariance, PTL

\* An update that is not forced never replaces the app by an older one.
THEOREM NeverBack == Spec => NoDowngrade
<1>1. Inv => \A u \in Updaters :
        BeginCopy(u) /\ ~force[u] /\ met = {} /\ {version, version'} \cap Odd = {}
          => version' >= version
  <2> SUFFICES ASSUME Inv, NEW u \in Updaters, BeginCopy(u), ~force[u], met = {},
                      {version, version'} \cap Odd = {}
               PROVE  version' >= version
    OBVIOUS
  <2>1. version' = info[u] /\ updater[u] = "copy" BY DEF BeginCopy, At
  <2>2. IsNewer(info[u], version) BY <2>1 DEF Inv, AppInv
  <2>3. version \in Nat /\ info[u] \in Nat
    BY VersionsAreNaturals DEF Inv, TypeInv, TypeOK, Versions
  <2> QED BY <2>1, <2>2, <2>3 DEF IsNewer
<1> QED BY <1>1, Invariance, PTL DEF NoDowngrade
============================================================================
