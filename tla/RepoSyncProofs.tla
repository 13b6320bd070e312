--------------------------- MODULE RepoSyncProofs ---------------------------
(***************************************************************************)
(* Proofs about RepoSync, for any callers, sources, repositories and names *)
(* of theirs (alike or not), any faults and anything the user does: the    *)
(* types, that outcomes are true, and that none is missing.                *)
(***************************************************************************)
EXTENDS RepoSync, TLAPS

Outcomes == Seq(AllRepos \X Actions)
Done == {"cloned", "updated", "up-to-date"}

\* A directory is what an outcome says it is.
Shows(a, place) == place.kind \in {"git", "hollow"} /\ (a = "cloned" => place.kind = "git")

\* A run that works on a repository has one to work on, not the meta repository;
\* what it is cloning is there, half cloned, and no other run is cloning it.
CloneInv ==
  /\ \A s \in Syncs : sync[s].step \in {"clone", "cloning", "pull"} =>
       sync[s].specs # << >> /\ Dir[Spec1(s)] # MetaRepo
  /\ \A s \in Syncs : sync[s].step = "cloning" => At(s) = Partial(Spec1(s))
  /\ \A s, t \in Syncs :
       sync[s].step = "cloning" /\ sync[t].step = "cloning" /\ Dir[Spec1(s)] = Dir[Spec1(t)]
         => s = t

\* A checkout is one of a repository of that name.
DiskInv ==
  \A d \in Dirs : disk[d].kind \in {"partial", "hollow", "git"} =>
    disk[d].of \in AllRepos /\ Dir[disk[d].of] = d

\* What a real run has reported as done is there as it says.
TruthInv ==
  \A s \in Syncs : ~sync[s].preview =>
    \A i \in DOMAIN sync[s].outcomes : sync[s].outcomes[i][2] \in Done =>
      /\ Dir[sync[s].outcomes[i][1]] # MetaRepo
      /\ Shows(sync[s].outcomes[i][2], disk[Dir[sync[s].outcomes[i][1]]])

\* What a run has listed is reported, or still to do, the meta repository aside.
Has(outcomes, x) == \E i \in DOMAIN outcomes : outcomes[i][1] = x
Accounted(w, x) == Dir[x] = MetaRepo \/ Has(w.outcomes, x)
Left(w, x) == x \in Range(w.specs) \/ Accounted(w, x)

Through(w, i) == \E l \in Listings(Sources[i]) : \A x \in Range(l) : Accounted(w, x)
Within(w, i)  == \E l \in Listings(Sources[i]) : \A x \in Range(l) : Left(w, x)

Covered(w) ==
  w.step # "idle" =>
    /\ w.source \in 1..Len(Sources) + 1
    /\ \A i \in 1..w.source - 1 : Through(w, i)
    /\ w.step # "list" => w.source \in 1..Len(Sources) /\ Within(w, w.source)

CoverInv == \A s \in Syncs : Covered(sync[s])

Inv == TypeOK /\ CloneInv /\ DiskInv /\ TruthInv /\ CoverInv
----------------------------------------------------------------------------
(***************************************************************************)
(* Lemmas on sequences, and on what a step does to the run that takes it.  *)
(***************************************************************************)

LEMMA HeadAndTail ==
  ASSUME NEW S, NEW q \in Seq(S), q # << >>
  PROVE  /\ Head(q) \in S /\ Tail(q) \in Seq(S)
         /\ \A x \in Range(q) : x = Head(q) \/ x \in Range(Tail(q))
<1>1. Head(q) \in S /\ Tail(q) \in Seq(S) OBVIOUS
<1>2. ASSUME NEW i \in DOMAIN q, i # 1
      PROVE  i - 1 \in DOMAIN Tail(q) /\ Tail(q)[i - 1] = q[i]
  BY <1>2
<1>3. ASSUME NEW x \in Range(q) PROVE x = Head(q) \/ x \in Range(Tail(q))
  <2>1. PICK i \in DOMAIN q : x = q[i] BY <1>3 DEF Range
  <2>2. CASE i = 1 BY <2>1, <2>2
  <2>3. CASE i # 1 BY <2>1, <2>3, <1>2 DEF Range
  <2> QED BY <2>2, <2>3
<1> QED BY <1>1, <1>3

LEMMA Appended ==
  ASSUME NEW q \in Outcomes, NEW x \in AllRepos, NEW a \in Actions
  PROVE  /\ Append(q, <<x, a>>) \in Outcomes /\ Has(Append(q, <<x, a>>), x)
         /\ \A y : Has(q, y) => Has(Append(q, <<x, a>>), y)
         /\ \A i \in DOMAIN Append(q, <<x, a>>) :
              \/ i \in DOMAIN q /\ Append(q, <<x, a>>)[i] = q[i]
              \/ Append(q, <<x, a>>)[i] = <<x, a>>
<1> DEFINE r == Append(q, <<x, a>>)
<1>1. r \in Outcomes /\ DOMAIN r = 1..Len(q) + 1 /\ DOMAIN q = 1..Len(q) /\ Len(q) \in Nat
      /\ r[Len(q) + 1] = <<x, a>>
  BY DEF Outcomes
<1>2. \A i \in DOMAIN q : i \in DOMAIN r /\ r[i] = q[i] BY DEF Outcomes
<1>3. \A i \in DOMAIN r : i \in DOMAIN q \/ i = Len(q) + 1 BY <1>1
<1> HIDE DEF r
<1>4. Has(r, x) BY <1>1 DEF Has
<1>5. \A y : Has(q, y) => Has(r, y) BY <1>2 DEF Has
<1> QED BY <1>1, <1>2, <1>3, <1>4, <1>5 DEF r

\* The repositories of a listing.
LEMMA Listed ==
  /\ \A i \in 1..Len(Sources) : Sources[i] \in Groups /\ Repos[Sources[i]] \in Seq(AllRepos)
                                /\ Limit[Sources[i]] \in Nat
  /\ Len(Sources) \in Nat /\ DOMAIN Sources = 1..Len(Sources)
  /\ \A x \in AllRepos : Dir[x] # MetaRepo => Dir[x] \in Dirs
BY RepoSyncConstants DEF Dirs

Others(s) == \A t \in Syncs \ {s} : sync'[t] = sync[t]

LEMMA ReportEffect ==
  ASSUME TypeOK, NEW s \in Syncs, NEW a \in Actions, sync[s].specs # << >>, Report(s, a)
  PROVE  /\ sync' \in [Syncs -> Runs] /\ Others(s) /\ Spec1(s) \in AllRepos
         /\ sync'[s] = [sync[s] EXCEPT !.step = "repo", !.specs = Tail(sync[s].specs),
                          !.outcomes = Append(sync[s].outcomes, <<Spec1(s), a>>)]
<1> DEFINE w == [sync[s] EXCEPT !.step = "repo", !.specs = Tail(sync[s].specs),
                   !.outcomes = Append(sync[s].outcomes, <<Spec1(s), a>>)]
<1>1. sync \in [Syncs -> Runs] /\ sync[s] \in Runs BY DEF TypeOK
<1>2. sync[s].specs \in Seq(AllRepos) /\ sync[s].outcomes \in Outcomes BY <1>1 DEF Runs, Outcomes
<1>3. Spec1(s) \in AllRepos /\ Tail(sync[s].specs) \in Seq(AllRepos)
  BY <1>2, HeadAndTail DEF Spec1
<1>4. Append(sync[s].outcomes, <<Spec1(s), a>>) \in Outcomes BY <1>2, <1>3, Appended
<1>5. sync' = [sync EXCEPT ![s] = w] BY <1>1 DEF Report
<1>6. w \in Runs BY <1>1, <1>3, <1>4 DEF Runs, Outcomes
<1> HIDE DEF w
<1>7. sync' \in [Syncs -> Runs] /\ sync'[s] = w /\ Others(s) BY <1>1, <1>5, <1>6 DEF Others
<1> QED BY <1>3, <1>7 DEF w

LEMMA InvInit == Init => Inv
<1> SUFFICES ASSUME Init PROVE Inv
  OBVIOUS
<1> USE RepoSyncConstants DEF Init
<1>1. Absent \in Places /\ Alien \in Places /\ Absent.kind = "absent" /\ Alien.kind = "alien"
      /\ Absent.of = None /\ Alien.of = None
  BY DEF Absent, Alien, Places
<1>2. disk \in [Dirs -> Places] /\ \A d \in Dirs : disk[d] \in {Absent, Alien} BY <1>1
<1>3. Idle \in Runs /\ Idle.step = "idle" /\ Idle.outcomes = << >> BY DEF Idle, Runs
<1>4. TypeOK BY <1>1, <1>2, <1>3 DEF TypeOK
<1>5. CloneInv /\ CoverInv BY <1>3 DEF CloneInv, CoverInv, Covered
<1>6. DiskInv BY <1>1, <1>2 DEF DiskInv
<1>7. TruthInv BY <1>3 DEF TruthInv
<1> QED BY <1>4, <1>5, <1>6, <1>7 DEF Inv
----------------------------------------------------------------------------
(***************************************************************************)
(* What keeps each part of the invariant, whichever action it is.          *)
(***************************************************************************)
\* No checkout is lost.
GitStays == \A d \in Dirs, a \in Done : Shows(a, disk[d]) => Shows(a, disk'[d])

\* Places that other runs are cloning into are not touched.
SparesOthers(s) ==
  \A t \in Syncs \ {s} : sync[t].step = "cloning" => disk'[Dir[Spec1(t)]] = disk[Dir[Spec1(t)]]

LEMMA TruthKept ==
  ASSUME Inv, NEW s \in Syncs, Others(s), GitStays,
         \/ sync'[s].outcomes = << >>
         \/ sync'[s].outcomes = sync[s].outcomes /\ sync'[s].preview = sync[s].preview
  PROVE  TruthInv'
<1> SUFFICES ASSUME NEW t \in Syncs, ~sync'[t].preview, NEW i \in DOMAIN sync'[t].outcomes,
                    sync'[t].outcomes[i][2] \in Done
             PROVE  /\ Dir[sync'[t].outcomes[i][1]] # MetaRepo
                    /\ Shows(sync'[t].outcomes[i][2], disk'[Dir[sync'[t].outcomes[i][1]]])
  BY DEF TruthInv
<1>1. ~sync[t].preview /\ i \in DOMAIN sync[t].outcomes /\ sync'[t].outcomes = sync[t].outcomes
  BY DEF Others
<1>2. sync[t].outcomes \in Outcomes BY DEF Inv, TypeOK, Runs, Outcomes
<1>3. sync[t].outcomes[i][1] \in AllRepos BY <1>1, <1>2 DEF Outcomes
<1> QED BY <1>1, <1>3, Listed DEF Inv, TruthInv, GitStays

LEMMA TruthReported ==
  ASSUME Inv, NEW s \in Syncs, NEW a \in Actions, sync[s].specs # << >>, Report(s, a), GitStays,
         a \in Done /\ ~sync[s].preview =>
           Dir[Spec1(s)] # MetaRepo /\ Shows(a, disk'[Dir[Spec1(s)]])
  PROVE  TruthInv'
<1> SUFFICES ASSUME NEW t \in Syncs, ~sync'[t].preview, NEW i \in DOMAIN sync'[t].outcomes,
                    sync'[t].outcomes[i][2] \in Done
             PROVE  /\ Dir[sync'[t].outcomes[i][1]] # MetaRepo
                    /\ Shows(sync'[t].outcomes[i][2], disk'[Dir[sync'[t].outcomes[i][1]]])
  BY DEF TruthInv
<1>1. /\ Others(s) /\ Spec1(s) \in AllRepos
      /\ sync'[s] = [sync[s] EXCEPT !.step = "repo", !.specs = Tail(sync[s].specs),
                       !.outcomes = Append(sync[s].outcomes, <<Spec1(s), a>>)]
  BY ReportEffect DEF Inv
<1>2. \A u \in Syncs : sync[u] \in Runs /\ sync[u].outcomes \in Outcomes
  BY DEF Inv, TypeOK, Runs, Outcomes
<1>3. sync'[s].preview = sync[s].preview
      /\ sync'[s].outcomes = Append(sync[s].outcomes, <<Spec1(s), a>>)
  BY <1>1, <1>2 DEF Runs
<1>4. ASSUME ~sync[t].preview, i \in DOMAIN sync[t].outcomes,
             sync'[t].outcomes[i] = sync[t].outcomes[i]
      PROVE  /\ Dir[sync'[t].outcomes[i][1]] # MetaRepo
             /\ Shows(sync'[t].outcomes[i][2], disk'[Dir[sync'[t].outcomes[i][1]]])
  <2>1. sync[t].outcomes[i][1] \in AllRepos BY <1>2, <1>4 DEF Outcomes
  <2> QED BY <1>4, <2>1, Listed DEF Inv, TruthInv, GitStays
<1>5. CASE t # s BY <1>1, <1>4, <1>5 DEF Others
<1>6. CASE t = s
  <2>1. \/ i \in DOMAIN sync[s].outcomes /\ sync'[s].outcomes[i] = sync[s].outcomes[i]
        \/ sync'[s].outcomes[i] = <<Spec1(s), a>>
    <3>1. \A j \in DOMAIN Append(sync[s].outcomes, <<Spec1(s), a>>) :
            \/ j \in DOMAIN sync[s].outcomes
               /\ Append(sync[s].outcomes, <<Spec1(s), a>>)[j] = sync[s].outcomes[j]
            \/ Append(sync[s].outcomes, <<Spec1(s), a>>)[j] = <<Spec1(s), a>>
      BY <1>1, <1>2, Appended
    <3> QED BY <1>3, <1>6, <3>1
  <2>2. CASE i \in DOMAIN sync[s].outcomes /\ sync'[s].outcomes[i] = sync[s].outcomes[i]
    BY <1>3, <1>4, <1>6, <2>2
  <2>3. CASE sync'[s].outcomes[i] = <<Spec1(s), a>>
    <3>1. sync'[t].outcomes[i][1] = Spec1(s) /\ sync'[t].outcomes[i][2] = a BY <1>6, <2>3
    <3>2. a \in Done /\ ~sync[s].preview BY <1>3, <1>6, <3>1
    <3> QED BY <3>1, <3>2
  <2> QED BY <2>1, <2>2, <2>3
<1> QED BY <1>5, <1>6

\* A run that others' steps leave alone stays as accounted for as it was.
LEMMA CoverKept ==
  ASSUME Inv, NEW s \in Syncs, Others(s), Covered(sync'[s])
  PROVE  CoverInv'
<1>1. \A t \in Syncs : Covered(sync[t]) BY DEF Inv, CoverInv
<1>2. \A t \in Syncs : Covered(sync'[t]) BY <1>1 DEF Others
<1> QED BY <1>2 DEF CoverInv

\* A run that has reported no less, and has no less left or reported of its source,
\* is as far as it was.
LEMMA CoverGrows ==
  ASSUME NEW v, NEW w, Covered(v), v.step \notin {"idle", "list"}, w.source = v.source,
         \A x : Accounted(v, x) => Accounted(w, x),
         \A x : Left(v, x) => Left(w, x)
  PROVE  Covered(w)
<1>1. /\ v.source \in 1..Len(Sources) + 1 /\ v.source \in 1..Len(Sources)
      /\ \A i \in 1..v.source - 1 : Through(v, i)
      /\ Within(v, v.source)
  BY DEF Covered
<1>2. ASSUME NEW i, Through(v, i) PROVE Through(w, i) BY <1>2 DEF Through
<1>3. Within(w, v.source) BY <1>1 DEF Within
<1> QED BY <1>1, <1>2, <1>3 DEF Covered

\* A run goes on with the same repository, or with none.
LEMMA CoveredSame ==
  ASSUME Inv, NEW s \in Syncs, NEW w, sync[s].step \notin {"idle", "list"},
         w.source = sync[s].source, w.specs = sync[s].specs, w.outcomes = sync[s].outcomes
  PROVE  Covered(w)
<1>1. Covered(sync[s]) BY DEF Inv, CoverInv
<1>2. \A x : Accounted(sync[s], x) => Accounted(w, x) BY DEF Accounted
<1>3. \A x : Left(sync[s], x) => Left(w, x) BY <1>2 DEF Left
<1> QED BY <1>1, <1>2, <1>3, CoverGrows

LEMMA CoverReported ==
  ASSUME Inv, NEW s \in Syncs, NEW a \in Actions, sync[s].specs # << >>, Report(s, a),
         sync[s].step \notin {"idle", "list"}
  PROVE  CoverInv'
<1>1. /\ Others(s) /\ Spec1(s) \in AllRepos
      /\ sync'[s] = [sync[s] EXCEPT !.step = "repo", !.specs = Tail(sync[s].specs),
                       !.outcomes = Append(sync[s].outcomes, <<Spec1(s), a>>)]
  BY ReportEffect DEF Inv
<1>2. sync[s] \in Runs /\ sync[s].specs \in Seq(AllRepos) /\ sync[s].outcomes \in Outcomes
  BY DEF Inv, TypeOK, Runs, Outcomes
<1>3. /\ sync'[s].source = sync[s].source /\ sync'[s].specs = Tail(sync[s].specs)
      /\ sync'[s].outcomes = Append(sync[s].outcomes, <<Spec1(s), a>>)
  BY <1>1, <1>2 DEF Runs
<1>4. \A x : Accounted(sync[s], x) => Accounted(sync'[s], x)
  BY <1>1, <1>2, <1>3, Appended DEF Accounted
<1>5. Accounted(sync'[s], Spec1(s)) BY <1>1, <1>2, <1>3, Appended DEF Accounted
<1>6. \A x \in Range(sync[s].specs) : x \in Range(sync'[s].specs) \/ Accounted(sync'[s], x)
  BY <1>2, <1>3, <1>5, HeadAndTail DEF Spec1
<1>7. \A x : Left(sync[s], x) => Left(sync'[s], x) BY <1>4, <1>6 DEF Left
<1>8. Covered(sync[s]) BY DEF Inv, CoverInv
<1>9. Covered(sync'[s]) BY <1>3, <1>4, <1>7, <1>8, CoverGrows
<1> QED BY <1>1, <1>9, CoverKept

LEMMA CloneKept ==
  ASSUME Inv, NEW s \in Syncs, Others(s), SparesOthers(s), sync'[s].step # "cloning",
         sync'[s].step \in {"clone", "pull"} =>
           sync'[s].specs # << >> /\ Dir[Head(sync'[s].specs)] # MetaRepo
  PROVE  CloneInv'
<1>1. \A t \in Syncs \ {s} : sync'[t] = sync[t] BY DEF Others
<1>2. \A t \in Syncs : sync'[t].step \in {"clone", "cloning", "pull"} =>
        sync'[t].specs # << >> /\ Dir[Head(sync'[t].specs)] # MetaRepo
  BY <1>1 DEF Inv, CloneInv, Spec1
<1>3. \A t \in Syncs : sync'[t].step = "cloning" =>
        disk'[Dir[Head(sync'[t].specs)]] = Partial(Head(sync'[t].specs))
  BY <1>1 DEF Inv, CloneInv, SparesOthers, Spec1, At
<1>4. \A t, u \in Syncs :
        sync'[t].step = "cloning" /\ sync'[u].step = "cloning"
        /\ Dir[Head(sync'[t].specs)] = Dir[Head(sync'[u].specs)] => t = u
  BY <1>1 DEF Inv, CloneInv, Spec1
<1> QED BY <1>2, <1>3, <1>4 DEF CloneInv, Spec1, At, Partial, Absent
----------------------------------------------------------------------------
(***************************************************************************)
(* The steps of a run.                                                     *)
(***************************************************************************)

\* A step that only moves the run on.
LEMMA Moves ==
  ASSUME Inv, NEW s \in Syncs, NEW w \in Runs, sync' = [sync EXCEPT ![s] = w],
         UNCHANGED <<upstream, disk, crashes>>, runs' \in [Syncs -> 0..MaxSyncs],
         \/ w.outcomes = << >>
         \/ w.outcomes = sync[s].outcomes /\ w.preview = sync[s].preview,
         w.step # "cloning",
         w.step \in {"clone", "pull"} => w.specs # << >> /\ Dir[Head(w.specs)] # MetaRepo,
         Covered(w)
  PROVE  Inv'
<1>1. sync \in [Syncs -> Runs] BY DEF Inv, TypeOK
<1>2. sync' \in [Syncs -> Runs] /\ sync'[s] = w /\ Others(s) BY <1>1 DEF Others
<1>3. TypeOK' BY <1>2 DEF Inv, TypeOK
<1>4. GitStays /\ SparesOthers(s) BY DEF GitStays, SparesOthers
<1>5. CloneInv' BY <1>2, <1>4, CloneKept
<1>6. DiskInv' BY DEF Inv, DiskInv
<1>7. TruthInv' BY <1>2, <1>4, TruthKept
<1>8. CoverInv' BY <1>2, CoverKept
<1> QED BY <1>3, <1>5, <1>6, <1>7, <1>8 DEF Inv

\* What is written into a directory.
Fits(d, p) ==
  /\ p \in Places /\ (p.kind \in {"partial", "hollow", "git"} <=> p.of # None)
  /\ p.kind \in {"partial", "hollow", "git"} => p.of \in AllRepos /\ Dir[p.of] = d
  /\ \A a \in Done : Shows(a, disk[d]) => Shows(a, p)

LEMMA Written ==
  ASSUME Inv, NEW d \in Dirs, NEW p, Fits(d, p), disk' = [disk EXCEPT ![d] = p]
  PROVE  /\ disk' \in [Dirs -> Places] /\ disk'[d] = p
         /\ \A e \in Dirs : disk'[e].kind \in {"partial", "hollow", "git"} <=> disk'[e].of # None
         /\ DiskInv' /\ GitStays /\ \A e \in Dirs \ {d} : disk'[e] = disk[e]
<1>1. disk \in [Dirs -> Places] /\ \A e \in Dirs : disk[e].kind \in {"partial", "hollow", "git"} <=> disk[e].of # None
  BY DEF Inv, TypeOK
<1>2. disk' \in [Dirs -> Places] /\ disk'[d] = p /\ \A e \in Dirs \ {d} : disk'[e] = disk[e]
  BY <1>1 DEF Fits
<1>3. \A e \in Dirs : disk'[e].kind \in {"partial", "hollow", "git"} <=> disk'[e].of # None
  BY <1>1, <1>2 DEF Fits
<1>4. DiskInv' BY <1>2 DEF Fits, Inv, DiskInv
<1>5. GitStays BY <1>2 DEF Fits, GitStays
<1> QED BY <1>2, <1>3, <1>4, <1>5

\* A step that ends with the outcome of a repository.
LEMMA Reports ==
  ASSUME Inv, NEW s \in Syncs, NEW a \in Actions, sync[s].specs # << >>,
         sync[s].step \notin {"idle", "list"}, Report(s, a), UNCHANGED <<upstream, runs, crashes>>,
         disk' \in [Dirs -> Places], DiskInv', GitStays, SparesOthers(s),
         \A d \in Dirs : disk'[d].kind \in {"partial", "hollow", "git"} <=> disk'[d].of # None,
         a \in Done /\ ~sync[s].preview =>
           Dir[Spec1(s)] # MetaRepo /\ Shows(a, disk'[Dir[Spec1(s)]])
  PROVE  Inv'
<1>1. /\ sync' \in [Syncs -> Runs] /\ Others(s)
      /\ sync'[s] = [sync[s] EXCEPT !.step = "repo", !.specs = Tail(sync[s].specs),
                       !.outcomes = Append(sync[s].outcomes, <<Spec1(s), a>>)]
  BY ReportEffect DEF Inv
<1>2. sync[s] \in Runs BY DEF Inv, TypeOK
<1>3. sync'[s].step = "repo" BY <1>1, <1>2 DEF Runs
<1>4. TypeOK' BY <1>1 DEF Inv, TypeOK
<1>5. CloneInv' BY <1>1, <1>3, CloneKept
<1>6. TruthInv' BY TruthReported
<1>7. CoverInv' BY CoverReported
<1> QED BY <1>4, <1>5, <1>6, <1>7 DEF Inv

\* ... and leaves the disk alone.
LEMMA ReportsOnly ==
  ASSUME Inv, NEW s \in Syncs, NEW a \in Actions, sync[s].specs # << >>,
         sync[s].step \notin {"idle", "list"}, Report(s, a),
         UNCHANGED <<upstream, disk, runs, crashes>>,
         a \in Done => sync[s].preview
  PROVE  Inv'
<1>1. GitStays /\ SparesOthers(s) BY DEF GitStays, SparesOthers
<1>2. disk' \in [Dirs -> Places] /\ DiskInv'
      /\ \A d \in Dirs : disk'[d].kind \in {"partial", "hollow", "git"} <=> disk'[d].of # None
  BY DEF Inv, TypeOK, DiskInv
<1> QED BY <1>1, <1>2, Reports

LEMMA StartStep ==
  ASSUME Inv, NEW s \in Syncs, Start(s)
  PROVE  Inv'
<1>1. PICK m \in Asks(s) : sync' = [sync EXCEPT ![s] =
        [Idle EXCEPT !.step = "list", !.source = 1, !.pull = m.pull, !.preview = m.preview]]
  BY DEF Start
<1> DEFINE w == [Idle EXCEPT !.step = "list", !.source = 1, !.pull = m.pull, !.preview = m.preview]
<1>2. m.pull \in BOOLEAN /\ m.preview \in BOOLEAN
  <2>1. m \in [pull : BOOLEAN, preview : BOOLEAN]
    <3>1. CASE s = Scheduler
      <4>1. m = [pull |-> TRUE, preview |-> FALSE] BY <3>1 DEF Asks
      <4> QED BY <4>1
    <3>2. CASE s # Scheduler
      <4>1. m \in Modes BY <3>2 DEF Asks
      <4> QED BY <4>1, RepoSyncConstants
    <3> QED BY <3>1, <3>2
  <2> QED BY <2>1
<1>3. w \in Runs /\ w.outcomes = << >> /\ w.step = "list" /\ w.source = 1
  <2>1. 1 \in 0..Len(Sources) + 1 BY Listed
  <2>2. << >> \in Seq(AllRepos) /\ << >> \in Seq(AllRepos \X Actions) OBVIOUS
  <2> QED BY <1>2, <2>1, <2>2 DEF Idle, Runs
<1>4. Covered(w) BY <1>3, Listed DEF Covered
<1>5. runs' \in [Syncs -> 0..MaxSyncs]
  <2>1. runs \in [Syncs -> 0..MaxSyncs] /\ MaxSyncs \in Nat
    BY RepoSyncConstants DEF Inv, TypeOK
  <2>2. CASE s = Scheduler BY <2>1, <2>2 DEF Start
  <2>3. CASE s # Scheduler
    <3>1. runs' = [runs EXCEPT ![s] = @ + 1] /\ runs[s] < MaxSyncs BY <2>3 DEF Start
    <3>2. runs[s] + 1 \in 0..MaxSyncs BY <2>1, <3>1
    <3> QED BY <2>1, <3>1, <3>2
  <2> QED BY <2>2, <2>3
<1>6. UNCHANGED <<upstream, disk, crashes>> BY DEF Start
<1>7. sync' = [sync EXCEPT ![s] = w] BY <1>1
<1> HIDE DEF w
<1> QED BY <1>3, <1>4, <1>5, <1>6, <1>7, Moves

\* A listing is one of the group's repositories.
LEMMA Yields ==
  ASSUME NEW i \in 1..Len(Sources), NEW l \in Listings(Sources[i])
  PROVE  l \in Seq(AllRepos)
<1> DEFINE g == Sources[i]
<1>1. g \in Groups /\ Repos[g] \in Seq(AllRepos) /\ Limit[g] \in Nat BY Listed
<1>2. CASE Whole(g) BY <1>1, <1>2 DEF Listings
<1>3. CASE ~Whole(g)
  <2>1. Range(Repos[g]) \subseteq AllRepos BY <1>1 DEF Range
  <2>2. l \in [1..Limit[g] -> Range(Repos[g])] BY <1>3 DEF Listings
  <2>3. l \in [1..Limit[g] -> AllRepos] BY <2>1, <2>2
  <2> QED BY <1>1, <2>3
<1> QED BY <1>2, <1>3

LEMMA ListStep ==
  ASSUME Inv, NEW s \in Syncs, List(s)
  PROVE  Inv'
<1>1. sync \in [Syncs -> Runs] /\ sync[s] \in Runs BY DEF Inv, TypeOK
<1>2. sync[s].step = "list" /\ sync[s].source <= Len(Sources) BY DEF List
<1>3. Covered(sync[s]) BY DEF Inv, CoverInv
<1>4. sync[s].source \in 1..Len(Sources) BY <1>2, <1>3, Listed DEF Covered
<1>5. PICK l \in Listings(Sources[sync[s].source]) :
        sync' = [sync EXCEPT ![s].step = "repo", ![s].specs = l]
  BY DEF List
<1>6. l \in Seq(AllRepos) BY <1>4, <1>5, Yields
<1> DEFINE w == [sync[s] EXCEPT !.step = "repo", !.specs = l]
<1>7. sync' = [sync EXCEPT ![s] = w] BY <1>1, <1>5
<1>8. /\ w \in Runs /\ w.step = "repo" /\ w.source = sync[s].source /\ w.specs = l
      /\ w.outcomes = sync[s].outcomes /\ w.preview = sync[s].preview
  BY <1>1, <1>6 DEF Runs
<1> HIDE DEF w
<1>9. \A x : Accounted(sync[s], x) => Accounted(w, x) BY <1>8 DEF Accounted
<1>10. \A i \in 1..w.source - 1 : Through(w, i) BY <1>2, <1>3, <1>8, <1>9 DEF Covered, Through
<1>11. Within(w, w.source)
  <2>1. l \in Listings(Sources[w.source]) /\ \A x \in Range(l) : Left(w, x)
    BY <1>5, <1>8 DEF Left
  <2> QED BY <2>1 DEF Within
<1>12. Covered(w) BY <1>2, <1>3, <1>4, <1>8, <1>10, <1>11 DEF Covered
<1>13. UNCHANGED <<upstream, disk, crashes>> /\ runs' \in [Syncs -> 0..MaxSyncs]
  BY DEF List, Inv, TypeOK
<1> QED BY <1>7, <1>8, <1>12, <1>13, Moves

LEMMA EndStep ==
  ASSUME Inv, NEW s \in Syncs, ListFails(s) \/ Finish(s)
  PROVE  Inv'
<1>1. sync' = [sync EXCEPT ![s] = Idle] /\ UNCHANGED <<upstream, disk, crashes>> /\ runs' = runs
  BY DEF ListFails, Finish
<1>2. Idle \in Runs /\ Idle.step = "idle" /\ Idle.outcomes = << >> BY Listed DEF Idle, Runs
<1>3. Covered(Idle) BY <1>2 DEF Covered
<1>4. runs' \in [Syncs -> 0..MaxSyncs] BY <1>1 DEF Inv, TypeOK
<1> QED BY <1>1, <1>2, <1>3, <1>4, Moves

LEMMA NextSourceStep ==
  ASSUME Inv, NEW s \in Syncs, NextSource(s)
  PROVE  Inv'
<1> DEFINE w == [sync[s] EXCEPT !.step = "list", !.source = @ + 1]
<1>1. sync \in [Syncs -> Runs] /\ sync[s] \in Runs BY DEF Inv, TypeOK
<1>2. sync[s].step = "repo" /\ sync[s].specs = << >> /\ sync' = [sync EXCEPT ![s] = w]
  BY <1>1 DEF NextSource
<1>3. Covered(sync[s]) BY DEF Inv, CoverInv
<1>4. sync[s].source \in 1..Len(Sources) BY <1>2, <1>3 DEF Covered
<1>5. sync[s].source + 1 \in 0..Len(Sources) + 1 /\ sync[s].source + 1 \in 1..Len(Sources) + 1
  BY <1>4, Listed
<1>6. /\ w \in Runs /\ w.step = "list" /\ w.source = sync[s].source + 1
      /\ w.outcomes = sync[s].outcomes /\ w.preview = sync[s].preview
  BY <1>1, <1>5 DEF Runs
<1> HIDE DEF w
<1>7. \A x : Accounted(sync[s], x) <=> Accounted(w, x) BY <1>6 DEF Accounted
<1>8. \A i \in 1..sync[s].source - 1 : Through(w, i)
  BY <1>2, <1>3, <1>7 DEF Covered, Through
<1>9. Through(w, sync[s].source)
  <2>1. PICK l \in Listings(Sources[sync[s].source]) : \A x \in Range(l) : Left(sync[s], x)
    BY <1>2, <1>3 DEF Covered, Within
  <2>2. Range(sync[s].specs) = {} BY <1>2 DEF Range
  <2>3. \A x \in Range(l) : Accounted(w, x) BY <1>7, <2>1, <2>2 DEF Left
  <2> QED BY <2>1, <2>3 DEF Through
<1>10. \A i \in 1..w.source - 1 : i \in 1..sync[s].source - 1 \/ i = sync[s].source
  BY <1>4, <1>6, Listed
<1>11. Covered(w) BY <1>5, <1>6, <1>8, <1>9, <1>10 DEF Covered
<1>12. UNCHANGED <<upstream, disk, crashes>> /\ runs' \in [Syncs -> 0..MaxSyncs]
  BY DEF NextSource, Inv, TypeOK
<1> QED BY <1>2, <1>6, <1>11, <1>12, Moves

LEMMA PassMetaRepoStep ==
  ASSUME Inv, NEW s \in Syncs, PassMetaRepo(s)
  PROVE  Inv'
<1> DEFINE w == [sync[s] EXCEPT !.specs = Tail(@)]
<1>1. sync \in [Syncs -> Runs] /\ sync[s] \in Runs /\ sync[s].specs \in Seq(AllRepos)
  BY DEF Inv, TypeOK, Runs
<1>2. /\ sync[s].step = "repo" /\ sync[s].specs # << >> /\ Dir[Head(sync[s].specs)] = MetaRepo
      /\ sync' = [sync EXCEPT ![s] = w]
  BY <1>1 DEF PassMetaRepo, AtRepo, Spec1
<1>3. Tail(sync[s].specs) \in Seq(AllRepos) BY <1>1, <1>2, HeadAndTail
<1>4. /\ w \in Runs /\ w.step = "repo" /\ w.source = sync[s].source
      /\ w.specs = Tail(sync[s].specs)
      /\ w.outcomes = sync[s].outcomes /\ w.preview = sync[s].preview
  BY <1>1, <1>2, <1>3 DEF Runs
<1> HIDE DEF w
<1>5. \A x \in Range(sync[s].specs) : x \in Range(w.specs) \/ Accounted(w, x)
  BY <1>1, <1>2, <1>4, HeadAndTail DEF Accounted
<1>6. \A x : Accounted(sync[s], x) => Accounted(w, x) BY <1>4 DEF Accounted
<1>7. \A x : Left(sync[s], x) => Left(w, x) BY <1>5, <1>6 DEF Left
<1>8. Covered(sync[s]) BY DEF Inv, CoverInv
<1>9. Covered(w) BY <1>2, <1>4, <1>6, <1>7, <1>8, CoverGrows
<1>10. UNCHANGED <<upstream, disk, crashes>> /\ runs' \in [Syncs -> 0..MaxSyncs]
  BY DEF PassMetaRepo, Inv, TypeOK
<1> QED BY <1>2, <1>4, <1>9, <1>10, Moves

LEMMA VerdictsAre ==
  ASSUME NEW s \in Syncs, NEW v \in Verdicts(s)
  PROVE  \/ v \in {"clone", "pull"}
         \/ v \in Actions /\ (v \in Done => sync[s].preview)
<1> DEFINE d == Dir[Spec1(s)]
<1>1. CASE disk[d] = Absent BY <1>1 DEF Verdicts, Actions
<1>2. CASE disk[d] # Absent /\ (~IsGit(d) \/ ~sync[s].pull) BY <1>2 DEF Verdicts, Actions, Done
<1>3. CASE disk[d] # Absent /\ ~(~IsGit(d) \/ ~sync[s].pull)
  <2>1. v \in {"skipped-detached", "skipped-dirty", IF sync[s].preview THEN "updated" ELSE "pull"}
    BY <1>3 DEF Verdicts
  <2> QED BY <2>1 DEF Actions, Done
<1> QED BY <1>1, <1>2, <1>3

LEMMA CheckStep ==
  ASSUME Inv, NEW s \in Syncs, Check(s)
  PROVE  Inv'
<1>1. /\ sync[s].step = "repo" /\ sync[s].specs # << >> /\ Dir[Head(sync[s].specs)] # MetaRepo
      /\ UNCHANGED <<upstream, disk, runs, crashes>>
  BY DEF Check, AtRepo, Spec1
<1>2. PICK v \in Verdicts(s) :
        IF v \in {"clone", "pull"} THEN sync' = [sync EXCEPT ![s].step = v] ELSE Report(s, v)
  BY DEF Check
<1>3. CASE v \in {"clone", "pull"}
  <2> DEFINE w == [sync[s] EXCEPT !.step = v]
  <2>1. sync \in [Syncs -> Runs] /\ sync[s] \in Runs BY DEF Inv, TypeOK
  <2>2. sync' = [sync EXCEPT ![s] = w] BY <1>2, <1>3, <2>1
  <2>3. /\ w \in Runs /\ w.step = v /\ w.source = sync[s].source /\ w.specs = sync[s].specs
        /\ w.outcomes = sync[s].outcomes /\ w.preview = sync[s].preview
    BY <1>3, <2>1 DEF Runs
  <2> HIDE DEF w
  <2>4. Covered(w) BY <1>1, <2>3, CoveredSame
  <2>5. UNCHANGED <<upstream, disk, crashes>> /\ runs' \in [Syncs -> 0..MaxSyncs]
    BY <1>1 DEF Inv, TypeOK
  <2>6. w.step # "cloning" BY <1>3, <2>3
  <2> QED BY <1>1, <2>2, <2>3, <2>4, <2>5, <2>6, Moves
<1>4. CASE v \notin {"clone", "pull"}
  <2>1. v \in Actions /\ (v \in Done => sync[s].preview) BY <1>4, VerdictsAre
  <2>2. Report(s, v) BY <1>2, <1>4
  <2> QED BY <1>1, <2>1, <2>2, ReportsOnly
<1> QED BY <1>3, <1>4

\* Where a run clones or pulls.
LEMMA Working ==
  ASSUME Inv, NEW s \in Syncs, sync[s].step \in {"clone", "cloning", "pull"}
  PROVE  /\ sync[s].specs # << >> /\ Spec1(s) \in AllRepos /\ Dir[Spec1(s)] \in Dirs
         /\ Dir[Spec1(s)] # MetaRepo /\ sync[s].step \notin {"idle", "list"}
<1>1. sync[s].specs \in Seq(AllRepos) BY DEF Inv, TypeOK, Runs
<1>2. sync[s].specs # << >> /\ Dir[Spec1(s)] # MetaRepo BY DEF Inv, CloneInv
<1>3. Spec1(s) \in AllRepos BY <1>1, <1>2, HeadAndTail DEF Spec1
<1> QED BY <1>2, <1>3, Listed

\* A directory that another run is cloning into is half cloned.
LEMMA ClonedInto ==
  ASSUME Inv, NEW t \in Syncs, sync[t].step = "cloning"
  PROVE  disk[Dir[Spec1(t)]].kind = "partial" /\ Dir[Spec1(t)] \in Dirs
<1>1. disk[Dir[Spec1(t)]] = Partial(Spec1(t)) BY DEF Inv, CloneInv, At
<1> QED BY <1>1, Working DEF Partial, Absent

LEMMA CloneStep ==
  ASSUME Inv, NEW s \in Syncs, Clone(s)
  PROVE  Inv'
<1> DEFINE x == Spec1(s)
           d == Dir[x]
<1>1. sync[s].step = "clone" /\ UNCHANGED <<upstream, runs, crashes>> BY DEF Clone
<1>2. /\ sync[s].specs # << >> /\ x \in AllRepos /\ d \in Dirs /\ d # MetaRepo
      /\ sync[s].step \notin {"idle", "list"}
  BY <1>1, Working
<1>3. CASE At(s) # Absent
  <2>1. Report(s, "failed") /\ UNCHANGED disk BY <1>3 DEF Clone
  <2>2. "failed" \in Actions /\ "failed" \notin Done BY DEF Actions, Done
  <2> QED BY <1>1, <1>2, <2>1, <2>2, ReportsOnly
<1>4. CASE At(s) = Absent
  <2> DEFINE w == [sync[s] EXCEPT !.step = "cloning"]
  <2>1. sync \in [Syncs -> Runs] /\ sync[s] \in Runs BY DEF Inv, TypeOK
  <2>2. disk' = [disk EXCEPT ![d] = Partial(x)] /\ sync' = [sync EXCEPT ![s] = w]
    BY <1>4, <2>1 DEF Clone
  <2>3. /\ w \in Runs /\ w.step = "cloning" /\ w.source = sync[s].source
        /\ w.specs = sync[s].specs /\ w.outcomes = sync[s].outcomes
        /\ w.preview = sync[s].preview
    BY <2>1 DEF Runs
  <2> HIDE DEF w
  <2>4. sync' \in [Syncs -> Runs] /\ sync'[s] = w /\ Others(s) BY <2>1, <2>2, <2>3 DEF Others
  <2>5. disk[d] = Absent /\ disk[d].kind = "absent" BY <1>4 DEF At, Absent
  <2>6. Fits(d, Partial(x)) BY <1>2, <2>5, RepoSyncConstants DEF Fits, Partial, Absent, Places, Shows
  <2>7. /\ disk' \in [Dirs -> Places] /\ disk'[d] = Partial(x)
        /\ \A e \in Dirs : disk'[e].kind \in {"partial", "hollow", "git"} <=> disk'[e].of # None
        /\ DiskInv' /\ GitStays /\ \A e \in Dirs \ {d} : disk'[e] = disk[e]
    BY <1>2, <2>2, <2>6, Written
  <2>8. TypeOK' BY <1>1, <2>4, <2>7 DEF Inv, TypeOK
  <2>9. TruthInv' BY <2>3, <2>4, <2>7, TruthKept
  <2>10. Covered(w) BY <1>2, <2>3, CoveredSame
  <2>11. CoverInv' BY <2>4, <2>10, CoverKept
  <2>12. Head(sync'[s].specs) = x BY <2>3, <2>4 DEF Spec1
  <2>13. \A t \in Syncs \ {s} : sync'[t] = sync[t] BY <2>4 DEF Others
  <2>14. ASSUME NEW t \in Syncs \ {s}, sync[t].step = "cloning"
         PROVE  Dir[Spec1(t)] # d /\ disk'[Dir[Spec1(t)]] = disk[Dir[Spec1(t)]]
    BY <2>5, <2>7, <2>14, ClonedInto
  <2>15. \A t \in Syncs : sync'[t].step \in {"clone", "cloning", "pull"} =>
           sync'[t].specs # << >> /\ Dir[Head(sync'[t].specs)] # MetaRepo
    BY <1>2, <2>3, <2>4, <2>12, <2>13 DEF Inv, CloneInv, Spec1
  <2>16. \A t \in Syncs : sync'[t].step = "cloning" =>
           disk'[Dir[Head(sync'[t].specs)]] = Partial(Head(sync'[t].specs))
    BY <2>7, <2>12, <2>13, <2>14 DEF Inv, CloneInv, Spec1, At
  <2>17. \A t, u \in Syncs :
           sync'[t].step = "cloning" /\ sync'[u].step = "cloning"
           /\ Dir[Head(sync'[t].specs)] = Dir[Head(sync'[u].specs)] => t = u
    BY <2>12, <2>13, <2>14 DEF Inv, CloneInv, Spec1
  <2>18. CloneInv' BY <2>15, <2>16, <2>17 DEF CloneInv, Spec1, At, Partial, Absent
  <2> QED BY <2>7, <2>8, <2>9, <2>11, <2>18 DEF Inv
<1> QED BY <1>3, <1>4

LEMMA CloneEndsStep ==
  ASSUME Inv, NEW s \in Syncs, CloneSucceeds(s) \/ CloneFails(s)
  PROVE  Inv'
<1> DEFINE x == Spec1(s)
           d == Dir[x]
<1>1. sync[s].step = "cloning" /\ UNCHANGED <<upstream, runs, crashes>>
  BY DEF CloneSucceeds, CloneFails
<1>2. /\ sync[s].specs # << >> /\ x \in AllRepos /\ d \in Dirs /\ d # MetaRepo
      /\ sync[s].step \notin {"idle", "list"}
  BY <1>1, Working
<1>3. disk[d].kind = "partial" BY <1>1, ClonedInto
<1>4. \A t \in Syncs \ {s} : sync[t].step = "cloning" => Dir[Spec1(t)] \in Dirs \ {d}
  BY <1>1, ClonedInto DEF Inv, CloneInv
<1>5. CASE CloneSucceeds(s)
  <2>1. disk' = [disk EXCEPT ![d] = Cloned(x)] /\ Report(s, "cloned")
    BY <1>5 DEF CloneSucceeds
  <2>2. upstream[x] \in Nat BY <1>2 DEF Inv, TypeOK
  <2>3. Fits(d, Cloned(x)) /\ Shows("cloned", Cloned(x))
    BY <1>2, <2>2, RepoSyncConstants DEF Fits, Cloned, Places, Shows
  <2>4. /\ disk' \in [Dirs -> Places] /\ disk'[d] = Cloned(x)
        /\ \A e \in Dirs : disk'[e].kind \in {"partial", "hollow", "git"} <=> disk'[e].of # None
        /\ DiskInv' /\ GitStays /\ \A e \in Dirs \ {d} : disk'[e] = disk[e]
    BY <1>2, <2>1, <2>3, Written
  <2>5. SparesOthers(s) BY <1>4, <2>4 DEF SparesOthers
  <2>6. "cloned" \in Actions BY DEF Actions
  <2> QED BY <1>1, <1>2, <2>1, <2>3, <2>4, <2>5, <2>6, Reports
<1>6. CASE CloneFails(s)
  <2>1. PICK c \in {Absent, Hollow(x)} : disk' = [disk EXCEPT ![d] = c] /\ Report(s, "failed")
    BY <1>6 DEF CloneFails
  <2>2. Fits(d, c)
    <3>1. upstream[x] \in Nat BY <1>2 DEF Inv, TypeOK
    <3>2. Fits(d, Absent) BY <1>3 DEF Fits, Absent, Places, Shows
    <3>3. Fits(d, Hollow(x))
      BY <1>2, <1>3, <3>1, RepoSyncConstants DEF Fits, Hollow, Places, Shows
    <3> QED BY <2>1, <3>2, <3>3
  <2>3. /\ disk' \in [Dirs -> Places]
        /\ \A e \in Dirs : disk'[e].kind \in {"partial", "hollow", "git"} <=> disk'[e].of # None
        /\ DiskInv' /\ GitStays /\ \A e \in Dirs \ {d} : disk'[e] = disk[e]
    BY <1>2, <2>1, <2>2, Written
  <2>4. SparesOthers(s) BY <1>4, <2>3 DEF SparesOthers
  <2>5. "failed" \in Actions /\ "failed" \notin Done BY DEF Actions, Done
  <2> QED BY <1>1, <1>2, <2>1, <2>3, <2>4, <2>5, Reports
<1> QED BY <1>5, <1>6

LEMMA PullStep ==
  ASSUME Inv, NEW s \in Syncs, Pull(s)
  PROVE  Inv'
<1> DEFINE x == Spec1(s)
           d == Dir[x]
           head == IF IsGit(d) THEN upstream[disk[d].of] ELSE 0
           p == [disk[d] EXCEPT !.rev = head]
<1>1. sync[s].step = "pull" /\ UNCHANGED <<upstream, runs, crashes>> BY DEF Pull
<1>2. /\ sync[s].specs # << >> /\ x \in AllRepos /\ d \in Dirs /\ d # MetaRepo
      /\ sync[s].step \notin {"idle", "list"}
  BY <1>1, Working
<1>3. CASE /\ disk[d].kind \in {"hollow", "git"} /\ disk' = [disk EXCEPT ![d].rev = head]
           /\ Report(s, IF head # disk[d].rev THEN "updated" ELSE "up-to-date")
  <2>1. disk \in [Dirs -> Places] /\ upstream \in [AllRepos -> Nat] BY DEF Inv, TypeOK
  <2>2. disk[d].of \in AllRepos /\ Dir[disk[d].of] = d BY <1>2, <1>3 DEF Inv, DiskInv
  <2>3. head \in Nat BY <1>3, <2>1, <2>2 DEF IsGit
  <2>4. disk' = [disk EXCEPT ![d] = p] BY <1>3, <2>1
  <2>5. disk[d] \in Places BY <1>2, <2>1
  <2> HIDE DEF head
  <2>6. p \in Places /\ p.kind = disk[d].kind /\ p.of = disk[d].of BY <1>3, <2>3, <2>5 DEF Places
  <2> HIDE DEF p
  <2>7. Fits(d, p) BY <1>3, <2>2, <2>6, RepoSyncConstants DEF Fits, Shows
  <2>8. /\ disk' \in [Dirs -> Places] /\ disk'[d] = p
        /\ \A e \in Dirs : disk'[e].kind \in {"partial", "hollow", "git"} <=> disk'[e].of # None
        /\ DiskInv' /\ GitStays /\ \A e \in Dirs \ {d} : disk'[e] = disk[e]
    BY <1>2, <2>4, <2>7, Written
  <2>9. \A t \in Syncs \ {s} : sync[t].step = "cloning" => Dir[Spec1(t)] \in Dirs \ {d}
    BY <1>3, ClonedInto
  <2>10. SparesOthers(s) BY <2>8, <2>9 DEF SparesOthers
  <2>11. PICK a \in {"updated", "up-to-date"} : Report(s, a) BY <1>3
  <2>12. a \in Actions /\ Shows(a, p) BY <1>3, <2>6, <2>11 DEF Actions, Shows
  <2> QED BY <1>1, <1>2, <2>6, <2>8, <2>10, <2>11, <2>12, Reports
<1>4. CASE Report(s, "failed") /\ UNCHANGED disk
  <2>1. "failed" \in Actions /\ "failed" \notin Done BY DEF Actions, Done
  <2> QED BY <1>1, <1>2, <1>4, <2>1, ReportsOnly
<1> QED BY <1>3, <1>4 DEF Pull

\* A step of no run: the runs are as they were, or (the machine having stopped) over.
LEMMA WorkStep ==
  ASSUME Inv, NEW d \in Edited, Work(d)
  PROVE  Inv'
<1>1. d \in Dirs BY RepoSyncConstants
<1>2. disk[d].kind = "git" /\ UNCHANGED <<upstream, sync, runs, crashes>> BY DEF Work
<1>3. disk \in [Dirs -> Places] /\ disk[d] \in Places BY <1>1 DEF Inv, TypeOK
<1>4. disk[d].of \in AllRepos /\ Dir[disk[d].of] = d BY <1>1, <1>2 DEF Inv, DiskInv
<1>5. PICK p : disk' = [disk EXCEPT ![d] = p] /\ Fits(d, p)
  <2>1. CASE disk' = [disk EXCEPT ![d].dirty = ~@]
    <3> DEFINE p == [disk[d] EXCEPT !.dirty = ~@]
    <3>1. p \in Places /\ p.kind = "git" /\ p.of = disk[d].of BY <1>2, <1>3 DEF Places
    <3>2. disk' = [disk EXCEPT ![d] = p] BY <1>3, <2>1
    <3> HIDE DEF p
    <3>3. Fits(d, p) BY <1>2, <1>4, <3>1, RepoSyncConstants DEF Fits, Shows
    <3> QED BY <3>2, <3>3
  <2>2. CASE disk' = [disk EXCEPT ![d].detached = ~@]
    <3> DEFINE p == [disk[d] EXCEPT !.detached = ~@]
    <3>1. p \in Places /\ p.kind = "git" /\ p.of = disk[d].of BY <1>2, <1>3 DEF Places
    <3>2. disk' = [disk EXCEPT ![d] = p] BY <1>3, <2>2
    <3> HIDE DEF p
    <3>3. Fits(d, p) BY <1>2, <1>4, <3>1, RepoSyncConstants DEF Fits, Shows
    <3> QED BY <3>2, <3>3
  <2> QED BY <2>1, <2>2 DEF Work
<1>6. /\ disk' \in [Dirs -> Places]
      /\ \A e \in Dirs : disk'[e].kind \in {"partial", "hollow", "git"} <=> disk'[e].of # None
      /\ DiskInv' /\ GitStays /\ \A e \in Dirs \ {d} : disk'[e] = disk[e]
  BY <1>1, <1>5, Written
<1>7. TypeOK' BY <1>2, <1>6 DEF Inv, TypeOK
<1>8. CASE Syncs = {} BY <1>2, <1>6, <1>7, <1>8 DEF Inv, CloneInv, TruthInv, CoverInv
<1>9. ASSUME NEW s \in Syncs PROVE Inv'
  <2>1. Others(s) BY <1>2 DEF Others
  <2>2. TruthInv' BY <1>2, <1>6, <2>1, TruthKept
  <2>3. CoverInv' BY <1>2 DEF Inv, CoverInv
  <2>4. \A t \in Syncs : sync[t].step = "cloning" => disk'[Dir[Spec1(t)]] = disk[Dir[Spec1(t)]]
    BY <1>2, <1>6, ClonedInto
  <2>5. CloneInv' BY <1>2, <2>4 DEF Inv, CloneInv, Spec1, At, Partial, Absent
  <2> QED BY <1>6, <1>7, <2>2, <2>3, <2>5 DEF Inv
<1> QED BY <1>8, <1>9

LEMMA PushStep ==
  ASSUME Inv, NEW x \in AllRepos, Push(x)
  PROVE  Inv'
<1>1. upstream' = [upstream EXCEPT ![x] = @ + 1] /\ UNCHANGED <<disk, sync, runs, crashes>>
  BY DEF Push
<1>2. upstream' \in [AllRepos -> Nat] BY <1>1 DEF Inv, TypeOK
<1>3. TypeOK' BY <1>1, <1>2 DEF Inv, TypeOK
<1>4. CloneInv' BY <1>1 DEF Inv, CloneInv, Spec1, At, Partial, Absent
<1>5. DiskInv' /\ TruthInv' BY <1>1 DEF Inv, DiskInv, TruthInv
<1>6. CoverInv' BY <1>1 DEF Inv, CoverInv
<1> QED BY <1>3, <1>4, <1>5, <1>6 DEF Inv

LEMMA CrashStep ==
  ASSUME Inv, Crash
  PROVE  Inv'
<1>1. Idle \in Runs /\ Idle.step = "idle" /\ Idle.outcomes = << >>
  <2>1. << >> \in Seq(AllRepos) /\ << >> \in Seq(AllRepos \X Actions) OBVIOUS
  <2> QED BY <2>1, Listed DEF Idle, Runs
<1>2. sync' = [s \in Syncs |-> Idle] /\ UNCHANGED <<upstream, disk, runs>> BY DEF Crash
<1>3. crashes' \in 0..MaxCrashes BY RepoSyncConstants DEF Crash, Inv, TypeOK
<1>4. TypeOK' BY <1>1, <1>2, <1>3 DEF Inv, TypeOK
<1>5. CloneInv' /\ CoverInv' BY <1>1, <1>2 DEF CloneInv, CoverInv, Covered
<1>6. DiskInv' BY <1>2 DEF Inv, DiskInv
<1>7. TruthInv' BY <1>1, <1>2 DEF TruthInv
<1> QED BY <1>4, <1>5, <1>6, <1>7 DEF Inv

LEMMA InvNext == Inv /\ [Next]_vars => Inv'
<1> SUFFICES ASSUME Inv, [Next]_vars PROVE Inv'
  OBVIOUS
<1>1. ASSUME NEW s \in Syncs, Start(s) \/ SyncStep(s) PROVE Inv'
  BY <1>1, StartStep, ListStep, EndStep, NextSourceStep, PassMetaRepoStep, CheckStep,
     CloneStep, CloneEndsStep, PullStep DEF SyncStep
<1>2. ASSUME NEW x \in AllRepos, Push(x) PROVE Inv' BY <1>2, PushStep
<1>3. ASSUME NEW d \in Edited, Work(d) PROVE Inv' BY <1>3, WorkStep
<1>4. CASE Crash BY <1>4, CrashStep
<1>5. CASE UNCHANGED vars
  <2>1. TypeOK' /\ DiskInv' /\ TruthInv' BY <1>5 DEF vars, Inv, TypeOK, DiskInv, TruthInv
  <2>2. CloneInv' BY <1>5 DEF vars, Inv, CloneInv, Spec1, At, Partial, Absent
  <2>3. CoverInv' BY <1>5 DEF vars, Inv, CoverInv
  <2> QED BY <2>1, <2>2, <2>3 DEF Inv
<1> QED BY <1>1, <1>2, <1>3, <1>4, <1>5 DEF Next

LEMMA Invariance == Spec => []Inv
<1>1. Init => Inv BY InvInit
<1>2. Inv /\ [Next]_vars => Inv' BY InvNext
<1> QED BY <1>1, <1>2, PTL DEF Spec
----------------------------------------------------------------------------
(***************************************************************************)
(* The theorems.                                                           *)
(***************************************************************************)

\* Every directory is what it can be, and every run's place in its source's
\* listing exists, however many sources and callers there are.
THEOREM TypeCorrect == Spec => []TypeOK
<1>1. Inv => TypeOK BY DEF Inv
<1> QED BY <1>1, Invariance, PTL

\* What a real run says of a repository is true of its directory when the run
\* ends, for any forge, any faults and anything the user and other runs do.
THEOREM OutcomesTrue == Spec => OutcomesAreTrue
<1> DEFINE Says(s) == (Finish(s) \/ ListFails(s)) /\ ~sync[s].preview =>
             \A x \in AllRepos :
               /\ Reported(sync[s], x) \cap {"cloned", "updated", "up-to-date"} # {}
               /\ \A y \in AllRepos \ {x} : Dir[y] # Dir[x]
               => /\ disk[Dir[x]].kind \in {"git", "hollow"} /\ disk[Dir[x]].of = x
                  /\ "cloned" \in Reported(sync[s], x) => disk[Dir[x]].kind = "git"
<1>1. ASSUME Inv, NEW s \in Syncs, ~sync[s].preview, NEW x \in AllRepos, NEW a \in Done,
             a \in Reported(sync[s], x), \A y \in AllRepos \ {x} : Dir[y] # Dir[x]
      PROVE  Shows(a, disk[Dir[x]]) /\ disk[Dir[x]].of = x
  <2>1. PICK i \in DOMAIN sync[s].outcomes :
          sync[s].outcomes[i][1] = x /\ sync[s].outcomes[i][2] = a
    BY <1>1 DEF Reported
  <2>2. Dir[x] # MetaRepo /\ Shows(a, disk[Dir[x]]) BY <1>1, <2>1 DEF Inv, TruthInv
  <2>3. Dir[x] \in Dirs BY <2>2, Listed
  <2>4. disk[Dir[x]].of \in AllRepos /\ Dir[disk[Dir[x]].of] = Dir[x]
    BY <2>2, <2>3, <1>1 DEF Inv, DiskInv, Shows
  <2> QED BY <1>1, <2>2, <2>4
<1>2. Inv => \A s \in Syncs : Says(s)
  <2>1. "cloned" \in Done /\ Done = {"cloned", "updated", "up-to-date"} BY DEF Done
  <2> QED BY <1>1, <2>1 DEF Shows
<1>3. Inv => [\A s \in Syncs : Says(s)]_vars BY <1>2
<1> QED BY <1>3, Invariance, PTL DEF OutcomesAreTrue

\* A run that ends well has accounted, for each source, for all of some listing of
\* it, the meta repository aside: every repository of a source within the limit, as
\* many as the limit of a larger one, whichever the forge listed.
THEOREM NoneMissing == Spec => OkMeansAll
<1> DEFINE Told(s) == Finish(s) =>
             \A i \in DOMAIN Sources : \E l \in Listings(Sources[i]) :
               \A x \in Range(l) : Dir[x] = MetaRepo \/ Reported(sync[s], x) # {}
<1>1. ASSUME Inv, NEW s \in Syncs, Finish(s), NEW i \in DOMAIN Sources
      PROVE  \E l \in Listings(Sources[i]) :
               \A x \in Range(l) : Dir[x] = MetaRepo \/ Reported(sync[s], x) # {}
  <2>1. sync[s].step = "list" /\ sync[s].source > Len(Sources) BY <1>1 DEF Finish
  <2>2. Covered(sync[s]) BY <1>1 DEF Inv, CoverInv
  <2>3. sync[s].source \in 1..Len(Sources) + 1 BY <2>1, <2>2 DEF Covered
  <2>4. i \in 1..sync[s].source - 1 BY <2>1, <2>3, Listed
  <2>5. PICK l \in Listings(Sources[i]) : \A x \in Range(l) : Accounted(sync[s], x)
    BY <2>1, <2>2, <2>4 DEF Covered, Through
  <2>6. \A x : Accounted(sync[s], x) => Dir[x] = MetaRepo \/ Reported(sync[s], x) # {}
    BY DEF Accounted, Has, Reported
  <2> QED BY <2>5, <2>6
<1>2. Inv => \A s \in Syncs : Told(s) BY <1>1
<1>3. Inv => [\A s \in Syncs : Told(s)]_vars BY <1>2
<1> QED BY <1>3, Invariance, PTL DEF OkMeansAll
============================================================================
