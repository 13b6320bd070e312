------------------------- MODULE ConnectionsProofs -------------------------
(***************************************************************************)
(* Proofs about Connections, for any presets, hosts and tokens:            *)
(*   - for any number of writers and readers and any faults, the types,    *)
(*     that a token only goes to hosts of connections that share the item  *)
(*     it was stored in, and that an entry is listed only once its secret  *)
(*     has been stored;                                                    *)
(*   - for one writer beside any readers, that ids are not doubled, and    *)
(*     that what `connect` and `disconnect` told their caller stays true;  *)
(*   - for one actor and no faults, that the registry and the keychain     *)
(*     implement the atomic store of module ConnectionStore.               *)
(***************************************************************************)
EXTENDS Connections, TLAPS, FiniteSetTheorems

(***************************************************************************)
(* Lemmas on the registry as a value.                                      *)
(***************************************************************************)

\* Migrating keeps a connection known, and keeps its id and hosts.
LEMMA MigrateKnown ==
  ASSUME NEW c \in Known
  PROVE  /\ c \in ConnType /\ Migrate(c) \in Known
         /\ Migrate(c).id = c.id /\ Migrate(c).hosts = c.hosts
<1>1. \A d \in Legacy : Migrate(d) \in ConnType
  <2> SUFFICES ASSUME NEW d \in Legacy PROVE Migrate(d) \in ConnType
    OBVIOUS
  <2>1. CASE d.refs = <<>> /\ d.legacy # None
    <3>1. d \in ConnType BY ConstantTypes
    <3>2. d.legacy \in Locs BY <2>1, <3>1 DEF ConnType, Locs
    <3>3. <<d.legacy>> \in Seq(Locs) BY <3>2
    <3> QED BY <2>1, <3>1, <3>3 DEF Migrate, ConnType
  <2>2. CASE ~(d.refs = <<>> /\ d.legacy # None)
    BY <2>2, ConstantTypes DEF Migrate
  <2> QED BY <2>1, <2>2
<1>2. c \in ConnType BY <1>1, ConstantTypes DEF Known
<1>3. CASE c.refs = <<>> /\ c.legacy # None
  <2>1. c \in Legacy
    <3>1. c \notin Presets \cup Defaults BY <1>3, ConstantTypes
    <3>2. ASSUME NEW d \in Legacy, c = Migrate(d) PROVE c \in Legacy
      <4>1. CASE d.refs = <<>> /\ d.legacy # None
        <5>1. d \in ConnType BY ConstantTypes
        <5>2. c.refs = <<d.legacy>> BY <3>2, <4>1, <5>1 DEF Migrate, ConnType
        <5> QED BY <5>2, <1>3
      <4>2. CASE ~(d.refs = <<>> /\ d.legacy # None)
        BY <3>2, <4>2 DEF Migrate
      <4> QED BY <4>1, <4>2
    <3> QED BY <3>1, <3>2 DEF Known
  <2> QED BY <1>2, <1>3, <2>1 DEF Migrate, Known, ConnType
<1>4. CASE ~(c.refs = <<>> /\ c.legacy # None)
  BY <1>2, <1>4 DEF Migrate
<1> QED BY <1>2, <1>3, <1>4

\* Re-ranking a finite set of entries gives a finite set of entries, of the
\* same connections.
LEMMA RankedType ==
  ASSUME NEW es \in SUBSET Entry, IsFiniteSet(es), NEW base \in Nat
  PROVE  /\ Ranked(es, base) \in SUBSET Entry /\ IsFiniteSet(Ranked(es, base))
         /\ \A r \in Ranked(es, base) : \E e \in es : r.conn = e.conn
<1> DEFINE f == [e \in es |-> [rank |-> base + Below(es, e), conn |-> e.conn]]
<1>1. \A e \in es : Below(es, e) \in Nat
  <2> SUFFICES ASSUME NEW e \in es PROVE Below(es, e) \in Nat
    OBVIOUS
  <2>1. IsFiniteSet({d \in es : d.rank < e.rank}) BY FS_Subset
  <2> QED BY <2>1, FS_CardinalityType DEF Below
<1>2. Ranked(es, base) \in SUBSET Entry
  <2>1. \A e \in es : e.conn \in Known /\ base + Below(es, e) \in Nat BY <1>1 DEF Entry
  <2> QED BY <2>1 DEF Ranked, Entry
<1>3. f \in Surjection(es, Ranked(es, base)) BY DEF Ranked, Surjection
<1>4. IsFiniteSet(Ranked(es, base)) BY <1>3, FS_Surjection
<1>5. \A r \in Ranked(es, base) : \E e \in es : r.conn = e.conn BY DEF Ranked
<1> QED BY <1>2, <1>4, <1>5

\* The registry as loaded: known connections under the ids of the file.
LEMMA LoadedType ==
  ASSUME TypeOK
  PROVE  /\ Loaded \in SUBSET Entry /\ IsFiniteSet(Loaded)
         /\ \A r \in Loaded : \E e \in file.entries :
              r = [e EXCEPT !.conn = Migrate(@)] /\ r.conn.id = e.conn.id
<1> DEFINE f == [e \in file.entries |-> [e EXCEPT !.conn = Migrate(@)]]
<1>1. file.entries \in SUBSET Entry /\ IsFiniteSet(file.entries) BY DEF TypeOK
<1>2. \A e \in file.entries : [e EXCEPT !.conn = Migrate(@)] \in Entry
  BY <1>1, MigrateKnown DEF Entry
<1>3. f \in Surjection(file.entries, Loaded) BY DEF Loaded, Surjection
<1>4. IsFiniteSet(Loaded) BY <1>1, <1>3, FS_Surjection
<1>5. \A e \in file.entries : [e EXCEPT !.conn = Migrate(@)].conn.id = e.conn.id
  BY <1>1, MigrateKnown DEF Entry
<1> QED BY <1>2, <1>4, <1>5 DEF Loaded

LEMMA UpsertType ==
  ASSUME NEW es \in SUBSET Entry, IsFiniteSet(es), NEW c \in Known
  PROVE  /\ Upsert(es, c) \in SUBSET Entry /\ IsFiniteSet(Upsert(es, c))
         /\ \A r \in Upsert(es, c) : r.conn = c \/ \E e \in es : r.conn = e.conn
<1> DEFINE kept == {e \in es : e.conn.id # c.id}
<1>1. kept \in SUBSET Entry /\ IsFiniteSet(kept) BY FS_Subset
<1>2. /\ Ranked(kept, 1) \in SUBSET Entry /\ IsFiniteSet(Ranked(kept, 1))
      /\ \A r \in Ranked(kept, 1) : \E e \in kept : r.conn = e.conn
  BY <1>1, RankedType, 1 \in Nat
<1>3. [rank |-> 0, conn |-> c] \in Entry BY DEF Entry
<1>4. IsFiniteSet(Upsert(es, c)) BY <1>2, FS_AddElement DEF Upsert
<1> QED BY <1>2, <1>3, <1>4 DEF Upsert

LEMMA WithoutType ==
  ASSUME NEW es \in SUBSET Entry, IsFiniteSet(es), NEW id
  PROVE  /\ Without(es, id) \in SUBSET Entry /\ IsFiniteSet(Without(es, id))
         /\ \A r \in Without(es, id) : \E e \in es : r.conn = e.conn
<1> DEFINE kept == {e \in es : e.conn.id # id}
<1>1. kept \in SUBSET Entry /\ IsFiniteSet(kept) BY FS_Subset
<1>2. /\ Ranked(kept, 0) \in SUBSET Entry /\ IsFiniteSet(Ranked(kept, 0))
      /\ \A r \in Ranked(kept, 0) : \E e \in kept : r.conn = e.conn
  BY <1>1, RankedType, 0 \in Nat
<1> QED BY <1>2 DEF Without

\* Whatever two writers make of the file, it holds entries one of them wrote.
LEMMA OverwrittenType ==
  ASSUME TypeOK, NEW es \in SUBSET Entry, IsFiniteSet(es), NEW f \in Overwritten(es)
  PROVE  /\ f \in [readable: BOOLEAN, entries: SUBSET Entry] /\ IsFiniteSet(f.entries)
         /\ \A r \in f.entries : \E e \in es \cup file.entries : r.conn = e.conn
<1> DEFINE rest == Beyond(file.entries, Cardinality(es))
<1>1. file.entries \in SUBSET Entry /\ IsFiniteSet(file.entries) BY DEF TypeOK
<1>2. rest \in SUBSET file.entries /\ IsFiniteSet(rest) BY <1>1, FS_Subset DEF Beyond
<1>3. Cardinality(rest) \in Nat BY <1>2, FS_CardinalityType
<1>4. /\ Ranked(es, Cardinality(rest)) \in SUBSET Entry
      /\ IsFiniteSet(Ranked(es, Cardinality(rest)))
      /\ \A r \in Ranked(es, Cardinality(rest)) : \E e \in es : r.conn = e.conn
  BY <1>3, RankedType
<1>5. /\ Over(es, file.entries) \in SUBSET Entry /\ IsFiniteSet(Over(es, file.entries))
      /\ \A r \in Over(es, file.entries) : \E e \in es \cup file.entries : r.conn = e.conn
  BY <1>1, <1>2, <1>4, FS_Union DEF Over
<1>6. IsFiniteSet({}) BY FS_EmptySet
<1>7. f \in {[readable |-> TRUE, entries |-> es], [readable |-> FALSE, entries |-> {}],
             [readable |-> TRUE, entries |-> Over(es, file.entries)]}
  BY DEF Overwritten
<1>8. CASE f = [readable |-> TRUE, entries |-> es] BY <1>8
<1>9. CASE f = [readable |-> FALSE, entries |-> {}] BY <1>6, <1>9
<1>10. CASE f = [readable |-> TRUE, entries |-> Over(es, file.entries)] BY <1>5, <1>10
<1> QED BY <1>7, <1>8, <1>9, <1>10
----------------------------------------------------------------------------
(***************************************************************************)
(* The inductive invariant: the types, what each actor's local variables   *)
(* hold at each step, and which tokens can be where.                       *)
(***************************************************************************)
JobInv ==
  \A p \in Actors :
    /\ job[p].kind = "connect" =>
         /\ job[p].conn \in Presets /\ job[p].id = job[p].conn.id
         /\ job[p].token \in Tokens /\ issuedFor[job[p].token] = job[p].conn
    /\ job[p].kind = "disconnect" => job[p].id \in Ids
    /\ job[p].kind = "resolve" => job[p].host \in Hosts
    /\ job[p].kind \in {"connect", "disconnect"} => p \in Writers
    /\ pc[p] = "store" => job[p].kind = "connect"
    /\ pc[p] = "erase" => job[p].kind = "disconnect" /\ job[p].conn \in Known
    /\ pc[p] \in {"truncate", "write"} => job[p].kind \in {"connect", "disconnect"}
    /\ pc[p] = "read" => /\ job[p].kind = "resolve" /\ job[p].conn \in Known
                         /\ job[p].host \in job[p].conn.hosts

TokenInv ==
  /\ \A l \in KeychainLocs : secrets[l] \in Tokens =>
       /\ issuedFor[secrets[l]] \in Known
       /\ l \in RefsOf(Migrate(issuedFor[secrets[l]]))
  /\ \A l \in EnvLocs : secrets[l] \in {Ambient, None}
  /\ \A p \in Actors : answer[p].token \in Tokens =>
       /\ issuedFor[answer[p].token] \in Known
       /\ \E c \in Known : answer[p].host \in c.hosts /\ Shares(c, Migrate(issuedFor[answer[p].token]))

Inv == TypeOK /\ JobInv /\ TokenInv

LEMMA NoJobType == NoJob \in JobType /\ IsFiniteSet(NoJob.snap) /\ NoJob.kind = "none"
BY FS_EmptySet DEF NoJob, JobType

\* Replacing one actor's local variables by well-typed ones keeps the types.
LEMMA LocalType ==
  ASSUME TypeOK, NEW p \in Actors, NEW j \in JobType, IsFiniteSet(j.snap),
         job' = [job EXCEPT ![p] = j]
  PROVE  job' \in [Actors -> JobType] /\ \A q \in Actors : IsFiniteSet(job'[q].snap)
<1>1. \A q \in Actors : job'[q] = IF q = p THEN j ELSE job[q] BY DEF TypeOK
<1> QED BY <1>1 DEF TypeOK

LEMMA SnapType ==
  ASSUME NEW j \in JobType, NEW es \in SUBSET Entry, NEW c \in Known
  PROVE  /\ [j EXCEPT !.snap = es] \in JobType /\ [j EXCEPT !.snap = es].snap = es
         /\ [j EXCEPT !.conn = c, !.snap = es] \in JobType
         /\ [j EXCEPT !.conn = c, !.snap = es].snap = es
BY DEF JobType

LEMMA ConnOnlyType ==
  ASSUME NEW j \in JobType, NEW c \in Known
  PROVE  [j EXCEPT !.conn = c] \in JobType /\ [j EXCEPT !.conn = c].snap = j.snap
BY DEF JobType

\* Returning keeps the types.
LEMMA ReturnType ==
  ASSUME TypeOK, NEW p \in Actors, Return(p)
  PROVE  /\ pc' \in [Actors -> {"idle", "store", "load", "erase", "truncate", "write", "read"}]
         /\ job' \in [Actors -> JobType] /\ \A q \in Actors : IsFiniteSet(job'[q].snap)
<1>1. job' = [job EXCEPT ![p] = NoJob] /\ pc' = [pc EXCEPT ![p] = "idle"]
  BY DEF Return, Goto
<1>2. \A q \in Actors : job'[q] = IF q = p THEN NoJob ELSE job[q] BY <1>1 DEF TypeOK
<1> QED BY <1>1, <1>2, NoJobType DEF TypeOK

LEMMA SoloType ==
  ASSUME NEW j \in JobType, NEW b \in BOOLEAN
  PROVE  [j EXCEPT !.solo = b] \in JobType /\ [j EXCEPT !.solo = b].snap = j.snap
BY DEF JobType

\* Beginning a change keeps the types.
LEMMA BeginType ==
  ASSUME TypeOK, NEW p \in Actors, NEW j \in JobType, IsFiniteSet(j.snap), Begin(p, j)
  PROVE  /\ job' \in [Actors -> JobType] /\ \A q \in Actors : IsFiniteSet(job'[q].snap)
         /\ promise' \in [Ids -> PromiseType]
<1>1. \A q \in Actors : /\ job'[q] \in JobType
                        /\ job'[q].snap = IF q = p THEN j.snap ELSE job[q].snap
  <2> SUFFICES ASSUME NEW q \in Actors
               PROVE  job'[q] \in JobType /\ job'[q].snap = IF q = p THEN j.snap ELSE job[q].snap
    OBVIOUS
  <2>1. job[q] \in JobType BY DEF TypeOK
  <2>2. job'[q] = IF q = p THEN [j EXCEPT !.solo = (Rivals(p, j.id) = {})]
                  ELSE IF q \in Rivals(p, j.id) THEN [job[q] EXCEPT !.solo = FALSE] ELSE job[q]
    BY DEF Begin
  <2> DEFINE s == (Rivals(p, j.id) = {})
  <2>3. s \in BOOLEAN OBVIOUS
  <2>4. job'[q] = IF q = p THEN [j EXCEPT !.solo = s]
                  ELSE IF q \in Rivals(p, j.id) THEN [job[q] EXCEPT !.solo = FALSE] ELSE job[q]
    BY <2>2
  <2> HIDE DEF s
  <2>5. CASE q = p BY <2>3, <2>4, <2>5, SoloType
  <2>6. CASE q # p /\ q \in Rivals(p, j.id) BY <2>1, <2>4, <2>6, SoloType, FALSE \in BOOLEAN
  <2>7. CASE q # p /\ q \notin Rivals(p, j.id) BY <2>1, <2>4, <2>7
  <2> QED BY <2>5, <2>6, <2>7
<1>2. job' \in [Actors -> JobType] BY <1>1 DEF Begin
<1>3. NoPromise \in PromiseType BY DEF NoPromise, Promise, PromiseType
<1>4. promise' \in [Ids -> PromiseType] BY <1>3 DEF Begin, TypeOK
<1> QED BY <1>1, <1>2, <1>4 DEF TypeOK

\* Beginning a change empties the snapshot of the actor that begins.
LEMMA BeginSnaps ==
  ASSUME TypeOK, NEW p \in Actors, NEW j \in JobType, j.snap = {}, Begin(p, j)
  PROVE  \A q \in Actors : job'[q].snap = IF q = p THEN {} ELSE job[q].snap
<1> SUFFICES ASSUME NEW q \in Actors PROVE job'[q].snap = IF q = p THEN {} ELSE job[q].snap
  OBVIOUS
<1>1. job[q] \in JobType BY DEF TypeOK
<1>2. /\ q = p => job'[q] = [j EXCEPT !.solo = (Rivals(p, j.id) = {})]
      /\ q # p => job'[q] = [job[q] EXCEPT !.solo = FALSE] \/ job'[q] = job[q]
  BY DEF Begin
<1> QED BY <1>1, <1>2 DEF JobType

\* Every action keeps the types.
LEMMA TypeStep ==
  ASSUME TypeOK, JobInv, [Next]_vars
  PROVE  TypeOK'
<1> USE DEF history
<1>1. CASE UNCHANGED vars BY <1>1 DEF vars, TypeOK
<1>2. ASSUME NEW p \in Actors, NEW c \in Presets, StartConnect(p, c) PROVE TypeOK'
  <2>1. PICK t \in Tokens :
          /\ issuedFor' = [issuedFor EXCEPT ![t] = c]
          /\ Begin(p, [NoJob EXCEPT !.kind = "connect", !.id = c.id, !.conn = c, !.token = t])
    BY <1>2 DEF StartConnect
  <2>2. c \in Known /\ c.id \in Ids BY ConstantTypes DEF Known, ConnType
  <2> DEFINE j == [NoJob EXCEPT !.kind = "connect", !.id = c.id, !.conn = c, !.token = t]
  <2>3. j \in JobType /\ IsFiniteSet(j.snap) BY <2>2, NoJobType DEF JobType, NoJob
  <2>4. Begin(p, j) BY <2>1
  <2>5. /\ job' \in [Actors -> JobType] /\ \A q \in Actors : IsFiniteSet(job'[q].snap)
        /\ promise' \in [Ids -> PromiseType]
    BY <2>3, <2>4, BeginType
  <2>6. issuedFor' \in [Tokens -> Known \cup {None}] BY <2>1, <2>2 DEF TypeOK
  <2> QED BY <1>2, <2>5, <2>6 DEF StartConnect, Goto, TypeOK
<1>3. ASSUME NEW p \in Actors, NEW id \in Ids, StartDisconnect(p, id) PROVE TypeOK'
  <2> DEFINE j == [NoJob EXCEPT !.kind = "disconnect", !.id = id]
  <2>1. j \in JobType /\ IsFiniteSet(j.snap) BY NoJobType DEF JobType, NoJob
  <2>2. Begin(p, j) BY <1>3 DEF StartDisconnect
  <2>3. /\ job' \in [Actors -> JobType] /\ \A q \in Actors : IsFiniteSet(job'[q].snap)
        /\ promise' \in [Ids -> PromiseType]
    BY <2>1, <2>2, BeginType
  <2> QED BY <1>3, <2>3 DEF StartDisconnect, Goto, TypeOK
<1>4. ASSUME NEW p \in Actors, NEW h \in Hosts, StartResolve(p, h) PROVE TypeOK'
  <2> DEFINE j == [NoJob EXCEPT !.kind = "resolve", !.host = h]
  <2>1. j \in JobType /\ IsFiniteSet(j.snap) BY NoJobType DEF JobType, NoJob
  <2>2. job' = [job EXCEPT ![p] = j] BY <1>4 DEF StartResolve
  <2>3. job' \in [Actors -> JobType] /\ \A q \in Actors : IsFiniteSet(job'[q].snap)
    BY <2>1, <2>2 DEF TypeOK
  <2> QED BY <1>4, <2>3 DEF StartResolve, Goto, TypeOK
<1>5. ASSUME NEW p \in Actors, StoreSecret(p) PROVE TypeOK'
  <2>1. job[p].token \in Tokens /\ job[p].id \in Ids
    BY <1>5, ConstantTypes DEF StoreSecret, JobInv, ConnType
  <2>2. secrets' \in [Locs -> Tokens \cup {Ambient, None}] BY <1>5, <2>1 DEF StoreSecret, TypeOK
  <2> QED BY <1>5, <2>1, <2>2 DEF StoreSecret, Goto, TypeOK
<1>6. ASSUME NEW p \in Actors, StoreFails(p) PROVE TypeOK'
  BY <1>6, ReturnType DEF StoreFails, TypeOK
<1>7. ASSUME NEW p \in Actors, LoadForConnect(p) PROVE TypeOK'
  <2>1. job[p].conn \in Known BY <1>7 DEF LoadForConnect, JobInv, Known
  <2> DEFINE u == Upsert(Loaded, job[p].conn)
  <2>2. u \in SUBSET Entry /\ IsFiniteSet(u) BY <2>1, LoadedType, UpsertType
  <2>3. job' = [job EXCEPT ![p].snap = u] BY <1>7 DEF LoadForConnect
  <2> HIDE DEF u
  <2>4. job' \in [Actors -> JobType] /\ \A q \in Actors : IsFiniteSet(job'[q].snap)
    <3>1. job[p] \in JobType BY DEF TypeOK
    <3>2. job' = [job EXCEPT ![p] = [job[p] EXCEPT !.snap = u]] BY <2>3
    <3>3. [job[p] EXCEPT !.snap = u] \in JobType /\ [job[p] EXCEPT !.snap = u].snap = u
      BY <2>1, <2>2, <3>1, SnapType
    <3> QED BY <2>2, <3>2, <3>3, LocalType
  <2> QED BY <1>7, <2>4 DEF LoadForConnect, Goto, TypeOK
<1>8. ASSUME NEW p \in Actors, LoadForDisconnect(p) PROVE TypeOK'
  <2> DEFINE w == Without(Loaded, job[p].id)
  <2>1. w \in SUBSET Entry /\ IsFiniteSet(w) BY LoadedType, WithoutType
  <2>2. PICK c \in FirstOf({e \in Loaded : e.conn.id = job[p].id}) :
          job' = [job EXCEPT ![p].conn = c, ![p].snap = w]
    BY <1>8 DEF LoadForDisconnect
  <2>3. c \in Known BY LoadedType DEF FirstOf, Entry
  <2> HIDE DEF w
  <2>4. job' \in [Actors -> JobType] /\ \A q \in Actors : IsFiniteSet(job'[q].snap)
    <3>1. job[p] \in JobType BY DEF TypeOK
    <3>2. job' = [job EXCEPT ![p] = [job[p] EXCEPT !.conn = c, !.snap = w]] BY <2>2
    <3>3. /\ [job[p] EXCEPT !.conn = c, !.snap = w] \in JobType
          /\ [job[p] EXCEPT !.conn = c, !.snap = w].snap = w
      BY <2>1, <2>3, <3>1, SnapType
    <3> QED BY <2>1, <3>2, <3>3, LocalType
  <2> QED BY <1>8, <2>4 DEF LoadForDisconnect, Goto, TypeOK
<1>9. ASSUME NEW p \in Actors, LoadForResolve(p) PROVE TypeOK'
  <2> DEFINE found == Match(IF file.readable THEN Loaded ELSE {}, job[p].host)
  <2>1. found \subseteq Known
    BY LoadedType, ConstantTypes DEF Match, Matching, FirstOf, Entry, Known
  <2>2. CASE \E c \in found : job' = [job EXCEPT ![p].conn = c] /\ Goto(p, "read") /\ UNCHANGED answer
    <3>1. job' \in [Actors -> JobType] /\ \A q \in Actors : IsFiniteSet(job'[q].snap)
      <4>1. PICK c \in found : job' = [job EXCEPT ![p].conn = c] BY <2>2
      <4>2. c \in Known /\ job[p] \in JobType /\ IsFiniteSet(job[p].snap) BY <2>1 DEF TypeOK
      <4>3. job' = [job EXCEPT ![p] = [job[p] EXCEPT !.conn = c]] BY <4>1
      <4>4. /\ [job[p] EXCEPT !.conn = c] \in JobType
            /\ [job[p] EXCEPT !.conn = c].snap = job[p].snap
        BY <4>2, ConnOnlyType
      <4> QED BY <4>2, <4>3, <4>4, LocalType
    <3>2. pc' \in [Actors -> {"idle", "store", "load", "erase", "truncate", "write", "read"}]
      BY <2>2 DEF Goto, TypeOK
    <3>3. UNCHANGED <<file, secrets, issuedFor, answer, history>> BY <1>9, <2>2 DEF LoadForResolve
    <3> QED BY <3>1, <3>2, <3>3 DEF TypeOK, history
  <2>3. CASE /\ Return(p)
             /\ answer' = [answer EXCEPT ![p] = [NoAnswer EXCEPT !.host = job[p].host]]
    <3>1. [NoAnswer EXCEPT !.host = job[p].host] \in AnswerType
      BY DEF NoAnswer, AnswerType, TypeOK, JobType
    <3>2. answer' \in [Actors -> AnswerType] BY <2>3, <3>1 DEF TypeOK
    <3> QED BY <1>9, <2>3, <3>2, ReturnType DEF LoadForResolve, TypeOK
  <2> QED BY <1>9, <2>2, <2>3 DEF LoadForResolve
<1>10. ASSUME NEW p \in Actors, NothingToDisconnect(p) PROVE TypeOK'
  BY <1>10, ReturnType DEF NothingToDisconnect, TypeOK
<1>11. ASSUME NEW p \in Actors, LoadFails(p) PROVE TypeOK'
  BY <1>11, ReturnType DEF LoadFails, TypeOK
<1>12. ASSUME NEW p \in Actors, EraseSecret(p) PROVE TypeOK'
  <2>1. secrets' \in [Locs -> Tokens \cup {Ambient, None}] BY <1>12 DEF EraseSecret, TypeOK
  <2> QED BY <1>12, <2>1 DEF EraseSecret, Goto, TypeOK
<1>13. ASSUME NEW p \in Actors, ReadSecret(p) PROVE TypeOK'
  <2>1. job[p].conn \in ConnType BY <1>13, MigrateKnown DEF ReadSecret, JobInv
  <2>2. ASSUME NEW t \in Tokens \cup {Ambient, None}
        PROVE  [host |-> job[p].host, conn |-> job[p].conn, token |-> t] \in AnswerType
    BY DEF AnswerType, TypeOK, JobType
  <2>3. \A i \in DOMAIN job[p].conn.refs : secrets[job[p].conn.refs[i]] \in Tokens \cup {Ambient, None}
    BY <2>1 DEF TypeOK, ConnType
  <2>4. \E t \in Tokens \cup {Ambient, None} :
          answer' = [answer EXCEPT ![p] = [host |-> job[p].host, conn |-> job[p].conn, token |-> t]]
    BY <1>13, <2>3 DEF ReadSecret
  <2>5. answer' \in [Actors -> AnswerType] BY <2>2, <2>4 DEF TypeOK
  <2> QED BY <1>13, <2>5, ReturnType DEF ReadSecret, TypeOK
<1>14. ASSUME NEW p \in Actors, Truncate(p) PROVE TypeOK'
  BY <1>14, FS_EmptySet DEF Truncate, Goto, TypeOK
<1>15. ASSUME NEW p \in Actors, WriteAll(p) PROVE TypeOK'
  <2>1. job[p].snap \in SUBSET Entry /\ IsFiniteSet(job[p].snap) BY DEF TypeOK, JobType
  <2>2. file' \in [readable: BOOLEAN, entries: SUBSET Entry] /\ IsFiniteSet(file'.entries)
    BY <1>15, <2>1, OverwrittenType DEF WriteAll
  <2>3. /\ Promise("connected", job[p].conn, job[p].token) \in PromiseType
        /\ Promise("removed", job[p].conn, None) \in PromiseType /\ NoPromise \in PromiseType
    BY DEF Promise, PromiseType, NoPromise, TypeOK, JobType
  <2>4. promise' \in [Ids -> PromiseType] BY <1>15, <2>3 DEF WriteAll, Told, TypeOK
  <2> QED BY <1>15, <2>1, <2>2, <2>4, ReturnType DEF WriteAll, TypeOK
<1>16. ASSUME NEW p \in Actors, SaveFails(p) PROVE TypeOK'
  <2>1. file' \in [readable: BOOLEAN, entries: SUBSET Entry] /\ IsFiniteSet(file'.entries)
    <3>1. file' = file \/ file' = [readable |-> FALSE, entries |-> {}] BY <1>16 DEF SaveFails
    <3>2. CASE file' = file BY <3>2 DEF TypeOK
    <3>3. CASE file' = [readable |-> FALSE, entries |-> {}] BY <3>3, FS_EmptySet
    <3> QED BY <3>1, <3>2, <3>3
  <2> QED BY <1>16, <2>1, ReturnType DEF SaveFails, TypeOK
<1>17. ASSUME NEW p \in Actors, Crash(p) PROVE TypeOK'
  BY <1>17, ReturnType DEF Crash, TypeOK
<1> QED BY <1>1, <1>2, <1>3, <1>4, <1>5, <1>6, <1>7, <1>8, <1>9, <1>10, <1>11, <1>12,
           <1>13, <1>14, <1>15, <1>16, <1>17 DEF Next

\* What JobInv says of one actor.
JobFacts(j, l, p, by) ==
  /\ j.kind = "connect" => /\ j.conn \in Presets /\ j.id = j.conn.id
                          /\ j.token \in Tokens /\ by[j.token] = j.conn
  /\ j.kind = "disconnect" => j.id \in Ids
  /\ j.kind = "resolve" => j.host \in Hosts
  /\ j.kind \in {"connect", "disconnect"} => p \in Writers
  /\ l = "store" => j.kind = "connect"
  /\ l = "erase" => j.kind = "disconnect" /\ j.conn \in Known
  /\ l \in {"truncate", "write"} => j.kind \in {"connect", "disconnect"}
  /\ l = "read" => j.kind = "resolve" /\ j.conn \in Known /\ j.host \in j.conn.hosts

LEMMA JobInvFacts == JobInv <=> \A p \in Actors : JobFacts(job[p], pc[p], p, issuedFor)
BY DEF JobInv, JobFacts

\* A returning actor's local variables say nothing.
LEMMA ReturnJob ==
  ASSUME TypeOK, JobInv, NEW p \in Actors, Return(p), UNCHANGED issuedFor
  PROVE  JobInv'
<1>1. job' = [job EXCEPT ![p] = NoJob] /\ pc' = [pc EXCEPT ![p] = "idle"]
  BY DEF Return, Goto
<1>2. \A q \in Actors : /\ job'[q] = IF q = p THEN NoJob ELSE job[q]
                        /\ pc'[q] = IF q = p THEN "idle" ELSE pc[q]
  BY <1>1 DEF TypeOK
<1>3. JobFacts(NoJob, "idle", p, issuedFor') BY DEF JobFacts, NoJob
<1>4. \A q \in Actors : JobFacts(job'[q], pc'[q], q, issuedFor')
  BY <1>2, <1>3, JobInvFacts
<1> QED BY <1>4 DEF JobInv, JobFacts

\* An actor that moves on, its local variables changed to j, keeps the invariant
\* if j says at the next step what the invariant asks.
LEMMA MoveJob ==
  ASSUME TypeOK, JobInv, NEW p \in Actors, NEW j, NEW l,
         job' = [job EXCEPT ![p] = j], Goto(p, l), UNCHANGED issuedFor,
         JobFacts(j, l, p, issuedFor)
  PROVE  JobInv'
<1>1. \A q \in Actors : /\ job'[q] = IF q = p THEN j ELSE job[q]
                        /\ pc'[q] = IF q = p THEN l ELSE pc[q]
  BY DEF Goto, TypeOK
<1>2. \A q \in Actors : JobFacts(job'[q], pc'[q], q, issuedFor') BY <1>1, JobInvFacts
<1> QED BY <1>2 DEF JobInv, JobFacts

\* Beginning a change of j.id only marks the rivals, beside p itself.
LEMMA BeginJob ==
  ASSUME TypeOK, JobInv, NEW p \in Actors, NEW j \in JobType, NEW l,
         Begin(p, j), Goto(p, l), JobFacts(j, l, p, issuedFor'),
         \A t \in Tokens : issuedFor[t] # None => issuedFor'[t] = issuedFor[t]
  PROVE  JobInv'
<1>1. ASSUME NEW q \in Actors PROVE JobFacts(job'[q], pc'[q], q, issuedFor')
  <2>1. CASE q = p
    <3>1. job'[q] = [j EXCEPT !.solo = (Rivals(p, j.id) = {})] /\ pc'[q] = l
      BY <2>1 DEF Begin, Goto, TypeOK
    <3>2. \A b : JobFacts([j EXCEPT !.solo = b], l, p, issuedFor') BY DEF JobFacts, JobType
    <3> QED BY <2>1, <3>1, <3>2
  <2>2. CASE q # p
    <3>1. pc'[q] = pc[q] BY <2>2 DEF Goto, TypeOK
    <3>2. job[q] \in JobType BY DEF TypeOK
    <3>3. job'[q] = [job[q] EXCEPT !.solo = FALSE] \/ job'[q] = job[q] BY <2>2 DEF Begin
    <3>4. JobFacts(job[q], pc[q], q, issuedFor) BY JobInvFacts
    <3>5. \A c \in Presets : c # None BY ConstantTypes
    <3>6. JobFacts(job[q], pc[q], q, issuedFor') BY <3>4, <3>5 DEF JobFacts
    <3>7. JobFacts([job[q] EXCEPT !.solo = FALSE], pc[q], q, issuedFor')
      BY <3>2, <3>6 DEF JobFacts, JobType
    <3> QED BY <3>1, <3>3, <3>6, <3>7
  <2> QED BY <2>1, <2>2
<1> QED BY <1>1 DEF JobInv, JobFacts

\* Every action keeps what the actors' local variables say.
LEMMA JobStep ==
  ASSUME TypeOK, JobInv, [Next]_vars
  PROVE  JobInv'
<1> USE DEF history
<1>0. \A p \in Actors : JobFacts(job[p], pc[p], p, issuedFor) BY JobInvFacts
<1>1. CASE UNCHANGED vars BY <1>1 DEF vars, JobInv
<1>2. ASSUME NEW p \in Actors, NEW c \in Presets, StartConnect(p, c) PROVE JobInv'
  <2>1. PICK t \in Tokens :
          /\ issuedFor[t] = None /\ issuedFor' = [issuedFor EXCEPT ![t] = c]
          /\ Begin(p, [NoJob EXCEPT !.kind = "connect", !.id = c.id, !.conn = c, !.token = t])
    BY <1>2 DEF StartConnect
  <2> DEFINE j == [NoJob EXCEPT !.kind = "connect", !.id = c.id, !.conn = c, !.token = t]
  <2>2. c \in Known /\ c.id \in Ids BY ConstantTypes DEF Known, ConnType
  <2>3. j \in JobType BY <2>2, NoJobType DEF JobType, NoJob
  <2>4. issuedFor'[t] = c /\ \A s \in Tokens : issuedFor[s] # None => issuedFor'[s] = issuedFor[s]
    BY <2>1 DEF TypeOK
  <2>5. p \in Writers /\ Goto(p, "store") BY <1>2 DEF StartConnect
  <2>6. JobFacts(j, "store", p, issuedFor') BY <2>4, <2>5 DEF JobFacts, NoJob
  <2>7. Begin(p, j) BY <2>1
  <2> HIDE DEF j
  <2> QED BY <2>3, <2>4, <2>5, <2>6, <2>7, BeginJob
<1>3. ASSUME NEW p \in Actors, NEW id \in Ids, StartDisconnect(p, id) PROVE JobInv'
  <2> DEFINE j == [NoJob EXCEPT !.kind = "disconnect", !.id = id]
  <2>1. j \in JobType BY NoJobType DEF JobType, NoJob
  <2>2. p \in Writers /\ Goto(p, "load") /\ Begin(p, j) /\ issuedFor' = issuedFor
    BY <1>3 DEF StartDisconnect
  <2>3. JobFacts(j, "load", p, issuedFor') BY <2>2 DEF JobFacts, NoJob
  <2> HIDE DEF j
  <2> QED BY <2>1, <2>2, <2>3, BeginJob
<1>4. ASSUME NEW p \in Actors, NEW h \in Hosts, StartResolve(p, h) PROVE JobInv'
  <2> DEFINE j == [NoJob EXCEPT !.kind = "resolve", !.host = h]
  <2>1. JobFacts(j, "load", p, issuedFor) BY DEF JobFacts, NoJob
  <2>2. job' = [job EXCEPT ![p] = j] /\ Goto(p, "load") /\ UNCHANGED issuedFor
    BY <1>4 DEF StartResolve
  <2> HIDE DEF j
  <2> QED BY <2>1, <2>2, MoveJob
<1>5. ASSUME NEW p \in Actors, StoreSecret(p) PROVE JobInv'
  <2>1. job' = [job EXCEPT ![p] = job[p]] BY <1>5 DEF StoreSecret, TypeOK
  <2>2. JobFacts(job[p], "load", p, issuedFor) BY <1>0 DEF JobFacts
  <2> QED BY <1>5, <2>1, <2>2, MoveJob DEF StoreSecret
<1>6. ASSUME NEW p \in Actors, StoreFails(p) PROVE JobInv'
  BY <1>6, ReturnJob DEF StoreFails
<1>7. ASSUME NEW p \in Actors, LoadForConnect(p) PROVE JobInv'
  <2> DEFINE u == Upsert(Loaded, job[p].conn)
  <2> DEFINE j == [job[p] EXCEPT !.snap = u]
  <2>1. job' = [job EXCEPT ![p] = j] BY <1>7 DEF LoadForConnect
  <2>2. job[p] \in JobType /\ job[p].kind = "connect" BY <1>7 DEF LoadForConnect, TypeOK
  <2> HIDE DEF u
  <2>3. JobFacts(j, "truncate", p, issuedFor) BY <1>0, <2>2 DEF JobFacts, JobType
  <2> QED BY <1>7, <2>1, <2>3, MoveJob DEF LoadForConnect
<1>8. ASSUME NEW p \in Actors, LoadForDisconnect(p) PROVE JobInv'
  <2> DEFINE w == Without(Loaded, job[p].id)
  <2>1. PICK c \in FirstOf({e \in Loaded : e.conn.id = job[p].id}) :
          job' = [job EXCEPT ![p].conn = c, ![p].snap = w]
    BY <1>8 DEF LoadForDisconnect
  <2>2. c \in Known BY LoadedType DEF FirstOf, Entry
  <2> DEFINE j == [job[p] EXCEPT !.conn = c, !.snap = w]
  <2>3. job' = [job EXCEPT ![p] = j] BY <2>1
  <2>4. job[p] \in JobType /\ job[p].kind = "disconnect" BY <1>8 DEF LoadForDisconnect, TypeOK
  <2> HIDE DEF w
  <2>5. JobFacts(j, "erase", p, issuedFor) BY <1>0, <2>2, <2>4 DEF JobFacts, JobType
  <2> QED BY <1>8, <2>3, <2>5, MoveJob DEF LoadForDisconnect
<1>9. ASSUME NEW p \in Actors, LoadForResolve(p) PROVE JobInv'
  <2> DEFINE es == IF file.readable THEN Loaded ELSE {}
  <2>1. ASSUME NEW c \in Match(es, job[p].host), job' = [job EXCEPT ![p].conn = c], Goto(p, "read")
        PROVE  JobInv'
    <3> DEFINE j == [job[p] EXCEPT !.conn = c]
    <3>1. c \in Known /\ job[p].host \in c.hosts
      BY LoadedType, ConstantTypes DEF Match, Matching, FirstOf, Entry, Known
    <3>2. job' = [job EXCEPT ![p] = j] BY <2>1
    <3>3. job[p] \in JobType /\ job[p].kind = "resolve" BY <1>9 DEF LoadForResolve, TypeOK
    <3>4. JobFacts(j, "read", p, issuedFor) BY <1>0, <3>1, <3>3 DEF JobFacts, JobType
    <3> QED BY <1>9, <2>1, <3>2, <3>4, MoveJob DEF LoadForResolve
  <2>2. CASE Return(p) BY <1>9, <2>2, ReturnJob DEF LoadForResolve
  <2> QED BY <1>9, <2>1, <2>2 DEF LoadForResolve
<1>10. ASSUME NEW p \in Actors, NothingToDisconnect(p) PROVE JobInv'
  BY <1>10, ReturnJob DEF NothingToDisconnect
<1>11. ASSUME NEW p \in Actors, LoadFails(p) PROVE JobInv'
  BY <1>11, ReturnJob DEF LoadFails
<1>12. ASSUME NEW p \in Actors, EraseSecret(p) PROVE JobInv'
  <2>1. job' = [job EXCEPT ![p] = job[p]] BY <1>12 DEF EraseSecret, TypeOK
  <2>2. JobFacts(job[p], "truncate", p, issuedFor) BY <1>0, <1>12 DEF JobFacts, EraseSecret
  <2> QED BY <1>12, <2>1, <2>2, MoveJob DEF EraseSecret
<1>13. ASSUME NEW p \in Actors, ReadSecret(p) PROVE JobInv'
  BY <1>13, ReturnJob DEF ReadSecret
<1>14. ASSUME NEW p \in Actors, Truncate(p) PROVE JobInv'
  <2>1. job' = [job EXCEPT ![p] = job[p]] BY <1>14 DEF Truncate, TypeOK
  <2>2. JobFacts(job[p], "write", p, issuedFor) BY <1>0, <1>14 DEF JobFacts, Truncate
  <2> QED BY <1>14, <2>1, <2>2, MoveJob DEF Truncate
<1>15. ASSUME NEW p \in Actors, WriteAll(p) PROVE JobInv'
  BY <1>15, ReturnJob DEF WriteAll
<1>16. ASSUME NEW p \in Actors, SaveFails(p) PROVE JobInv'
  BY <1>16, ReturnJob DEF SaveFails
<1>17. ASSUME NEW p \in Actors, Crash(p) PROVE JobInv'
  BY <1>17, ReturnJob DEF Crash
<1> QED BY <1>1, <1>2, <1>3, <1>4, <1>5, <1>6, <1>7, <1>8, <1>9, <1>10, <1>11, <1>12,
           <1>13, <1>14, <1>15, <1>16, <1>17 DEF Next

\* A step that leaves the secrets, the answers and the issued tokens alone.
LEMMA TokensAlone ==
  ASSUME TokenInv, UNCHANGED <<secrets, answer>>,
         \A t \in Tokens : issuedFor[t] # None => issuedFor'[t] = issuedFor[t]
  PROVE  TokenInv'
<1>1. None \notin Known BY ConstantTypes, MigrateKnown
<1> QED BY <1>1 DEF TokenInv

\* Every action keeps each token where it belongs.
LEMMA TokenStep ==
  ASSUME TypeOK, JobInv, TokenInv, [Next]_vars
  PROVE  TokenInv'
<1> USE DEF history
<1>0. None \notin Known BY ConstantTypes, MigrateKnown
<1>1. CASE UNCHANGED vars BY <1>1, TokensAlone DEF vars
<1>2. ASSUME NEW p \in Actors, NEW c \in Presets, StartConnect(p, c) PROVE TokenInv'
  <2>1. \A t \in Tokens : issuedFor[t] # None => issuedFor'[t] = issuedFor[t]
    BY <1>2 DEF StartConnect, TypeOK
  <2> QED BY <1>2, <2>1, TokensAlone DEF StartConnect
<1>3. ASSUME NEW p \in Actors, StoreSecret(p) PROVE TokenInv'
  <2> DEFINE c == job[p].conn
  <2> DEFINE t == job[p].token
  <2>1. c \in Presets /\ t \in Tokens /\ issuedFor[t] = c /\ t # Ambient
    BY <1>3, ConstantTypes DEF StoreSecret, JobInv
  <2>2. PICK i \in DOMAIN c.refs :
          c.refs[i] \in KeychainLocs /\ secrets' = [secrets EXCEPT ![c.refs[i]] = t]
    BY <1>3 DEF StoreSecret
  <2>3. Migrate(c) = c /\ c \in Known BY <2>1, ConstantTypes DEF Migrate, Known
  <2>4. c.refs[i] \in RefsOf(Migrate(c)) BY <2>2, <2>3 DEF RefsOf
  <2>5. \A l \in Locs : secrets'[l] = IF l = c.refs[i] THEN t ELSE secrets[l]
    BY <2>2 DEF TypeOK
  <2>6. c.refs[i] \notin EnvLocs BY <2>2, ConstantTypes
  <2>7. issuedFor' = issuedFor /\ answer' = answer BY <1>3 DEF StoreSecret
  <2> QED BY <2>1, <2>3, <2>4, <2>5, <2>6, <2>7 DEF TokenInv, Locs
<1>4. ASSUME NEW p \in Actors, EraseSecret(p) PROVE TokenInv'
  <2>1. None \notin Tokens BY ConstantTypes
  <2>2. \A l \in Locs : secrets'[l] \in {None, secrets[l]} BY <1>4 DEF EraseSecret
  <2>3. issuedFor' = issuedFor /\ answer' = answer BY <1>4 DEF EraseSecret
  <2> QED BY <2>1, <2>2, <2>3 DEF TokenInv, Locs
<1>5. ASSUME NEW p \in Actors, LoadForResolve(p) PROVE TokenInv'
  <2>1. CASE answer' = answer BY <1>5, <2>1, TokensAlone DEF LoadForResolve
  <2>2. CASE answer' = [answer EXCEPT ![p] = [NoAnswer EXCEPT !.host = job[p].host]]
    <3>1. [NoAnswer EXCEPT !.host = job[p].host].token \notin Tokens
      BY ConstantTypes DEF NoAnswer
    <3>2. \A q \in Actors : answer'[q].token \in Tokens => answer'[q] = answer[q]
      BY <2>2, <3>1 DEF TypeOK
    <3>3. issuedFor' = issuedFor /\ secrets' = secrets BY <1>5 DEF LoadForResolve
    <3> QED BY <3>2, <3>3 DEF TokenInv
  <2> QED BY <1>5, <2>1, <2>2 DEF LoadForResolve
<1>6. ASSUME NEW p \in Actors, ReadSecret(p) PROVE TokenInv'
  <2> DEFINE c == job[p].conn
  <2>1. c \in Known /\ c \in ConnType /\ job[p].host \in c.hosts
    BY <1>6, MigrateKnown DEF ReadSecret, JobInv
  <2>2. issuedFor' = issuedFor /\ secrets' = secrets BY <1>6 DEF ReadSecret
  <2>3. PICK t : /\ t = None \/ \E i \in DOMAIN c.refs : t = secrets[c.refs[i]]
                 /\ answer' = [answer EXCEPT ![p] = [host |-> job[p].host, conn |-> c, token |-> t]]
    BY <1>6 DEF ReadSecret
  <2>4. ASSUME t \in Tokens
        PROVE  issuedFor[t] \in Known /\ Shares(c, Migrate(issuedFor[t]))
    <3>1. PICK i \in DOMAIN c.refs : t = secrets[c.refs[i]] BY <2>3, <2>4, ConstantTypes
    <3>2. c.refs[i] \in Locs BY <2>1 DEF ConnType
    <3>3. c.refs[i] \in KeychainLocs BY <2>4, <3>1, <3>2, ConstantTypes DEF TokenInv, Locs
    <3>4. issuedFor[t] \in Known /\ c.refs[i] \in RefsOf(Migrate(issuedFor[t]))
      BY <2>4, <3>1, <3>3 DEF TokenInv
    <3>5. c.refs[i] \in RefsOf(c) BY DEF RefsOf
    <3> QED BY <3>3, <3>4, <3>5 DEF Shares
  <2>5. \A q \in Actors : answer'[q] = IF q = p THEN [host |-> job[p].host, conn |-> c, token |-> t]
                                      ELSE answer[q]
    BY <2>3 DEF TypeOK
  <2>6. ASSUME NEW q \in Actors, answer'[q].token \in Tokens
        PROVE  /\ issuedFor[answer'[q].token] \in Known
               /\ \E d \in Known : /\ answer'[q].host \in d.hosts
                                  /\ Shares(d, Migrate(issuedFor[answer'[q].token]))
    <3>1. CASE q = p
      <4>1. answer'[q].token = t /\ answer'[q].host = job[p].host BY <2>5, <3>1
      <4> QED BY <2>1, <2>4, <2>6, <4>1
    <3>2. CASE q # p BY <2>5, <2>6, <3>2 DEF TokenInv
    <3> QED BY <3>1, <3>2
  <2> HIDE DEF c
  <2> QED BY <2>2, <2>6 DEF TokenInv
<1>7. ASSUME NEW p \in Actors,
             \/ \E id \in Ids : StartDisconnect(p, id)
             \/ \E h \in Hosts : StartResolve(p, h)
             \/ StoreFails(p) \/ LoadForConnect(p) \/ LoadForDisconnect(p)
             \/ NothingToDisconnect(p) \/ LoadFails(p) \/ Truncate(p) \/ WriteAll(p)
             \/ SaveFails(p) \/ Crash(p)
      PROVE  TokenInv'
  <2>1. UNCHANGED <<secrets, issuedFor, answer>>
    BY <1>7 DEF StartDisconnect, StartResolve, StoreFails, LoadForConnect, LoadForDisconnect,
                NothingToDisconnect, LoadFails, Truncate, WriteAll, SaveFails, Crash
  <2> QED BY <2>1, TokensAlone
<1> QED BY <1>1, <1>2, <1>3, <1>4, <1>5, <1>6, <1>7 DEF Next

\* The invariant holds of an empty or old registry and its secrets.
LEMMA InvInit == Init => Inv
<1> SUFFICES ASSUME Init PROVE Inv
  OBVIOUS
<1>1. PICK held \in [Legacy -> Tokens], env \in [EnvLocs -> {Ambient, None}] :
       /\ \A c, d \in Legacy : held[c] = held[d] => c = d
       /\ issuedFor = [t \in Tokens |-> IF \E c \in Legacy : held[c] = t
                                        THEN CHOOSE c \in Legacy : held[c] = t ELSE None]
       /\ secrets = [l \in Locs |-> IF l \in EnvLocs THEN env[l]
                                    ELSE IF \E c \in Legacy : c.legacy = l
                                    THEN held[CHOOSE c \in Legacy : c.legacy = l] ELSE None]
  BY DEF Init
<1>2. \A c \in Legacy : issuedFor[held[c]] = c BY <1>1
<1>3. Legacy \subseteq Known BY DEF Known
<1>4. \A c \in Legacy : c \in ConnType /\ c.id \in Ids BY ConstantTypes DEF ConnType
<1>5. TypeOK
  <2>1. issuedFor \in [Tokens -> Known \cup {None}] BY <1>1, <1>3
  <2>2. file \in [readable: BOOLEAN, entries: SUBSET Entry] /\ IsFiniteSet(file.entries)
    <3>1. \A c \in Legacy : {[rank |-> 0, conn |-> c]} \in SUBSET Entry BY <1>3 DEF Entry
    <3>2. \/ file = [readable |-> TRUE, entries |-> {}] \/ file = [readable |-> FALSE, entries |-> {}]
          \/ \E c \in Legacy : file = [readable |-> TRUE, entries |-> {[rank |-> 0, conn |-> c]}]
      BY DEF Init
    <3>3. IsFiniteSet({}) /\ \A x : IsFiniteSet({x}) BY FS_EmptySet, FS_Singleton
    <3>4. CASE file = [readable |-> TRUE, entries |-> {}] BY <3>3, <3>4
    <3>5. CASE file = [readable |-> FALSE, entries |-> {}] BY <3>3, <3>5
    <3>6. CASE \E c \in Legacy : file = [readable |-> TRUE, entries |-> {[rank |-> 0, conn |-> c]}]
      <4>1. PICK c \in Legacy : file = [readable |-> TRUE, entries |-> {[rank |-> 0, conn |-> c]}]
        BY <3>6
      <4>2. {[rank |-> 0, conn |-> c]} \in SUBSET Entry BY <3>1
      <4>3. IsFiniteSet({[rank |-> 0, conn |-> c]}) BY <3>3
      <4> QED BY <4>1, <4>2, <4>3
    <3> QED BY <3>2, <3>4, <3>5, <3>6
  <2>3. secrets \in [Locs -> Tokens \cup {Ambient, None}] BY <1>1
  <2>4. NoAnswer \in AnswerType BY DEF NoAnswer, AnswerType
  <2>5. NoPromise \in PromiseType BY DEF NoPromise, Promise, PromiseType
  <2>6. committed \subseteq Entry BY <2>2 DEF Init
  <2> QED BY <1>4, <2>1, <2>2, <2>3, <2>4, <2>5, <2>6, NoJobType DEF Init, TypeOK
<1>6. JobInv BY DEF Init, JobInv, NoJob
<1>7. TokenInv
  <2>1. \A l \in EnvLocs : secrets[l] \in {Ambient, None}
    <3>1. ASSUME NEW l \in EnvLocs PROVE secrets[l] = env[l] BY <1>1 DEF Locs
    <3>2. \A l \in EnvLocs : env[l] \in {Ambient, None} BY <1>1
    <3> QED BY <3>1, <3>2
  <2>2. \A p \in Actors : answer[p].token \notin Tokens BY ConstantTypes DEF Init, NoAnswer
  <2>3. ASSUME NEW l \in KeychainLocs, secrets[l] \in Tokens
        PROVE  issuedFor[secrets[l]] \in Known /\ l \in RefsOf(Migrate(issuedFor[secrets[l]]))
    <3>0. l \in Locs /\ l \notin EnvLocs BY <2>3, ConstantTypes DEF Locs
    <3>1. PICK c \in Legacy : c.legacy = l /\ secrets[l] = held[c]
      <4>1. secrets[l] = IF \E c \in Legacy : c.legacy = l
                         THEN held[CHOOSE c \in Legacy : c.legacy = l] ELSE None
        BY <1>1, <3>0
      <4> QED BY <2>3, <4>1, ConstantTypes
    <3>2. issuedFor[secrets[l]] = c BY <1>2, <3>1
    <3>3. c.refs = <<>> /\ c.legacy # None /\ c \in ConnType BY ConstantTypes
    <3>4. Migrate(c).refs = <<l>> BY <3>1, <3>3 DEF Migrate, ConnType
    <3> QED BY <1>3, <3>2, <3>4 DEF RefsOf
  <2> QED BY <2>1, <2>2, <2>3 DEF TokenInv
<1> QED BY <1>5, <1>6, <1>7 DEF Inv

\* Every step keeps the invariant.
LEMMA InvStep == Inv /\ [Next]_vars => Inv'
BY TypeStep, JobStep, TokenStep DEF Inv

THEOREM Invariance == Spec => []Inv
BY InvInit, InvStep, PTL DEF Spec

\* Every variable keeps its type, whatever the interleaving and the failures.
THEOREM TypeCorrect == Spec => []TypeOK
<1>1. Inv => TypeOK BY DEF Inv
<1> QED BY <1>1, Invariance, PTL

\* Whatever the number of callers of `connect`, `disconnect` and `resolve`, the
\* interleaving of their steps, the crashes and the failures, and whatever
\* connections share an item: `resolve` answers a host with a token only if the
\* host is of a connection that keeps its secret in an item of the one the token
\* was issued for.
THEOREM TokensConfined == Spec => []TokenConfinement
<1>1. Inv => TokenConfinement BY DEF Inv, TokenInv, TokenConfinement
<1> QED BY <1>1, Invariance, PTL

\* Where connections that share an item have the same hosts (no instance's host
\* name is the short name of another's provider), instances coexist: a token is
\* sent only to hosts of the connection it was issued for.
THEOREM TokensStayHome ==
  (\A c, d \in Known : Shares(c, d) => c.hosts = d.hosts) => (Spec => []InstancesCoexist)
<1> SUFFICES ASSUME \A c, d \in Known : Shares(c, d) => c.hosts = d.hosts
             PROVE  Spec => []InstancesCoexist
  OBVIOUS
<1>1. Inv => InstancesCoexist
  <2> SUFFICES ASSUME Inv, NEW p \in Actors, answer[p].token \in Tokens
               PROVE  answer[p].host \in issuedFor[answer[p].token].hosts
    BY DEF InstancesCoexist
  <2> DEFINE d == issuedFor[answer[p].token]
  <2>1. d \in Known BY DEF Inv, TokenInv
  <2>2. PICK c \in Known : answer[p].host \in c.hosts /\ Shares(c, Migrate(d))
    BY DEF Inv, TokenInv
  <2>3. Migrate(d) \in Known /\ Migrate(d).hosts = d.hosts BY <2>1, MigrateKnown
  <2> QED BY <2>2, <2>3
<1> QED BY <1>1, Invariance, PTL
----------------------------------------------------------------------------
(***************************************************************************)
(* With one writer, and any number of readers, ids stay unique: through    *)
(* crashes and failed saves too.  (Two writers can break it: see Over.)    *)
(***************************************************************************)
Unique(es) == \A d, e \in es : d.conn.id = e.conn.id => d = e

\* The writer's snapshot is unique, and what it truncated nobody else fills.
WriterInv ==
  /\ Unique(file.entries)
  /\ \A p \in Actors : Unique(job[p].snap)
  /\ \A p \in Actors : pc[p] = "write" => file.readable /\ file.entries = {}

LEMMA UniqueRanked ==
  ASSUME NEW es, NEW base, Unique(es)
  PROVE  Unique(Ranked(es, base))
<1> SUFFICES ASSUME NEW d \in Ranked(es, base), NEW e \in Ranked(es, base), d.conn.id = e.conn.id
             PROVE  d = e
  BY DEF Unique
<1>1. PICK x \in es : d = [rank |-> base + Below(es, x), conn |-> x.conn] BY DEF Ranked
<1>2. PICK y \in es : e = [rank |-> base + Below(es, y), conn |-> y.conn] BY DEF Ranked
<1>3. x = y BY <1>1, <1>2 DEF Unique
<1> QED BY <1>1, <1>2, <1>3

LEMMA UniqueLoaded == ASSUME TypeOK, Unique(file.entries) PROVE Unique(Loaded)
<1> SUFFICES ASSUME NEW d \in Loaded, NEW e \in Loaded, d.conn.id = e.conn.id PROVE d = e
  BY DEF Unique
<1>1. PICK x \in file.entries : d = [x EXCEPT !.conn = Migrate(@)] /\ d.conn.id = x.conn.id
  BY LoadedType
<1>2. PICK y \in file.entries : e = [y EXCEPT !.conn = Migrate(@)] /\ e.conn.id = y.conn.id
  BY LoadedType
<1> QED BY <1>1, <1>2 DEF Unique

LEMMA UniqueUpsert ==
  ASSUME NEW es \in SUBSET Entry, IsFiniteSet(es), NEW c, Unique(es)
  PROVE  Unique(Upsert(es, c))
<1> DEFINE kept == {e \in es : e.conn.id # c.id}
<1>1. Unique(kept) BY DEF Unique
<1>2. Unique(Ranked(kept, 1)) BY <1>1, UniqueRanked
<1>3. kept \in SUBSET Entry /\ IsFiniteSet(kept) BY FS_Subset
<1>4. \A r \in Ranked(kept, 1) : \E e \in kept : r.conn = e.conn BY <1>3, RankedType, 1 \in Nat
<1>5. \A r \in Ranked(kept, 1) : r.conn.id # c.id BY <1>4
<1>6. Upsert(es, c) = Ranked(kept, 1) \cup {[rank |-> 0, conn |-> c]} BY DEF Upsert
<1> HIDE DEF kept
<1> QED BY <1>2, <1>5, <1>6 DEF Unique

LEMMA UniqueWithout ==
  ASSUME NEW es, NEW id, Unique(es)
  PROVE  Unique(Without(es, id))
<1>1. Unique({e \in es : e.conn.id # id}) BY DEF Unique
<1> QED BY <1>1, UniqueRanked DEF Without

\* No step of a system with one writer breaks it.
LEMMA WriterStep ==
  ASSUME NEW w, Writers = {w}, TypeOK, JobInv, WriterInv, [Next]_vars
  PROVE  WriterInv'
<1> USE DEF history
<1>1. \A p \in Actors : pc[p] \in {"truncate", "write"} => p = w BY DEF JobInv
<1>2. Unique({}) BY DEF Unique
<1>3. CASE UNCHANGED vars BY <1>3 DEF vars, WriterInv
<1>4. ASSUME NEW p \in Actors, Return(p), Unique(file'.entries),
             pc[p] = "write" \/ UNCHANGED file
      PROVE  WriterInv'
  <2>1. \A q \in Actors : /\ job'[q] = IF q = p THEN NoJob ELSE job[q]
                          /\ pc'[q] = IF q = p THEN "idle" ELSE pc[q]
    BY <1>4 DEF Return, Goto, TypeOK
  <2>2. \A q \in Actors : Unique(job'[q].snap) BY <1>2, <2>1 DEF WriterInv, NoJob
  <2>3. ASSUME NEW q \in Actors, pc'[q] = "write" PROVE file'.readable /\ file'.entries = {}
    <3>1. q # p /\ pc[q] = "write" BY <2>1, <2>3
    <3>2. q = w BY <1>1, <3>1
    <3>3. UNCHANGED file BY <1>1, <1>4, <3>1, <3>2
    <3> QED BY <3>1, <3>3 DEF WriterInv
  <2> QED BY <1>4, <2>2, <2>3 DEF WriterInv
<1>5. ASSUME NEW p \in Actors, NEW es, Unique(es), UNCHANGED file,
             \A q \in Actors : job'[q].snap = IF q = p THEN es ELSE job[q].snap,
             NEW l, l # "write", Goto(p, l)
      PROVE  WriterInv'
  <2>1. \A q \in Actors : pc'[q] = IF q = p THEN l ELSE pc[q] BY <1>5 DEF Goto, TypeOK
  <2> QED BY <1>5, <2>1 DEF WriterInv
<1>6. ASSUME NEW p \in Actors, NEW c \in Presets, StartConnect(p, c) PROVE WriterInv'
  <2> DEFINE j(t) == [NoJob EXCEPT !.kind = "connect", !.id = c.id, !.conn = c, !.token = t]
  <2>1. PICK t \in Tokens : Begin(p, j(t)) BY <1>6 DEF StartConnect
  <2>2. j(t).snap = {} /\ j(t) \in JobType
    BY ConstantTypes, NoJobType DEF NoJob, JobType, Known, ConnType
  <2>3. IsFiniteSet(j(t).snap) BY <2>2, FS_EmptySet
  <2>4. \A q \in Actors : job'[q].snap = IF q = p THEN {} ELSE job[q].snap
    <3> HIDE DEF j
    <3> QED BY <2>1, <2>2, <2>3, BeginSnaps
  <2> QED BY <1>2, <1>5, <1>6, <2>4 DEF StartConnect
<1>7. ASSUME NEW p \in Actors, NEW id \in Ids, StartDisconnect(p, id) PROVE WriterInv'
  <2> DEFINE j == [NoJob EXCEPT !.kind = "disconnect", !.id = id]
  <2>1. j.snap = {} /\ j \in JobType BY NoJobType DEF NoJob, JobType
  <2>2. Begin(p, j) BY <1>7 DEF StartDisconnect
  <2>3. \A q \in Actors : job'[q].snap = IF q = p THEN {} ELSE job[q].snap
    <3> HIDE DEF j
    <3> QED BY <2>1, <2>2, BeginSnaps
  <2> QED BY <1>2, <1>5, <1>7, <2>3 DEF StartDisconnect
<1>8. ASSUME NEW p \in Actors, NEW h \in Hosts, StartResolve(p, h) PROVE WriterInv'
  <2>1. \A q \in Actors : job'[q].snap = IF q = p THEN {} ELSE job[q].snap
    BY <1>8 DEF StartResolve, TypeOK, NoJob
  <2> QED BY <1>2, <1>5, <1>8, <2>1 DEF StartResolve
<1>9. ASSUME NEW p \in Actors, StoreSecret(p) \/ EraseSecret(p) PROVE WriterInv'
  <2>1. \A q \in Actors : job'[q].snap = IF q = p THEN job[p].snap ELSE job[q].snap
    BY <1>9 DEF StoreSecret, EraseSecret
  <2>2. Unique(job[p].snap) BY DEF WriterInv
  <2> QED BY <1>5, <1>9, <2>1, <2>2 DEF StoreSecret, EraseSecret
<1>10. ASSUME NEW p \in Actors,
              \/ StoreFails(p) \/ NothingToDisconnect(p) \/ LoadFails(p) \/ ReadSecret(p)
              \/ Crash(p)
       PROVE  WriterInv'
  <2>1. Return(p) /\ UNCHANGED file
    BY <1>10 DEF StoreFails, NothingToDisconnect, LoadFails, ReadSecret, Crash
  <2> QED BY <1>4, <2>1 DEF WriterInv
<1>11. ASSUME NEW p \in Actors, LoadForConnect(p) PROVE WriterInv'
  <2> DEFINE u == Upsert(Loaded, job[p].conn)
  <2>1. Unique(u) BY LoadedType, UniqueLoaded, UniqueUpsert DEF WriterInv
  <2>2. job' = [job EXCEPT ![p].snap = u] BY <1>11 DEF LoadForConnect
  <2> HIDE DEF u
  <2>3. \A q \in Actors : job'[q].snap = IF q = p THEN u ELSE job[q].snap
    BY <2>2 DEF TypeOK, JobType
  <2> QED BY <1>5, <1>11, <2>1, <2>3 DEF LoadForConnect
<1>12. ASSUME NEW p \in Actors, LoadForDisconnect(p) PROVE WriterInv'
  <2> DEFINE u == Without(Loaded, job[p].id)
  <2>1. Unique(u) BY UniqueLoaded, UniqueWithout DEF WriterInv
  <2>2. PICK c : job' = [job EXCEPT ![p].conn = c, ![p].snap = u] BY <1>12 DEF LoadForDisconnect
  <2> HIDE DEF u
  <2>3. \A q \in Actors : job'[q].snap = IF q = p THEN u ELSE job[q].snap
    BY <2>2 DEF TypeOK, JobType
  <2> QED BY <1>5, <1>12, <2>1, <2>3 DEF LoadForDisconnect
<1>13. ASSUME NEW p \in Actors, LoadForResolve(p) PROVE WriterInv'
  <2>1. ASSUME NEW c, job' = [job EXCEPT ![p].conn = c], Goto(p, "read") PROVE WriterInv'
    <3>1. \A q \in Actors : job'[q].snap = IF q = p THEN job[p].snap ELSE job[q].snap
      BY <2>1 DEF TypeOK, JobType
    <3>2. Unique(job[p].snap) BY DEF WriterInv
    <3> QED BY <1>5, <1>13, <2>1, <3>1, <3>2 DEF LoadForResolve
  <2>2. CASE Return(p) BY <1>4, <1>13, <2>2 DEF LoadForResolve, WriterInv
  <2> QED BY <1>13, <2>1, <2>2 DEF LoadForResolve
<1>14. ASSUME NEW p \in Actors, Truncate(p) PROVE WriterInv'
  <2>1. file'.entries = {} /\ file'.readable BY <1>14 DEF Truncate
  <2>2. job' = job BY <1>14 DEF Truncate
  <2> QED BY <1>2, <2>1, <2>2 DEF WriterInv
<1>15. ASSUME NEW p \in Actors, WriteAll(p) PROVE WriterInv'
  <2>1. file.readable /\ file.entries = {} BY <1>15 DEF WriteAll, WriterInv
  <2>2. file' = [readable |-> TRUE, entries |-> job[p].snap]
    BY <1>15, <2>1 DEF WriteAll, Overwritten
  <2>3. Unique(file'.entries) BY <2>2 DEF WriterInv
  <2> QED BY <1>4, <1>15, <2>3 DEF WriteAll
<1>16. ASSUME NEW p \in Actors, SaveFails(p) PROVE WriterInv'
  <2>1. Return(p) /\ (file' = file \/ (pc[p] = "write" /\ file' = [readable |-> FALSE, entries |-> {}]))
    BY <1>16 DEF SaveFails
  <2>2. Unique(file'.entries) BY <1>2, <2>1 DEF WriterInv
  <2> QED BY <1>4, <2>1, <2>2
<1> QED BY <1>3, <1>6, <1>7, <1>8, <1>9, <1>10, <1>11, <1>12, <1>13, <1>14, <1>15, <1>16
        DEF Next

LEMMA WriterInit == Init => WriterInv
<1> SUFFICES ASSUME Init PROVE WriterInv
  OBVIOUS
<1>1. \/ file.entries = {}
      \/ \E c \in Legacy : file.entries = {[rank |-> 0, conn |-> c]}
  <2>1. \/ file = [readable |-> TRUE, entries |-> {}] \/ file = [readable |-> FALSE, entries |-> {}]
        \/ \E c \in Legacy : file = [readable |-> TRUE, entries |-> {[rank |-> 0, conn |-> c]}]
    BY DEF Init
  <2> QED BY <2>1
<1>2. Unique(file.entries) BY <1>1 DEF Unique
<1>3. Unique({}) BY DEF Unique
<1>4. \A p \in Actors : job[p].snap = {} /\ pc[p] = "idle" BY DEF Init, NoJob
<1> QED BY <1>2, <1>3, <1>4 DEF WriterInv

LEMMA UniqueShows == WriterInv => UniqueIds
BY DEF WriterInv, Unique, UniqueIds

\* With a single writer the registry lists every id once, however many readers
\* run, and whatever crashes and failures interrupt the writer.
THEOREM IdsUnique == (\E w : Writers = {w}) => (Spec => []UniqueIds)
<1> SUFFICES ASSUME \E w : Writers = {w} PROVE Spec => []UniqueIds
  OBVIOUS
<1>1. Inv /\ WriterInv /\ [Next]_vars => WriterInv' BY WriterStep DEF Inv
<1> QED BY <1>1, UniqueShows, WriterInit, Invariance, PTL DEF Spec
----------------------------------------------------------------------------
(***************************************************************************)
(* What a step does to the local variables, actor by actor.                *)
(***************************************************************************)
LEMMA MoveFacts ==
  ASSUME TypeOK, NEW p \in Actors, NEW j, NEW l, job' = [job EXCEPT ![p] = j], Goto(p, l)
  PROVE  /\ job'[p] = j /\ pc'[p] = l
         /\ \A q \in Actors \ {p} : job'[q] = job[q] /\ pc'[q] = pc[q]
BY DEF Goto, TypeOK

LEMMA ReturnFacts ==
  ASSUME TypeOK, NEW p \in Actors, Return(p)
  PROVE  /\ job'[p] = NoJob /\ pc'[p] = "idle"
         /\ \A q \in Actors \ {p} : job'[q] = job[q] /\ pc'[q] = pc[q]
BY DEF Return, Goto, TypeOK

\* Of the other actors, a change that begins touches nothing but `solo`.
LEMMA BeginFacts ==
  ASSUME TypeOK, NEW p \in Actors, NEW j \in JobType, NEW l, Begin(p, j), Goto(p, l)
  PROVE  /\ job'[p].kind = j.kind /\ job'[p].id = j.id /\ job'[p].conn = j.conn
         /\ job'[p].token = j.token /\ job'[p].snap = j.snap /\ pc'[p] = l
         /\ \A q \in Actors \ {p} :
              /\ job'[q].kind = job[q].kind /\ job'[q].id = job[q].id
              /\ job'[q].conn = job[q].conn /\ job'[q].token = job[q].token
              /\ job'[q].snap = job[q].snap /\ pc'[q] = pc[q]
<1>1. /\ job'[p].kind = j.kind /\ job'[p].id = j.id /\ job'[p].conn = j.conn
      /\ job'[p].token = j.token /\ job'[p].snap = j.snap /\ pc'[p] = l
  <2>1. pc'[p] = l BY DEF Goto, TypeOK
  <2>2. job'[p] = [j EXCEPT !.solo = (Rivals(p, j.id) = {})] BY DEF Begin
  <2> QED BY <2>1, <2>2 DEF JobType
<1>2. ASSUME NEW q \in Actors \ {p}
      PROVE  /\ job'[q].kind = job[q].kind /\ job'[q].id = job[q].id
             /\ job'[q].conn = job[q].conn /\ job'[q].token = job[q].token
             /\ job'[q].snap = job[q].snap /\ pc'[q] = pc[q]
  <2>1. pc'[q] = pc[q] /\ job[q] \in JobType BY DEF Goto, TypeOK
  <2>2. job'[q] = [job[q] EXCEPT !.solo = FALSE] \/ job'[q] = job[q] BY DEF Begin
  <2> QED BY <2>1, <2>2 DEF JobType
<1> QED BY <1>1, <1>2

\* The local variables of a change that begins.
Connecting(c, t)  == [NoJob EXCEPT !.kind = "connect", !.id = c.id, !.conn = c, !.token = t]
Disconnecting(id) == [NoJob EXCEPT !.kind = "disconnect", !.id = id]

LEMMA BeginJobType ==
  /\ \A c \in Presets, t \in Tokens :
       /\ Connecting(c, t) \in JobType /\ Connecting(c, t).kind = "connect"
       /\ Connecting(c, t).id = c.id /\ Connecting(c, t).conn = c
       /\ Connecting(c, t).token = t /\ Connecting(c, t).snap = {}
  /\ \A id \in Ids :
       /\ Disconnecting(id) \in JobType /\ Disconnecting(id).kind = "disconnect"
       /\ Disconnecting(id).id = id /\ Disconnecting(id).snap = {}
BY ConstantTypes DEF Connecting, Disconnecting, NoJob, JobType, Known, ConnType
----------------------------------------------------------------------------
(***************************************************************************)
(* A connection is listed only after its secret was stored. The file, and  *)
(* every snapshot on its way there, hold ids that have been stored.        *)
(***************************************************************************)
StoredInv ==
  /\ \A e \in file.entries : e.conn.id \in stored
  /\ \A p \in Actors : \A e \in job[p].snap : e.conn.id \in stored
  /\ \A p \in Actors : job[p].kind = "connect" /\ pc[p] # "store" => job[p].id \in stored

LEMMA StoredStep ==
  ASSUME TypeOK, JobInv, StoredInv, [Next]_vars
  PROVE  StoredInv'
<1> USE DEF history
<1>1. CASE UNCHANGED vars BY <1>1 DEF vars, StoredInv
<1>2. ASSUME NEW p \in Actors, NEW j, NEW l, job' = [job EXCEPT ![p] = j], Goto(p, l),
             \A e \in j.snap : e.conn.id \in stored,
             j.kind = "connect" /\ l # "store" => j.id \in stored',
             UNCHANGED file, stored \subseteq stored'
      PROVE  StoredInv'
  <2>1. /\ job'[p] = j /\ pc'[p] = l
        /\ \A q \in Actors \ {p} : job'[q] = job[q] /\ pc'[q] = pc[q]
    BY <1>2, MoveFacts
  <2> QED BY <1>2, <2>1 DEF StoredInv
<1>3. ASSUME NEW p \in Actors, Return(p), \A e \in file'.entries : e.conn.id \in stored,
             UNCHANGED stored
      PROVE  StoredInv'
  <2>1. /\ job'[p] = NoJob /\ pc'[p] = "idle"
        /\ \A q \in Actors \ {p} : job'[q] = job[q] /\ pc'[q] = pc[q]
    BY <1>3, ReturnFacts
  <2> QED BY <1>3, <2>1 DEF StoredInv, NoJob
<1>4. ASSUME NEW p \in Actors, NEW j \in JobType, NEW l, Begin(p, j), Goto(p, l), j.snap = {},
             l # "store" => j.kind = "disconnect", UNCHANGED <<file, stored>>
      PROVE  StoredInv'
  <2>1. job'[p].snap = {} /\ (pc'[p] # "store" => job'[p].kind = "disconnect")
    BY <1>4, BeginFacts
  <2>2. \A q \in Actors \ {p} : /\ job'[q].snap = job[q].snap /\ job'[q].kind = job[q].kind
                                /\ job'[q].id = job[q].id /\ pc'[q] = pc[q]
    BY <1>4, BeginFacts
  <2> QED BY <1>4, <2>1, <2>2 DEF StoredInv
<1>5. ASSUME NEW p \in Actors,
             (\E c \in Presets : StartConnect(p, c)) \/ (\E id \in Ids : StartDisconnect(p, id))
      PROVE  StoredInv'
  <2>1. ASSUME NEW c \in Presets, StartConnect(p, c) PROVE StoredInv'
    <3>1. PICK t \in Tokens : Begin(p, Connecting(c, t)) BY <2>1 DEF StartConnect, Connecting
    <3> QED BY <1>4, <2>1, <3>1, BeginJobType DEF StartConnect
  <2>2. ASSUME NEW id \in Ids, StartDisconnect(p, id) PROVE StoredInv'
    <3>1. Begin(p, Disconnecting(id)) BY <2>2 DEF StartDisconnect, Disconnecting
    <3> QED BY <1>4, <2>2, <3>1, BeginJobType DEF StartDisconnect
  <2> QED BY <1>5, <2>1, <2>2
<1>6. ASSUME NEW p \in Actors, NEW h \in Hosts, StartResolve(p, h) PROVE StoredInv'
  <2> DEFINE j == [NoJob EXCEPT !.kind = "resolve", !.host = h]
  <2>1. j.snap = {} /\ j.kind = "resolve" BY DEF NoJob
  <2>2. job' = [job EXCEPT ![p] = j] BY <1>6 DEF StartResolve
  <2> HIDE DEF j
  <2> QED BY <1>2, <1>6, <2>1, <2>2 DEF StartResolve
<1>7. ASSUME NEW p \in Actors, StoreSecret(p) PROVE StoredInv'
  <2>1. job' = [job EXCEPT ![p] = job[p]] BY <1>7 DEF StoreSecret, TypeOK
  <2> QED BY <1>2, <1>7, <2>1 DEF StoreSecret, StoredInv
<1>8. ASSUME NEW p \in Actors,
             \/ StoreFails(p) \/ NothingToDisconnect(p) \/ LoadFails(p) \/ ReadSecret(p)
             \/ Crash(p)
      PROVE  StoredInv'
  <2>1. Return(p) /\ UNCHANGED <<file, stored>>
    BY <1>8 DEF StoreFails, NothingToDisconnect, LoadFails, ReadSecret, Crash
  <2> QED BY <1>3, <2>1 DEF StoredInv
<1>9. ASSUME NEW p \in Actors, LoadForConnect(p) PROVE StoredInv'
  <2> DEFINE u == Upsert(Loaded, job[p].conn)
  <2>1. job[p].conn \in Known /\ job[p].id = job[p].conn.id
    BY <1>9 DEF LoadForConnect, JobInv, Known
  <2>2. \A r \in u : r.conn = job[p].conn \/ \E e \in Loaded : r.conn = e.conn
    BY <2>1, LoadedType, UpsertType
  <2>3. job[p].id \in stored BY <1>9 DEF LoadForConnect, StoredInv
  <2>4. \A e \in u : e.conn.id \in stored BY <2>1, <2>2, <2>3, LoadedType DEF StoredInv
  <2> DEFINE j == [job[p] EXCEPT !.snap = u]
  <2>5. job' = [job EXCEPT ![p] = j] BY <1>9 DEF LoadForConnect
  <2> HIDE DEF u
  <2>6. j.snap = u /\ j.id = job[p].id BY DEF TypeOK, JobType
  <2> HIDE DEF j
  <2> QED BY <1>2, <1>9, <2>3, <2>4, <2>5, <2>6 DEF LoadForConnect
<1>10. ASSUME NEW p \in Actors, LoadForDisconnect(p) PROVE StoredInv'
  <2> DEFINE u == Without(Loaded, job[p].id)
  <2>1. \A e \in u : e.conn.id \in stored BY LoadedType, WithoutType DEF StoredInv
  <2>2. PICK c : job' = [job EXCEPT ![p].conn = c, ![p].snap = u] BY <1>10 DEF LoadForDisconnect
  <2> HIDE DEF u
  <2> DEFINE j == [job[p] EXCEPT !.conn = c, !.snap = u]
  <2>3. job' = [job EXCEPT ![p] = j] BY <2>2
  <2>4. j.snap = u /\ j.kind = "disconnect" BY <1>10 DEF LoadForDisconnect, TypeOK, JobType
  <2> HIDE DEF j
  <2> QED BY <1>2, <1>10, <2>1, <2>3, <2>4 DEF LoadForDisconnect
<1>11. ASSUME NEW p \in Actors, LoadForResolve(p) PROVE StoredInv'
  <2>1. ASSUME NEW c, job' = [job EXCEPT ![p].conn = c], Goto(p, "read") PROVE StoredInv'
    <3> DEFINE j == [job[p] EXCEPT !.conn = c]
    <3>1. job' = [job EXCEPT ![p] = j] BY <2>1
    <3>2. j.snap = job[p].snap /\ j.kind = "resolve" BY <1>11 DEF LoadForResolve, TypeOK, JobType
    <3> HIDE DEF j
    <3> QED BY <1>2, <1>11, <2>1, <3>1, <3>2 DEF LoadForResolve, StoredInv
  <2>2. CASE Return(p) BY <1>3, <1>11, <2>2 DEF LoadForResolve, StoredInv
  <2> QED BY <1>11, <2>1, <2>2 DEF LoadForResolve
<1>12. ASSUME NEW p \in Actors, EraseSecret(p) PROVE StoredInv'
  <2>1. job' = [job EXCEPT ![p] = job[p]] BY <1>12 DEF EraseSecret, TypeOK
  <2>2. job[p].kind = "disconnect" BY <1>12 DEF EraseSecret, JobInv
  <2> QED BY <1>2, <1>12, <2>1, <2>2 DEF EraseSecret, StoredInv
<1>13. ASSUME NEW p \in Actors, Truncate(p) PROVE StoredInv'
  <2>1. \A q \in Actors : pc'[q] = "store" <=> pc[q] = "store" BY <1>13 DEF Truncate, Goto, TypeOK
  <2> QED BY <1>13, <2>1 DEF Truncate, StoredInv
<1>14. ASSUME NEW p \in Actors, WriteAll(p) PROVE StoredInv'
  <2>1. job[p].snap \in SUBSET Entry /\ IsFiniteSet(job[p].snap) BY DEF TypeOK, JobType
  <2>2. \A r \in file'.entries : \E e \in job[p].snap \cup file.entries : r.conn = e.conn
    BY <1>14, <2>1, OverwrittenType DEF WriteAll
  <2>3. \A e \in file'.entries : e.conn.id \in stored BY <2>2 DEF StoredInv
  <2> QED BY <1>3, <1>14, <2>3 DEF WriteAll
<1>15. ASSUME NEW p \in Actors, SaveFails(p) PROVE StoredInv'
  <2>1. file' = file \/ file' = [readable |-> FALSE, entries |-> {}] BY <1>15 DEF SaveFails
  <2> QED BY <1>3, <1>15, <2>1 DEF SaveFails, StoredInv
<1> QED BY <1>1, <1>5, <1>6, <1>7, <1>8, <1>9, <1>10, <1>11, <1>12, <1>13, <1>14, <1>15 DEF Next

LEMMA StoredInit == Init => StoredInv
<1> SUFFICES ASSUME Init PROVE StoredInv
  OBVIOUS
<1>1. \/ file.entries = {}
      \/ \E c \in Legacy : file.entries = {[rank |-> 0, conn |-> c]}
  <2>1. \/ file = [readable |-> TRUE, entries |-> {}] \/ file = [readable |-> FALSE, entries |-> {}]
        \/ \E c \in Legacy : file = [readable |-> TRUE, entries |-> {[rank |-> 0, conn |-> c]}]
    BY DEF Init
  <2> QED BY <2>1
<1>2. \A c \in Legacy : c.id \in stored BY DEF Init
<1>3. \A e \in file.entries : e.conn.id \in stored BY <1>1, <1>2
<1>4. \A p \in Actors : job[p] = NoJob BY DEF Init
<1> QED BY <1>3, <1>4 DEF StoredInv, NoJob

LEMMA StoredShows == StoredInv => StoredBeforeListed
BY DEF StoredInv, StoredBeforeListed

\* Whatever the interleaving, the crashes and the failures: an entry of the file
\* has had its secret stored (`persist` stores before it saves, and saves nothing
\* that was not loaded or stored).
THEOREM StoredFirst == Spec => []StoredBeforeListed
<1>1. Inv /\ StoredInv /\ [Next]_vars => StoredInv' BY StoredStep DEF Inv
<1> QED BY <1>1, StoredShows, StoredInit, Invariance, PTL DEF Spec
----------------------------------------------------------------------------
(***************************************************************************)
(* The connections of a registry that is loaded, upserted or pruned.       *)
(***************************************************************************)
LEMMA InConns == \A es, c : c \in Conns(es) <=> \E e \in es : e.conn = c
BY DEF Conns

LEMMA ConnsRanked ==
  ASSUME NEW es, NEW base
  PROVE  Conns(Ranked(es, base)) = Conns(es)
<1>1. \A c \in Conns(es) : c \in Conns(Ranked(es, base))
  <2> SUFFICES ASSUME NEW e \in es PROVE e.conn \in Conns(Ranked(es, base))
    BY DEF Conns
  <2>1. [rank |-> base + Below(es, e), conn |-> e.conn] \in Ranked(es, base) BY DEF Ranked
  <2> QED BY <2>1 DEF Conns
<1>2. \A c \in Conns(Ranked(es, base)) : c \in Conns(es)
  <2> SUFFICES ASSUME NEW e \in Ranked(es, base) PROVE e.conn \in Conns(es)
    BY DEF Conns
  <2>1. \E d \in es : e.conn = d.conn BY DEF Ranked
  <2> QED BY <2>1 DEF Conns
<1> QED BY <1>1, <1>2

LEMMA ConnsKept ==
  ASSUME NEW es, NEW id
  PROVE  Conns({e \in es : e.conn.id # id}) = {d \in Conns(es) : d.id # id}
<1>1. \A d : d \in Conns({e \in es : e.conn.id # id}) <=> d \in Conns(es) /\ d.id # id
  BY DEF Conns
<1> QED BY <1>1

LEMMA ConnsUpsert ==
  ASSUME NEW es, NEW c
  PROVE  Conns(Upsert(es, c)) = {d \in Conns(es) : d.id # c.id} \cup {c}
<1> DEFINE kept == {e \in es : e.conn.id # c.id}
<1>1. Conns(kept) = {d \in Conns(es) : d.id # c.id} BY ConnsKept
<1>2. Conns(Ranked(kept, 1)) = Conns(kept) BY ConnsRanked
<1>3. Upsert(es, c) = Ranked(kept, 1) \cup {[rank |-> 0, conn |-> c]} BY DEF Upsert
<1> HIDE DEF kept
<1> DEFINE last == [rank |-> 0, conn |-> c]
<1>4. Upsert(es, c) = Ranked(kept, 1) \cup {last} /\ last.conn = c BY <1>3
<1> HIDE DEF last
<1>5. \A d : d \in Conns(Upsert(es, c)) <=> d \in Conns(Ranked(kept, 1)) \/ d = c
  BY <1>4, InConns
<1> QED BY <1>1, <1>2, <1>5

LEMMA ConnsWithout ==
  ASSUME NEW es, NEW id
  PROVE  Conns(Without(es, id)) = {d \in Conns(es) : d.id # id}
<1>1. Conns(Without(es, id)) = Conns({e \in es : e.conn.id # id}) BY ConnsRanked DEF Without
<1> QED BY <1>1, ConnsKept

LEMMA ConnsLoaded ==
  ASSUME TypeOK
  PROVE  /\ Conns(Loaded) = {Migrate(c) : c \in Conns(file.entries)}
         /\ Conns(file.entries) \subseteq Known /\ Conns(Loaded) \subseteq Known
<1>1. \A e \in file.entries : [e EXCEPT !.conn = Migrate(@)].conn = Migrate(e.conn)
  BY DEF TypeOK, Entry
<1>2. Conns(Loaded) = {Migrate(c) : c \in Conns(file.entries)}
  <2>1. \A r : r \in Loaded <=> \E e \in file.entries : r = [e EXCEPT !.conn = Migrate(@)]
    BY DEF Loaded
  <2>2. ASSUME NEW d \in Conns(Loaded) PROVE \E c \in Conns(file.entries) : d = Migrate(c)
    <3>1. PICK r \in Loaded : r.conn = d BY InConns
    <3>2. PICK e \in file.entries : r = [e EXCEPT !.conn = Migrate(@)] BY <2>1
    <3>3. d = Migrate(e.conn) /\ e.conn \in Conns(file.entries) BY <1>1, <3>1, <3>2, InConns
    <3> QED BY <3>3
  <2>3. ASSUME NEW c \in Conns(file.entries) PROVE Migrate(c) \in Conns(Loaded)
    <3>1. PICK e \in file.entries : e.conn = c BY InConns
    <3>2. [e EXCEPT !.conn = Migrate(@)] \in Loaded BY <2>1
    <3>3. [e EXCEPT !.conn = Migrate(@)].conn = Migrate(c) BY <1>1, <3>1
    <3> QED BY <3>2, <3>3, InConns
  <2> QED BY <2>2, <2>3
<1>3. Conns(file.entries) \subseteq Known BY DEF Conns, TypeOK, Entry
<1> QED BY <1>2, <1>3, MigrateKnown

LEMMA ListedConns == \A es, id : Listed(es, id) <=> \E c \in Conns(es) : c.id = id
BY DEF Listed, Conns

\* A preset is loaded as it was saved.
LEMMA MigratePreset == \A c \in Presets : Migrate(c) = c /\ c \in Known /\ c.id \in Ids
BY ConstantTypes DEF Migrate, Known, ConnType

\* No keychain item serves connections of two ids.
LEMMA ItemsApart ==
  ASSUME NEW c \in Known, NEW d \in Known,
         NEW l \in KeychainLocs, l \in RefsOf(c), l \in RefsOf(d)
  PROVE  c.id = d.id
BY ItemsSeparate DEF Shares

LEMMA KnownRefs == \A c \in Known : RefsOf(c) \subseteq Locs
BY MigrateKnown DEF RefsOf, ConnType
----------------------------------------------------------------------------
(***************************************************************************)
(* What `connect` told its caller stays true until the id is changed       *)
(* again: the entry survives every change of another id, in the snapshot   *)
(* while the file is empty, and the keychain item is no other id's.        *)
(***************************************************************************)
Holds(c, t) == \E l \in RefsOf(c) \cap KeychainLocs : secrets[l] = t

KeptFacts(id) ==
  LET c == promise[id].conn IN
  /\ c \in Presets /\ c.id = id /\ Holds(c, promise[id].token) /\ file.readable
  /\ c \in Conns(file.entries) \/ \E p \in Actors : pc[p] = "write"
  /\ \A p \in Actors : /\ job[p].id # id
                       /\ pc[p] \in {"erase", "truncate", "write"} => c \in Conns(job[p].snap)

ConnectFacts(p) ==
  /\ job[p].kind = "connect" /\ pc[p] # "store" =>
       /\ Holds(job[p].conn, job[p].token)
       /\ pc[p] # "load" => job[p].conn \in Conns(job[p].snap)
  /\ pc[p] = "erase" => job[p].conn.id = job[p].id
  /\ p \notin Writers => job[p].id = None

ConnectedInv ==
  /\ \A id \in Ids : promise[id].kind = "connected" => KeptFacts(id)
  /\ \A p \in Actors : ConnectFacts(p)

\* An actor that moves on, its local variables changed to j, and leaves the file,
\* the secrets and the promises alone.
LEMMA ConnectedMove ==
  ASSUME TypeOK, JobInv, ConnectedInv,
         NEW p \in Actors, NEW j, NEW l, job' = [job EXCEPT ![p] = j], Goto(p, l),
         UNCHANGED <<file, secrets, promise>>,
         pc[p] # "write", l # "write", j.id = job[p].id \/ j.id = None,
         l \in {"erase", "truncate"} =>
           /\ \A q \in Actors : pc[q] # "write"
           /\ \A c \in Presets : c.id # job[p].id /\ c \in Conns(file.entries) => c \in Conns(j.snap),
         j.kind = "connect" /\ l # "store" =>
           /\ Holds(j.conn, j.token)
           /\ l # "load" => j.conn \in Conns(j.snap),
         l = "erase" => j.conn.id = j.id
  PROVE  ConnectedInv'
<1>1. /\ job'[p] = j /\ pc'[p] = l
      /\ \A q \in Actors \ {p} : job'[q] = job[q] /\ pc'[q] = pc[q]
  BY MoveFacts
<1>2. \A c, t : Holds(c, t)' <=> Holds(c, t) BY DEF Holds
<1>3. \A q \in Actors : ConnectFacts(q)'
  <2>1. ConnectFacts(p)'
    <3>1. p \notin Writers => job[p].id = None BY DEF ConnectedInv, ConnectFacts
    <3> QED BY <1>1, <3>1 DEF ConnectFacts, Holds
  <2>2. \A q \in Actors \ {p} : ConnectFacts(q)' BY <1>1 DEF ConnectedInv, ConnectFacts, Holds
  <2> QED BY <2>1, <2>2
<1>4. ASSUME NEW id \in Ids, promise'[id].kind = "connected" PROVE KeptFacts(id)'
  <2> DEFINE c == promise[id].conn
  <2>1. KeptFacts(id) BY <1>4 DEF ConnectedInv
  <2>2. c \in Presets /\ c.id = id /\ Holds(c, promise[id].token)' /\ file'.readable
    BY <1>2, <2>1 DEF KeptFacts
  <2>3. \A q \in Actors : job'[q].id # id BY <1>1, <2>1, ConstantTypes DEF KeptFacts
  <2>4. c \in Conns(file.entries) \/ \E q \in Actors \ {p} : pc'[q] = "write"
    BY <1>1, <2>1 DEF KeptFacts
  <2>5. \A q \in Actors \ {p} : pc'[q] \in {"erase", "truncate", "write"} => c \in Conns(job'[q].snap)
    BY <1>1, <2>1 DEF KeptFacts
  <2>6. pc'[p] \in {"erase", "truncate", "write"} => c \in Conns(job'[p].snap)
    <3>1. job[p].id # id BY <2>1 DEF KeptFacts
    <3> QED BY <1>1, <2>1, <2>2, <3>1 DEF KeptFacts
  <2>7. c \in Conns(file'.entries) \/ \E q \in Actors : pc'[q] = "write" BY <2>4
  <2>8. \A q \in Actors : pc'[q] \in {"erase", "truncate", "write"} => c \in Conns(job'[q].snap)
    BY <2>5, <2>6
  <2>9. promise' = promise OBVIOUS
  <2> QED BY <2>2, <2>3, <2>7, <2>8, <2>9 DEF KeptFacts
<1> QED BY <1>3, <1>4 DEF ConnectedInv

\* The other actors, when one that has the file or a secret at hand moves on, or
\* begins or ends a change.
LEMMA ConnectedStep ==
  ASSUME NEW w, Writers = {w}, Faults \cap {"disk", "crash"} = {},
         TypeOK, JobInv, WriterInv, ConnectedInv, [Next]_vars
  PROVE  ConnectedInv'
<1> USE DEF history
<1>1. \A q \in Actors : /\ pc[q] \in {"store", "erase", "truncate", "write"} => q = w
                        /\ job[q].kind \in {"connect", "disconnect"} => q = w
  BY DEF JobInv
<1>2. \A q \in Actors : ConnectFacts(q) BY DEF ConnectedInv
<1>3. \A id \in Ids : promise[id].kind = "connected" => KeptFacts(id) BY DEF ConnectedInv
<1>4. CASE UNCHANGED vars BY <1>4 DEF vars, ConnectedInv, KeptFacts, ConnectFacts, Holds
<1>5. ASSUME NEW p \in Writers, NEW j \in JobType, NEW l, Begin(p, j), Goto(p, l), j.id \in Ids,
             l \in {"store", "load"}, j.kind = "connect" => l = "store",
             pc[p] = "idle", UNCHANGED <<file, secrets>>
      PROVE  ConnectedInv'
  <2>1. /\ job'[p].kind = j.kind /\ job'[p].id = j.id /\ pc'[p] = l
        /\ \A q \in Actors \ {p} :
             /\ job'[q].kind = job[q].kind /\ job'[q].id = job[q].id
             /\ job'[q].conn = job[q].conn /\ job'[q].token = job[q].token
             /\ job'[q].snap = job[q].snap /\ pc'[q] = pc[q]
    BY <1>5, BeginFacts DEF Actors
  <2>2. \A q \in Actors : ConnectFacts(q)'
    <3>1. ConnectFacts(p)' BY <1>5, <2>1 DEF ConnectFacts
    <3>2. \A q \in Actors \ {p} : ConnectFacts(q)' BY <1>2, <1>5, <2>1 DEF ConnectFacts, Holds
    <3> QED BY <3>1, <3>2
  <2>3. ASSUME NEW id \in Ids, promise'[id].kind = "connected" PROVE KeptFacts(id)'
    <3>1. promise' = [promise EXCEPT ![j.id] = NoPromise] /\ NoPromise.kind = "none"
      BY <1>5 DEF Begin, NoPromise, Promise
    <3>2. id # j.id /\ promise'[id] = promise[id] BY <2>3, <3>1 DEF TypeOK
    <3>3. KeptFacts(id) BY <1>3, <2>3, <3>2
    <3>4. \A q \in Actors : job'[q].id # id BY <2>1, <3>2, <3>3 DEF KeptFacts
    <3>5. \A q \in Actors : pc[q] = "write" => pc'[q] = "write" BY <1>5, <2>1
    <3>6. \A q \in Actors : pc'[q] \in {"erase", "truncate", "write"} =>
            promise[id].conn \in Conns(job'[q].snap)
      BY <1>5, <2>1, <3>3 DEF KeptFacts
    <3> QED BY <1>5, <3>2, <3>3, <3>4, <3>5, <3>6 DEF KeptFacts, Holds
  <2> QED BY <2>2, <2>3 DEF ConnectedInv
<1>6. ASSUME NEW p \in Actors, Return(p), UNCHANGED <<file, secrets, promise>>, pc[p] # "write"
      PROVE  ConnectedInv'
  <2>1. job' = [job EXCEPT ![p] = NoJob] /\ Goto(p, "idle") BY <1>6 DEF Return
  <2>2. NoJob.kind = "none" /\ NoJob.id = None BY DEF NoJob
  <2> QED BY <1>6, <2>1, <2>2, ConnectedMove
<1>7. ASSUME NEW p \in Actors,
             (\E c \in Presets : StartConnect(p, c)) \/ (\E id \in Ids : StartDisconnect(p, id))
      PROVE  ConnectedInv'
  <2>1. ASSUME NEW c \in Presets, StartConnect(p, c) PROVE ConnectedInv'
    <3>1. PICK t \in Tokens : Begin(p, Connecting(c, t)) BY <2>1 DEF StartConnect, Connecting
    <3> QED BY <1>5, <2>1, <3>1, BeginJobType, MigratePreset DEF StartConnect
  <2>2. ASSUME NEW id \in Ids, StartDisconnect(p, id) PROVE ConnectedInv'
    <3>1. Begin(p, Disconnecting(id)) BY <2>2 DEF StartDisconnect, Disconnecting
    <3> QED BY <1>5, <2>2, <3>1, BeginJobType DEF StartDisconnect
  <2> QED BY <1>7, <2>1, <2>2
<1>8. ASSUME NEW p \in Actors, NEW h \in Hosts, StartResolve(p, h) PROVE ConnectedInv'
  <2> DEFINE j == [NoJob EXCEPT !.kind = "resolve", !.host = h]
  <2>1. j.id = None /\ j.kind = "resolve" BY DEF NoJob
  <2>2. job' = [job EXCEPT ![p] = j] BY <1>8 DEF StartResolve
  <2> HIDE DEF j
  <2> QED BY <1>8, <2>1, <2>2, ConnectedMove DEF StartResolve
<1>9. ASSUME NEW p \in Actors,
             \/ StoreFails(p) \/ NothingToDisconnect(p) \/ LoadFails(p) \/ ReadSecret(p)
      PROVE  ConnectedInv'
  <2>1. Return(p) /\ UNCHANGED <<file, secrets, promise>> /\ pc[p] # "write"
    BY <1>9 DEF StoreFails, NothingToDisconnect, LoadFails, ReadSecret
  <2> QED BY <1>6, <2>1
<1>10. ASSUME NEW p \in Actors, LoadForConnect(p) PROVE ConnectedInv'
  <2> DEFINE u == Upsert(Loaded, job[p].conn)
  <2> DEFINE j == [job[p] EXCEPT !.snap = u]
  <2>1. job' = [job EXCEPT ![p] = j] /\ p = w BY <1>1, <1>10 DEF LoadForConnect
  <2>2. job[p].conn \in Presets /\ job[p].id = job[p].conn.id BY <1>10 DEF LoadForConnect, JobInv
  <2>3. Conns(u) = {d \in Conns(Loaded) : d.id # job[p].id} \cup {job[p].conn}
    BY <2>2, ConnsUpsert
  <2>4. \A c \in Presets : c \in Conns(file.entries) => c \in Conns(Loaded)
    BY ConnsLoaded, MigratePreset
  <2>5. Holds(job[p].conn, job[p].token) BY <1>2, <1>10 DEF LoadForConnect, ConnectFacts
  <2> HIDE DEF u
  <2>6. /\ j.snap = u /\ j.id = job[p].id /\ j.kind = job[p].kind /\ j.conn = job[p].conn
        /\ j.token = job[p].token
    BY DEF TypeOK, JobType
  <2> HIDE DEF j
  <2>7. /\ pc[p] = "load" /\ Goto(p, "truncate") /\ UNCHANGED <<file, secrets, promise>>
    BY <1>10 DEF LoadForConnect
  <2>8. \A q \in Actors : pc[q] # "write" BY <1>1, <2>1, <2>7
  <2>9. \A c \in Presets : c.id # job[p].id /\ c \in Conns(file.entries) => c \in Conns(j.snap)
    BY <2>3, <2>4, <2>6
  <2> QED BY <2>1, <2>3, <2>5, <2>6, <2>7, <2>8, <2>9, ConnectedMove
<1>11. ASSUME NEW p \in Actors, LoadForDisconnect(p) PROVE ConnectedInv'
  <2> DEFINE u == Without(Loaded, job[p].id)
  <2>1. PICK c \in FirstOf({e \in Loaded : e.conn.id = job[p].id}) :
          job' = [job EXCEPT ![p].conn = c, ![p].snap = u]
    BY <1>11 DEF LoadForDisconnect
  <2>2. c.id = job[p].id BY DEF FirstOf
  <2> DEFINE j == [job[p] EXCEPT !.conn = c, !.snap = u]
  <2>3. job' = [job EXCEPT ![p] = j] BY <2>1
  <2>4. Conns(u) = {d \in Conns(Loaded) : d.id # job[p].id} BY ConnsWithout
  <2>5. \A d \in Presets : d \in Conns(file.entries) => d \in Conns(Loaded)
    BY ConnsLoaded, MigratePreset
  <2> HIDE DEF u
  <2>6. j.snap = u /\ j.id = job[p].id /\ j.kind = job[p].kind /\ j.conn = c BY DEF TypeOK, JobType
  <2> HIDE DEF j
  <2>7. /\ pc[p] = "load" /\ Goto(p, "erase") /\ UNCHANGED <<file, secrets, promise>>
        /\ p = w /\ job[p].kind = "disconnect"
    BY <1>1, <1>11 DEF LoadForDisconnect
  <2>8. \A q \in Actors : pc[q] # "write" BY <1>1, <2>7
  <2>9. \A d \in Presets : d.id # job[p].id /\ d \in Conns(file.entries) => d \in Conns(j.snap)
    BY <2>4, <2>5, <2>6
  <2> QED BY <2>2, <2>3, <2>6, <2>7, <2>8, <2>9, ConnectedMove
<1>12. ASSUME NEW p \in Actors, LoadForResolve(p) PROVE ConnectedInv'
  <2>1. ASSUME NEW c, job' = [job EXCEPT ![p].conn = c], Goto(p, "read") PROVE ConnectedInv'
    <3> DEFINE j == [job[p] EXCEPT !.conn = c]
    <3>1. job' = [job EXCEPT ![p] = j] BY <2>1
    <3>2. j.id = job[p].id /\ j.kind = "resolve" BY <1>12 DEF LoadForResolve, TypeOK, JobType
    <3> HIDE DEF j
    <3>3. pc[p] = "load" /\ UNCHANGED <<file, secrets, promise>> BY <1>12 DEF LoadForResolve
    <3> QED BY <2>1, <3>1, <3>2, <3>3, ConnectedMove
  <2>2. CASE Return(p) BY <1>6, <1>12, <2>2 DEF LoadForResolve
  <2> QED BY <1>12, <2>1, <2>2 DEF LoadForResolve
<1>13. ASSUME NEW p \in Actors, StoreSecret(p) PROVE ConnectedInv'
  <2> DEFINE c == job[p].conn
  <2>1. /\ c \in Presets /\ c \in Known /\ c.id = job[p].id /\ job[p].kind = "connect"
        /\ p = w
    BY <1>1, <1>13, MigratePreset DEF StoreSecret, JobInv
  <2>2. PICK i \in DOMAIN c.refs :
          c.refs[i] \in KeychainLocs /\ secrets' = [secrets EXCEPT ![c.refs[i]] = job[p].token]
    BY <1>13 DEF StoreSecret
  <2> DEFINE l == c.refs[i]
  <2>3. l \in RefsOf(c) \cap KeychainLocs BY <2>2 DEF RefsOf
  <2>4. secrets'[l] = job[p].token /\ \A k \in Locs \ {l} : secrets'[k] = secrets[k]
    BY <2>2 DEF TypeOK, Locs
  <2> HIDE DEF l
  <2>5. job' = job /\ file' = file /\ promise' = promise BY <1>13 DEF StoreSecret
  <2>6. pc'[p] = "load" /\ \A q \in Actors \ {p} : pc'[q] = pc[q]
    BY <1>13 DEF StoreSecret, Goto, TypeOK
  <2>7. ASSUME NEW q \in Actors PROVE ConnectFacts(q)'
    <3>1. CASE q = p BY <2>1, <2>3, <2>4, <2>5, <2>6, <3>1 DEF ConnectFacts, Holds
    <3>2. CASE q # p
      <4>1. job[q].kind # "connect" BY <1>1, <2>1, <3>2
      <4> QED BY <1>2, <2>5, <2>6, <3>2, <4>1 DEF ConnectFacts
    <3> QED BY <3>1, <3>2
  <2>8. ASSUME NEW id \in Ids, promise'[id].kind = "connected" PROVE KeptFacts(id)'
    <3>1. KeptFacts(id) BY <1>3, <2>5, <2>8
    <3> DEFINE d == promise[id].conn
    <3>2. PICK k \in RefsOf(d) \cap KeychainLocs : secrets[k] = promise[id].token
      BY <3>1 DEF KeptFacts, Holds
    <3>3. d \in Known /\ d.id # c.id BY <2>1, <3>1, MigratePreset DEF KeptFacts
    <3>4. k # l BY <2>1, <2>3, <3>2, <3>3, ItemsApart
    <3>5. secrets'[k] = promise[id].token BY <2>4, <3>2, <3>4 DEF Locs
    <3>6. Holds(d, promise[id].token)' BY <2>5, <3>2, <3>5 DEF Holds
    <3>7. \A q \in Actors : pc[q] = "write" => pc'[q] = "write" BY <1>13, <2>6 DEF StoreSecret
    <3>8. \A q \in Actors : pc'[q] \in {"erase", "truncate", "write"} => pc[q] = pc'[q] BY <2>6
    <3> QED BY <2>5, <3>1, <3>6, <3>7, <3>8 DEF KeptFacts, Holds
  <2> QED BY <2>7, <2>8 DEF ConnectedInv
<1>14. ASSUME NEW p \in Actors, EraseSecret(p) PROVE ConnectedInv'
  <2> DEFINE c == job[p].conn
  <2>1. /\ job[p].kind = "disconnect" /\ c \in Known /\ c.id = job[p].id /\ p = w
        /\ pc[p] = "erase"
    BY <1>1, <1>2, <1>14 DEF EraseSecret, JobInv, ConnectFacts
  <2>2. \A l \in Locs : secrets'[l] = secrets[l] \/ l \in RefsOf(c) \cap KeychainLocs
    BY <1>14 DEF EraseSecret
  <2>3. job' = job /\ file' = file /\ promise' = promise BY <1>14 DEF EraseSecret
  <2>4. pc'[p] = "truncate" /\ \A q \in Actors \ {p} : pc'[q] = pc[q]
    BY <1>14 DEF EraseSecret, Goto, TypeOK
  <2>5. ASSUME NEW q \in Actors PROVE ConnectFacts(q)'
    <3>1. job[q].kind # "connect" BY <1>1, <2>1
    <3> QED BY <1>2, <2>3, <2>4, <3>1 DEF ConnectFacts
  <2>6. ASSUME NEW id \in Ids, promise'[id].kind = "connected" PROVE KeptFacts(id)'
    <3>1. KeptFacts(id) BY <1>3, <2>3, <2>6
    <3> DEFINE d == promise[id].conn
    <3>2. PICK k \in RefsOf(d) \cap KeychainLocs : secrets[k] = promise[id].token
      BY <3>1 DEF KeptFacts, Holds
    <3>3. d \in Known /\ d.id # c.id BY <2>1, <3>1, MigratePreset DEF KeptFacts
    <3>4. k \notin RefsOf(c) BY <2>1, <3>2, <3>3, ItemsApart
    <3>5. secrets'[k] = promise[id].token BY <2>2, <3>2, <3>4 DEF Locs
    <3>6. Holds(d, promise[id].token)' BY <2>3, <3>2, <3>5 DEF Holds
    <3>7. \A q \in Actors : pc[q] = "write" => pc'[q] = "write" BY <2>1, <2>4
    <3>8. \A q \in Actors : pc'[q] \in {"erase", "truncate", "write"} =>
            pc[q] \in {"erase", "truncate", "write"}
      BY <2>1, <2>4
    <3> QED BY <2>3, <3>1, <3>6, <3>7, <3>8 DEF KeptFacts, Holds
  <2> QED BY <2>5, <2>6 DEF ConnectedInv
<1>15. ASSUME NEW p \in Actors, Truncate(p) PROVE ConnectedInv'
  <2>1. job' = job /\ secrets' = secrets /\ promise' = promise /\ file'.readable /\ pc[p] = "truncate"
    BY <1>15 DEF Truncate
  <2>2. pc'[p] = "write" /\ \A q \in Actors \ {p} : pc'[q] = pc[q]
    BY <1>15 DEF Truncate, Goto, TypeOK
  <2>3. \A q \in Actors : ConnectFacts(q)' BY <1>2, <2>1, <2>2 DEF ConnectFacts, Holds
  <2>4. ASSUME NEW id \in Ids, promise'[id].kind = "connected" PROVE KeptFacts(id)'
    <3>1. KeptFacts(id) BY <1>3, <2>1, <2>4
    <3>2. \A q \in Actors : pc'[q] \in {"erase", "truncate", "write"} =>
            pc[q] \in {"erase", "truncate", "write"}
      BY <2>1, <2>2
    <3>3. \E q \in Actors : pc'[q] = "write" BY <2>2
    <3> QED BY <2>1, <3>1, <3>2, <3>3 DEF KeptFacts, Holds
  <2> QED BY <2>3, <2>4 DEF ConnectedInv
<1>16. ASSUME NEW p \in Actors, WriteAll(p) PROVE ConnectedInv'
  <2> DEFINE c == job[p].conn
  <2>1. pc[p] = "write" /\ p = w /\ job[p].id \in Ids BY <1>1, <1>16, MigratePreset DEF WriteAll, JobInv
  <2>2. file' = [readable |-> TRUE, entries |-> job[p].snap]
    BY <1>16 DEF WriteAll, Overwritten, WriterInv
  <2>3. secrets' = secrets BY <1>16 DEF WriteAll
  <2>4. /\ job'[p] = NoJob /\ pc'[p] = "idle"
        /\ \A q \in Actors \ {p} : job'[q] = job[q] /\ pc'[q] = pc[q]
    BY <1>16, ReturnFacts DEF WriteAll
  <2>5. NoJob.kind = "none" /\ NoJob.id = None BY DEF NoJob
  <2>6. ASSUME NEW q \in Actors PROVE ConnectFacts(q)'
    <3>1. CASE q = p BY <2>4, <2>5, <3>1 DEF ConnectFacts
    <3>2. CASE q # p BY <1>2, <2>3, <2>4, <3>2 DEF ConnectFacts, Holds
    <3> QED BY <3>1, <3>2
  <2>7. ASSUME NEW id \in Ids, promise'[id].kind = "connected" PROVE KeptFacts(id)'
    <3>1. \A q \in Actors : pc'[q] \notin {"erase", "truncate", "write"}
      BY <1>1, <2>1, <2>4
    <3>2. CASE id = job[p].id
      <4>1. /\ job[p].kind = "connect"
            /\ promise'[id] = Promise("connected", c, job[p].token)
        BY <1>16, <2>1, <2>7, <3>2 DEF WriteAll, Told, TypeOK, Promise, NoPromise
      <4>2. promise'[id].conn = c /\ promise'[id].token = job[p].token BY <4>1 DEF Promise
      <4>3. c \in Presets /\ c.id = id BY <3>2, <4>1 DEF JobInv
      <4>4. Holds(c, job[p].token) /\ c \in Conns(job[p].snap)
        BY <1>2, <2>1, <4>1 DEF ConnectFacts
      <4>5. \A q \in Actors : job'[q].id # id
        <5>1. job'[p].id # id BY <2>4, <2>5, ConstantTypes
        <5>2. \A q \in Actors \ {p} : job[q].id = None BY <1>2, <2>1 DEF ConnectFacts
        <5> QED BY <2>4, <5>1, <5>2, ConstantTypes
      <4> QED BY <2>2, <2>3, <3>1, <4>2, <4>3, <4>4, <4>5 DEF KeptFacts, Holds
    <3>3. CASE id # job[p].id
      <4>1. promise'[id] = promise[id] BY <1>16, <3>3 DEF WriteAll, Told, TypeOK
      <4>2. KeptFacts(id) BY <1>3, <2>7, <4>1
      <4>3. \A q \in Actors : job'[q].id # id BY <2>4, <2>5, <4>2, ConstantTypes DEF KeptFacts
      <4>4. promise[id].conn \in Conns(job[p].snap) BY <2>1, <4>2 DEF KeptFacts
      <4> QED BY <2>2, <2>3, <3>1, <4>1, <4>2, <4>3, <4>4 DEF KeptFacts, Holds
    <3> QED BY <3>2, <3>3
  <2> QED BY <2>6, <2>7 DEF ConnectedInv
<1>17. ASSUME NEW p \in Actors, SaveFails(p) \/ Crash(p) PROVE ConnectedInv'
  BY <1>17 DEF SaveFails, Crash
<1> QED BY <1>4, <1>7, <1>8, <1>9, <1>10, <1>11, <1>12, <1>13, <1>14, <1>15, <1>16, <1>17 DEF Next

LEMMA PromiseInit ==
  Init => /\ \A p \in Actors : pc[p] = "idle" /\ job[p] = NoJob
          /\ \A id \in Ids : promise[id] = NoPromise
BY DEF Init

LEMMA ConnectedInit == Init => ConnectedInv
<1>1. NoJob.kind = "none" /\ NoJob.id = None /\ NoPromise.kind = "none"
  BY DEF NoJob, NoPromise, Promise
<1> QED BY <1>1, PromiseInit DEF ConnectedInv, ConnectFacts

LEMMA ConnectedShows == ConnectedInv => ConnectedIsListed
<1> SUFFICES ASSUME ConnectedInv, NEW id \in Ids, promise[id].kind = "connected",
                    \A p \in Actors : pc[p] # "write"
             PROVE  /\ file.readable /\ \E e \in file.entries : e.conn = promise[id].conn
                    /\ \E l \in RefsOf(promise[id].conn) : secrets[l] = promise[id].token
  BY DEF ConnectedIsListed
<1>1. KeptFacts(id) BY DEF ConnectedInv
<1> QED BY <1>1, InConns DEF KeptFacts, Holds

\* With a single writer, any number of readers, backends that may fail and a
\* registry that may be corrupt, but a writer that is not interrupted and a disk
\* that accepts: what `connect` returned to its caller is listed and its token
\* is in its keychain item, until the id is changed again.
THEOREM ConnectKept ==
  (\E w : Writers = {w}) /\ Faults \cap {"disk", "crash"} = {} => (Spec => []ConnectedIsListed)
<1> SUFFICES ASSUME \E w : Writers = {w}, Faults \cap {"disk", "crash"} = {}
             PROVE  Spec => []ConnectedIsListed
  OBVIOUS
<1>1. Inv /\ WriterInv /\ ConnectedInv /\ [Next]_vars => ConnectedInv'
  BY ConnectedStep DEF Inv
<1>2. Inv /\ WriterInv /\ [Next]_vars => WriterInv' BY WriterStep DEF Inv
<1> QED BY <1>1, <1>2, ConnectedInit, ConnectedShows, WriterInit, Invariance, PTL DEF Spec
----------------------------------------------------------------------------
(***************************************************************************)
(* What `disconnect` told its caller stays true until the id is changed    *)
(* again: through failed saves and crashes, which list no more than what   *)
(* was loaded, but not when the keychain fails, whose errors are swallowed.*)
(***************************************************************************)
Erased(c) == \A l \in RefsOf(c) \cap KeychainLocs : secrets[l] = None

GoneFacts(id) ==
  LET c == promise[id].conn IN
  /\ c \in Known /\ c.id = id /\ Erased(c) /\ ~Listed(file.entries, id)
  /\ \A p \in Actors : job[p].id # id /\ ~Listed(job[p].snap, id)

DisconnectFacts(p) ==
  /\ job[p].kind = "disconnect" /\ pc[p] # "load" =>
       /\ job[p].conn \in Known /\ job[p].conn.id = job[p].id
       /\ ~Listed(job[p].snap, job[p].id)
       /\ pc[p] # "erase" => Erased(job[p].conn)
  /\ p \notin Writers => job[p].id = None /\ job[p].snap = {}

RemovedInv ==
  /\ \A id \in Ids : promise[id].kind = "removed" => GoneFacts(id)
  /\ \A p \in Actors : DisconnectFacts(p)

LEMMA NothingListed == \A id : ~Listed({}, id)
BY DEF Listed

\* An actor that moves on, its local variables changed to j, leaves the secrets and
\* the promises alone, and lists nothing new.
LEMMA RemovedMove ==
  ASSUME TypeOK, RemovedInv,
         NEW p \in Actors, NEW j, NEW l, job' = [job EXCEPT ![p] = j], Goto(p, l),
         UNCHANGED <<secrets, promise>>,
         \A id \in Ids : ~Listed(file.entries, id) => ~Listed(file'.entries, id),
         j.id = job[p].id \/ j.id = None,
         \A id \in Ids : id # job[p].id /\ ~Listed(file.entries, id) /\ ~Listed(job[p].snap, id)
                           => ~Listed(j.snap, id),
         DisconnectFacts(p)'
  PROVE  RemovedInv'
<1>1. /\ job'[p] = j /\ pc'[p] = l
      /\ \A q \in Actors \ {p} : job'[q] = job[q] /\ pc'[q] = pc[q]
  BY MoveFacts
<1>2. \A q \in Actors : DisconnectFacts(q)'
  <2>1. \A q \in Actors \ {p} : DisconnectFacts(q)'
    BY <1>1 DEF RemovedInv, DisconnectFacts, Erased
  <2> QED BY <2>1
<1>3. ASSUME NEW id \in Ids, promise'[id].kind = "removed" PROVE GoneFacts(id)'
  <2>1. GoneFacts(id) BY <1>3 DEF RemovedInv
  <2>2. \A q \in Actors \ {p} : job'[q].id # id /\ ~Listed(job'[q].snap, id)
    BY <1>1, <2>1 DEF GoneFacts
  <2>3. job'[p].id # id /\ ~Listed(job'[p].snap, id)
    BY <1>1, <2>1, ConstantTypes DEF GoneFacts
  <2> QED BY <2>1, <2>2, <2>3 DEF GoneFacts, Erased
<1> QED BY <1>2, <1>3 DEF RemovedInv

LEMMA RemovedStep ==
  ASSUME NEW w, Writers = {w}, "keychain" \notin Faults,
         TypeOK, JobInv, WriterInv, RemovedInv, [Next]_vars
  PROVE  RemovedInv'
<1> USE DEF history
<1>1. \A q \in Actors : /\ pc[q] \in {"store", "erase", "truncate", "write"} => q = w
                        /\ job[q].kind \in {"connect", "disconnect"} => q = w
  BY DEF JobInv
<1>2. \A q \in Actors : DisconnectFacts(q) BY DEF RemovedInv
<1>3. \A id \in Ids : promise[id].kind = "removed" => GoneFacts(id) BY DEF RemovedInv
<1>4. CASE UNCHANGED vars BY <1>4 DEF vars, RemovedInv, GoneFacts, DisconnectFacts, Erased
<1>5. ASSUME NEW p \in Writers, NEW j \in JobType, NEW l, Begin(p, j), Goto(p, l), j.id \in Ids,
             j.snap = {}, j.kind = "disconnect" => l = "load", UNCHANGED <<file, secrets>>
      PROVE  RemovedInv'
  <2>1. /\ job'[p].kind = j.kind /\ job'[p].id = j.id /\ job'[p].snap = {} /\ pc'[p] = l
        /\ \A q \in Actors \ {p} :
             /\ job'[q].kind = job[q].kind /\ job'[q].id = job[q].id
             /\ job'[q].conn = job[q].conn
             /\ job'[q].snap = job[q].snap /\ pc'[q] = pc[q]
    BY <1>5, BeginFacts DEF Actors
  <2>2. \A q \in Actors : DisconnectFacts(q)'
    <3>1. DisconnectFacts(p)' BY <1>5, <2>1 DEF DisconnectFacts
    <3>2. \A q \in Actors \ {p} : DisconnectFacts(q)'
      BY <1>2, <1>5, <2>1 DEF DisconnectFacts, Erased
    <3> QED BY <3>1, <3>2
  <2>3. ASSUME NEW id \in Ids, promise'[id].kind = "removed" PROVE GoneFacts(id)'
    <3>1. promise' = [promise EXCEPT ![j.id] = NoPromise] /\ NoPromise.kind = "none"
      BY <1>5 DEF Begin, NoPromise, Promise
    <3>2. id # j.id /\ promise'[id] = promise[id] BY <2>3, <3>1 DEF TypeOK
    <3>3. GoneFacts(id) BY <1>3, <2>3, <3>2
    <3>4. \A q \in Actors : job'[q].id # id BY <2>1, <3>2, <3>3 DEF GoneFacts
    <3>5. ~Listed(job'[p].snap, id) BY <2>1, NothingListed
    <3>6. \A q \in Actors \ {p} : ~Listed(job'[q].snap, id) BY <2>1, <3>3 DEF GoneFacts
    <3> QED BY <1>5, <3>2, <3>3, <3>4, <3>5, <3>6 DEF GoneFacts, Erased
  <2> QED BY <2>2, <2>3 DEF RemovedInv
<1>6. ASSUME NEW p \in Actors, Return(p), UNCHANGED <<secrets, promise>>,
             \A id \in Ids : ~Listed(file.entries, id) => ~Listed(file'.entries, id)
      PROVE  RemovedInv'
  <2>1. job' = [job EXCEPT ![p] = NoJob] /\ Goto(p, "idle") BY <1>6 DEF Return
  <2>2. NoJob.kind = "none" /\ NoJob.id = None /\ NoJob.snap = {} BY DEF NoJob
  <2>3. DisconnectFacts(p)' BY <1>6, <2>2, ReturnFacts DEF DisconnectFacts
  <2> QED BY <1>6, <2>1, <2>2, <2>3, NothingListed, RemovedMove
<1>7. ASSUME NEW p \in Actors,
             (\E c \in Presets : StartConnect(p, c)) \/ (\E id \in Ids : StartDisconnect(p, id))
      PROVE  RemovedInv'
  <2>1. ASSUME NEW c \in Presets, StartConnect(p, c) PROVE RemovedInv'
    <3>1. PICK t \in Tokens : Begin(p, Connecting(c, t)) BY <2>1 DEF StartConnect, Connecting
    <3> QED BY <1>5, <2>1, <3>1, BeginJobType, MigratePreset DEF StartConnect
  <2>2. ASSUME NEW id \in Ids, StartDisconnect(p, id) PROVE RemovedInv'
    <3>1. Begin(p, Disconnecting(id)) BY <2>2 DEF StartDisconnect, Disconnecting
    <3> QED BY <1>5, <2>2, <3>1, BeginJobType DEF StartDisconnect
  <2> QED BY <1>7, <2>1, <2>2
<1>8. ASSUME NEW p \in Actors, NEW h \in Hosts, StartResolve(p, h) PROVE RemovedInv'
  <2> DEFINE j == [NoJob EXCEPT !.kind = "resolve", !.host = h]
  <2>1. j.id = None /\ j.kind = "resolve" /\ j.snap = {} BY DEF NoJob
  <2>2. job' = [job EXCEPT ![p] = j] /\ Goto(p, "load") /\ UNCHANGED <<file, secrets, promise>>
    BY <1>8 DEF StartResolve
  <2> HIDE DEF j
  <2>3. DisconnectFacts(p)' BY <2>1, <2>2, MoveFacts DEF DisconnectFacts
  <2> QED BY <2>1, <2>2, <2>3, NothingListed, RemovedMove
<1>9. ASSUME NEW p \in Actors,
             \/ StoreFails(p) \/ NothingToDisconnect(p) \/ LoadFails(p) \/ ReadSecret(p)
             \/ SaveFails(p) \/ Crash(p)
      PROVE  RemovedInv'
  <2>1. Return(p) /\ UNCHANGED <<secrets, promise>>
    BY <1>9 DEF StoreFails, NothingToDisconnect, LoadFails, ReadSecret, SaveFails, Crash
  <2>2. file' = file \/ file' = [readable |-> FALSE, entries |-> {}]
    BY <1>9 DEF StoreFails, NothingToDisconnect, LoadFails, ReadSecret, SaveFails, Crash
  <2> QED BY <1>6, <2>1, <2>2, NothingListed
<1>10. ASSUME NEW p \in Actors, LoadForConnect(p) PROVE RemovedInv'
  <2> DEFINE u == Upsert(Loaded, job[p].conn)
  <2> DEFINE j == [job[p] EXCEPT !.snap = u]
  <2>1. job' = [job EXCEPT ![p] = j] /\ p \in Writers BY <1>10 DEF LoadForConnect, JobInv
  <2>2. job[p].id = job[p].conn.id BY <1>10 DEF LoadForConnect, JobInv
  <2>3. \A id \in Ids : id # job[p].id /\ ~Listed(file.entries, id) => ~Listed(u, id)
    <3>1. Conns(u) = {d \in Conns(Loaded) : d.id # job[p].conn.id} \cup {job[p].conn}
      BY ConnsUpsert
    <3>2. \A d \in Conns(Loaded) : \E c \in Conns(file.entries) : d.id = c.id
      BY ConnsLoaded, MigrateKnown
    <3> HIDE DEF u
    <3> QED BY <2>2, <3>1, <3>2, ListedConns
  <2> HIDE DEF u
  <2>4. j.snap = u /\ j.id = job[p].id /\ j.kind = "connect"
    BY <1>10 DEF LoadForConnect, TypeOK, JobType
  <2> HIDE DEF j
  <2>5. Goto(p, "truncate") /\ UNCHANGED <<file, secrets, promise>> BY <1>10 DEF LoadForConnect
  <2>6. DisconnectFacts(p)' BY <2>1, <2>4, <2>5, MoveFacts DEF DisconnectFacts
  <2> QED BY <2>1, <2>3, <2>4, <2>5, <2>6, RemovedMove
<1>11. ASSUME NEW p \in Actors, LoadForDisconnect(p) PROVE RemovedInv'
  <2> DEFINE u == Without(Loaded, job[p].id)
  <2>1. PICK c \in FirstOf({e \in Loaded : e.conn.id = job[p].id}) :
          job' = [job EXCEPT ![p].conn = c, ![p].snap = u]
    BY <1>11 DEF LoadForDisconnect
  <2>2. c.id = job[p].id /\ c \in Known BY LoadedType DEF FirstOf, Entry
  <2> DEFINE j == [job[p] EXCEPT !.conn = c, !.snap = u]
  <2>3. job' = [job EXCEPT ![p] = j] BY <2>1
  <2>4. /\ \A id \in Ids : ~Listed(file.entries, id) => ~Listed(u, id)
        /\ ~Listed(u, job[p].id)
    <3>1. Conns(u) = {d \in Conns(Loaded) : d.id # job[p].id} BY ConnsWithout
    <3>2. \A d \in Conns(Loaded) : \E k \in Conns(file.entries) : d.id = k.id
      BY ConnsLoaded, MigrateKnown
    <3> HIDE DEF u
    <3> QED BY <3>1, <3>2, ListedConns
  <2> HIDE DEF u
  <2>5. j.snap = u /\ j.id = job[p].id /\ j.conn = c BY DEF TypeOK, JobType
  <2> HIDE DEF j
  <2>6. Goto(p, "erase") /\ UNCHANGED <<file, secrets, promise>> /\ p \in Writers
    BY <1>11 DEF LoadForDisconnect, JobInv
  <2>7. DisconnectFacts(p)'
    <3>1. job'[p] = j /\ pc'[p] = "erase" BY <2>3, <2>6, MoveFacts
    <3> QED BY <2>2, <2>4, <2>5, <2>6, <3>1 DEF DisconnectFacts
  <2> QED BY <2>3, <2>4, <2>5, <2>6, <2>7, RemovedMove
<1>12. ASSUME NEW p \in Actors, LoadForResolve(p) PROVE RemovedInv'
  <2>1. ASSUME NEW c, job' = [job EXCEPT ![p].conn = c], Goto(p, "read") PROVE RemovedInv'
    <3> DEFINE j == [job[p] EXCEPT !.conn = c]
    <3>1. job' = [job EXCEPT ![p] = j] BY <2>1
    <3>2. j.id = job[p].id /\ j.snap = job[p].snap /\ j.kind = "resolve"
      BY <1>12 DEF LoadForResolve, TypeOK, JobType
    <3> HIDE DEF j
    <3>3. UNCHANGED <<file, secrets, promise>> BY <1>12 DEF LoadForResolve
    <3>4. DisconnectFacts(p)' BY <1>2, <2>1, <3>1, <3>2, MoveFacts DEF DisconnectFacts
    <3> QED BY <2>1, <3>1, <3>2, <3>3, <3>4, RemovedMove
  <2>2. CASE Return(p) BY <1>6, <1>12, <2>2 DEF LoadForResolve
  <2> QED BY <1>12, <2>1, <2>2 DEF LoadForResolve
<1>13. ASSUME NEW p \in Actors, Truncate(p) PROVE RemovedInv'
  <2>1. job' = [job EXCEPT ![p] = job[p]] BY <1>13 DEF Truncate, TypeOK
  <2>2. Goto(p, "write") /\ UNCHANGED <<secrets, promise>> /\ file'.entries = {}
    BY <1>13 DEF Truncate
  <2>3. pc[p] = "truncate" /\ p \in Writers BY <1>1, <1>13 DEF Truncate
  <2>4. DisconnectFacts(p)' BY <1>2, <2>1, <2>2, <2>3, MoveFacts DEF DisconnectFacts, Erased
  <2> QED BY <2>1, <2>2, <2>4, NothingListed, RemovedMove
<1>14. ASSUME NEW p \in Actors, StoreSecret(p) PROVE RemovedInv'
  <2> DEFINE c == job[p].conn
  <2>1. /\ c \in Known /\ c.id = job[p].id /\ job[p].kind = "connect" /\ p = w
    BY <1>1, <1>14, MigratePreset DEF StoreSecret, JobInv
  <2>2. PICK i \in DOMAIN c.refs :
          c.refs[i] \in KeychainLocs /\ secrets' = [secrets EXCEPT ![c.refs[i]] = job[p].token]
    BY <1>14 DEF StoreSecret
  <2> DEFINE l == c.refs[i]
  <2>3. l \in RefsOf(c) \cap KeychainLocs BY <2>2 DEF RefsOf
  <2>4. \A k \in Locs \ {l} : secrets'[k] = secrets[k] BY <2>2 DEF TypeOK
  <2> HIDE DEF l
  <2>5. job' = job /\ file' = file /\ promise' = promise BY <1>14 DEF StoreSecret
  <2>6. pc'[p] = "load" /\ \A q \in Actors \ {p} : pc'[q] = pc[q]
    BY <1>14 DEF StoreSecret, Goto, TypeOK
  <2>7. ASSUME NEW q \in Actors PROVE DisconnectFacts(q)'
    <3>1. job[q].kind # "disconnect" BY <1>1, <2>1
    <3> QED BY <1>2, <2>5, <3>1 DEF DisconnectFacts
  <2>8. ASSUME NEW id \in Ids, promise'[id].kind = "removed" PROVE GoneFacts(id)'
    <3>1. GoneFacts(id) BY <1>3, <2>5, <2>8
    <3> DEFINE d == promise[id].conn
    <3>2. d \in Known /\ d.id # c.id /\ Erased(d) BY <2>1, <3>1 DEF GoneFacts
    <3>3. \A k \in RefsOf(d) \cap KeychainLocs : k # l BY <2>1, <2>3, <3>2, ItemsApart
    <3>4. \A k \in RefsOf(d) \cap KeychainLocs : secrets'[k] = None
      BY <2>4, <3>2, <3>3 DEF Erased, Locs
    <3> QED BY <2>5, <3>1, <3>4 DEF GoneFacts, Erased
  <2> QED BY <2>7, <2>8 DEF RemovedInv
<1>15. ASSUME NEW p \in Actors, EraseSecret(p) PROVE RemovedInv'
  <2> DEFINE c == job[p].conn
  <2>1. /\ job[p].kind = "disconnect" /\ pc[p] = "erase" /\ p = w
    BY <1>1, <1>15 DEF EraseSecret, JobInv
  <2>2. secrets' = [l \in Locs |-> IF l \in RefsOf(c) \cap KeychainLocs THEN None ELSE secrets[l]]
    BY <1>15 DEF EraseSecret
  <2>3. \A l \in Locs : secrets'[l] = secrets[l] \/ secrets'[l] = None BY <2>2
  <2>4. \A l \in RefsOf(c) \cap KeychainLocs : secrets'[l] = None BY <2>2 DEF Locs
  <2>5. job' = job /\ file' = file /\ promise' = promise BY <1>15 DEF EraseSecret
  <2>6. pc'[p] = "truncate" /\ \A q \in Actors \ {p} : pc'[q] = pc[q]
    BY <1>15 DEF EraseSecret, Goto, TypeOK
  <2>7. ASSUME NEW q \in Actors PROVE DisconnectFacts(q)'
    <3>1. CASE q = p BY <1>2, <2>1, <2>4, <2>5, <2>6, <3>1 DEF DisconnectFacts, Erased
    <3>2. CASE q # p
      <4>1. job[q].kind # "disconnect" BY <1>1, <2>1, <3>2
      <4> QED BY <1>2, <2>5, <4>1 DEF DisconnectFacts
    <3> QED BY <3>1, <3>2
  <2>8. ASSUME NEW id \in Ids, promise'[id].kind = "removed" PROVE GoneFacts(id)'
    <3>1. GoneFacts(id) BY <1>3, <2>5, <2>8
    <3>2. \A k \in RefsOf(promise[id].conn) \cap KeychainLocs : secrets'[k] = None
      BY <2>3, <3>1 DEF GoneFacts, Erased, Locs
    <3> QED BY <2>5, <3>1, <3>2 DEF GoneFacts, Erased
  <2> QED BY <2>7, <2>8 DEF RemovedInv
<1>16. ASSUME NEW p \in Actors, WriteAll(p) PROVE RemovedInv'
  <2> DEFINE c == job[p].conn
  <2>1. pc[p] = "write" /\ p = w /\ job[p].id \in Ids BY <1>1, <1>16, MigratePreset DEF WriteAll, JobInv
  <2>2. file' = [readable |-> TRUE, entries |-> job[p].snap]
    BY <1>16 DEF WriteAll, Overwritten, WriterInv
  <2>3. secrets' = secrets BY <1>16 DEF WriteAll
  <2>4. /\ job'[p] = NoJob /\ pc'[p] = "idle"
        /\ \A q \in Actors \ {p} : job'[q] = job[q] /\ pc'[q] = pc[q]
    BY <1>16, ReturnFacts DEF WriteAll
  <2>5. NoJob.kind = "none" /\ NoJob.id = None /\ NoJob.snap = {} BY DEF NoJob
  <2>6. ASSUME NEW q \in Actors PROVE DisconnectFacts(q)'
    <3>1. CASE q = p BY <2>4, <2>5, <3>1 DEF DisconnectFacts
    <3>2. CASE q # p BY <1>2, <2>3, <2>4, <3>2 DEF DisconnectFacts, Erased
    <3> QED BY <3>1, <3>2
  <2>7. ASSUME NEW id \in Ids, promise'[id].kind = "removed" PROVE GoneFacts(id)'
    <3>1. CASE id = job[p].id
      <4>1. /\ job[p].kind # "connect" /\ promise'[id] = Promise("removed", c, None)
        BY <1>16, <2>1, <2>7, <3>1 DEF WriteAll, Told, TypeOK, Promise, NoPromise
      <4>2. promise'[id].conn = c /\ job[p].kind = "disconnect"
        BY <2>1, <4>1 DEF Promise, JobInv
      <4>3. c \in Known /\ c.id = id /\ Erased(c) /\ ~Listed(job[p].snap, id)
        BY <1>2, <2>1, <3>1, <4>2 DEF DisconnectFacts
      <4>4. \A q \in Actors : job'[q].id # id /\ ~Listed(job'[q].snap, id)
        <5>1. job'[p].id # id /\ job'[p].snap = {} BY <2>4, <2>5, ConstantTypes
        <5>2. \A q \in Actors \ {p} : job[q].id = None /\ job[q].snap = {}
          BY <1>2, <2>1 DEF DisconnectFacts
        <5> QED BY <2>4, <5>1, <5>2, NothingListed, ConstantTypes
      <4> QED BY <2>2, <2>3, <4>2, <4>3, <4>4 DEF GoneFacts, Erased
    <3>2. CASE id # job[p].id
      <4>1. promise'[id] = promise[id] BY <1>16, <3>2 DEF WriteAll, Told, TypeOK
      <4>2. GoneFacts(id) BY <1>3, <2>7, <4>1
      <4>3. \A q \in Actors : job'[q].id # id /\ ~Listed(job'[q].snap, id)
        <5>1. job'[p].id # id /\ ~Listed(job'[p].snap, id)
          BY <2>4, <2>5, NothingListed, ConstantTypes
        <5> QED BY <2>4, <4>2, <5>1 DEF GoneFacts
      <4>4. ~Listed(job[p].snap, id) BY <4>2 DEF GoneFacts
      <4> QED BY <2>2, <2>3, <4>1, <4>2, <4>3, <4>4 DEF GoneFacts, Erased
    <3> QED BY <3>1, <3>2
  <2> QED BY <2>6, <2>7 DEF RemovedInv
<1> QED BY <1>4, <1>7, <1>8, <1>9, <1>10, <1>11, <1>12, <1>13, <1>14, <1>15, <1>16 DEF Next

LEMMA RemovedInit == Init => RemovedInv
<1>1. NoJob.kind = "none" /\ NoJob.id = None /\ NoJob.snap = {} /\ NoPromise.kind = "none"
  BY DEF NoJob, NoPromise, Promise
<1> QED BY <1>1, PromiseInit DEF RemovedInv, DisconnectFacts

LEMMA RemovedShows == RemovedInv => DisconnectErases
BY DEF RemovedInv, GoneFacts, Erased, DisconnectErases

\* With a single writer and any number of readers, through crashes, failed saves
\* and corrupt registries, as long as the keychain works: what `disconnect` said
\* it removed is not listed, and its keychain items are gone, until the id is
\* changed again.
THEOREM DisconnectKept ==
  (\E w : Writers = {w}) /\ "keychain" \notin Faults => (Spec => []DisconnectErases)
<1> SUFFICES ASSUME \E w : Writers = {w}, "keychain" \notin Faults
             PROVE  Spec => []DisconnectErases
  OBVIOUS
<1>1. Inv /\ WriterInv /\ RemovedInv /\ [Next]_vars => RemovedInv' BY RemovedStep DEF Inv
<1>2. Inv /\ WriterInv /\ [Next]_vars => WriterInv' BY WriterStep DEF Inv
<1> QED BY <1>1, <1>2, RemovedInit, RemovedShows, WriterInit, Invariance, PTL DEF Spec
----------------------------------------------------------------------------
\* An entry that none outranks exists, as long as there is an entry.
LEMMA FirstExists ==
  ASSUME NEW es \in SUBSET Entry, IsFiniteSet(es), es # {}
  PROVE  FirstOf(es) # {}
<1> DEFINE Above(e) == {d \in es : d.rank > e.rank}
<1> DEFINE T == {Above(e) : e \in es}
<1>1. IsWellFoundedOn(StrictSubsetOrdering(es), SUBSET es)
  BY FS_StrictSubsetOrderingWellFounded, FS_FiniteSubsetsOfFinite
<1>2. T \subseteq SUBSET es /\ T # {} OBVIOUS
<1>3. PICK a \in T : \A b \in T : <<b, a>> \notin StrictSubsetOrdering(es)
  BY <1>1, <1>2, WFMin
<1>4. PICK e \in es : a = Above(e) OBVIOUS
<1>5. ASSUME NEW d \in es, d.rank > e.rank PROVE FALSE
  <2>1. d.rank \in Nat /\ e.rank \in Nat /\ \A x \in es : x.rank \in Nat BY DEF Entry
  <2>2. Above(d) \subseteq Above(e) BY <1>5, <2>1
  <2>3. d \in Above(e) /\ d \notin Above(d) BY <1>5, <2>1
  <2>4. <<Above(d), a>> \in StrictSubsetOrdering(es)
    BY <1>4, <2>2, <2>3 DEF StrictSubsetOrdering
  <2> QED BY <1>3, <2>4
<1>6. \A d \in es : d.rank <= e.rank BY <1>5 DEF Entry
<1> QED BY <1>6 DEF FirstOf

\* The connections a store that lists `cs` may answer a host with.
Serving(cs, h) ==
  LET mine == {c \in cs : h \in c.hosts}
  IN  IF mine # {} THEN mine ELSE {c \in Defaults : h \in c.hosts}

LEMMA MatchServes ==
  ASSUME TypeOK, NEW h
  PROVE  /\ Match(Loaded, h) \subseteq Serving(Conns(Loaded), h)
         /\ Match(Loaded, h) = {} => Serving(Conns(Loaded), h) = {}
<1> DEFINE es == Matching(Loaded, h)
<1> DEFINE mine == {c \in Conns(Loaded) : h \in c.hosts}
<1>1. es \in SUBSET Entry /\ IsFiniteSet(es) BY LoadedType, FS_Subset DEF Matching
<1>2. \A c : c \in mine <=> \E e \in es : e.conn = c BY DEF Matching, Conns
<1>3. FirstOf(es) \subseteq mine BY <1>2 DEF FirstOf
<1>4. es # {} => FirstOf(es) # {} BY <1>1, FirstExists
<1>5. mine # {} <=> es # {} BY <1>2
<1> HIDE DEF es
<1>6. Match(Loaded, h) = IF es # {} THEN FirstOf(es) ELSE {c \in Defaults : h \in c.hosts}
  BY DEF Match, es
<1>7. Serving(Conns(Loaded), h) = IF mine # {} THEN mine ELSE {c \in Defaults : h \in c.hosts}
  BY DEF Serving
<1> QED BY <1>3, <1>4, <1>5, <1>6, <1>7

\* Migrating twice is migrating once.
LEMMA MigrateOnce ==
  ASSUME NEW c \in Known
  PROVE  Migrate(Migrate(c)) = Migrate(c)
<1>1. c \in ConnType BY MigrateKnown
<1>2. CASE c.refs = <<>> /\ c.legacy # None
  <2>1. Migrate(c).refs = <<c.legacy>> BY <1>1, <1>2 DEF Migrate, ConnType
  <2>2. Migrate(c).refs # <<>> BY <2>1
  <2> QED BY <2>2 DEF Migrate
<1>3. CASE ~(c.refs = <<>> /\ c.legacy # None) BY <1>3 DEF Migrate
<1> QED BY <1>2, <1>3

\* In a registry without doubles, dropping an id drops one connection.
LEMMA WithoutOne ==
  ASSUME NEW es, Unique(es), NEW c \in Conns(es)
  PROVE  {d \in Conns(es) : d.id # c.id} = Conns(es) \ {c}
<1>1. PICK e \in es : e.conn = c BY InConns
<1>2. ASSUME NEW d \in Conns(es), d.id = c.id PROVE d = c
  <2>1. PICK f \in es : f.conn = d BY InConns
  <2> QED BY <1>1, <1>2, <2>1 DEF Unique
<1> QED BY <1>2

(***************************************************************************)
(* A single actor, no failures but the keychain's: what it read is what    *)
(* the registry still holds, and what it writes needs no migration.        *)
(***************************************************************************)
SoloInv ==
  /\ file.readable
  /\ \A p \in Actors :
       /\ pc[p] = "erase" =>
            /\ job[p].conn \in Conns(Loaded) /\ job[p].conn.id = job[p].id
            /\ Conns(job[p].snap) = {d \in Conns(Loaded) : d.id # job[p].id}
       /\ pc[p] \in {"erase", "truncate", "write"} => \A c \in Conns(job[p].snap) : Migrate(c) = c
       /\ pc[p] = "read" => job[p].conn \in Match(Loaded, job[p].host)

LEMMA SoloInit == Faults \subseteq {"keychain"} /\ Init => SoloInv
<1> SUFFICES ASSUME Faults \subseteq {"keychain"}, Init PROVE SoloInv
  OBVIOUS
<1>1. file.readable
  <2>1. file \in [readable: {TRUE}, entries: {{}} \cup {{[rank |-> 0, conn |-> c]} : c \in Legacy}]
    BY DEF Init
  <2> QED BY <2>1
<1> QED BY <1>1, PromiseInit DEF SoloInv

LEMMA LoadedMigrated ==
  ASSUME TypeOK
  PROVE  \A c \in Conns(Loaded) : Migrate(c) = c
BY ConnsLoaded, MigrateOnce

LEMMA SoloStep ==
  ASSUME NEW w, Actors = {w}, Faults \subseteq {"keychain"}, TypeOK, JobInv, WriterInv, SoloInv, [Next]_vars
  PROVE  SoloInv'
<1> USE DEF history
<1>1. CASE UNCHANGED vars
  <2>1. Loaded' = Loaded BY <1>1 DEF vars, Loaded
  <2>2. \A h : Match(Loaded, h)' = Match(Loaded, h) BY <2>1 DEF Match, Matching, FirstOf
  <2> QED BY <1>1, <2>1, <2>2 DEF vars, SoloInv, Conns, Match, Matching, FirstOf
<1>2. ASSUME NEW l, Goto(w, l), file'.readable, l \notin {"erase", "truncate", "write", "read"}
      PROVE  SoloInv'
  <2>1. pc'[w] = l BY <1>2 DEF Goto, TypeOK
  <2> QED BY <1>2, <2>1 DEF SoloInv
<1>3. ASSUME NEW j, NEW l, job' = [job EXCEPT ![w] = j], Goto(w, l), file'.readable,
             l \in {"truncate", "write"}, \A c \in Conns(j.snap) : Migrate(c) = c
      PROVE  SoloInv'
  <2>1. pc'[w] = l /\ job'[w] = j BY <1>3, MoveFacts
  <2> QED BY <1>3, <2>1 DEF SoloInv, Conns
<1>4. ASSUME NEW c \in Presets, StartConnect(w, c) PROVE SoloInv'
  BY <1>2, <1>4 DEF StartConnect, SoloInv
<1>5. ASSUME NEW id \in Ids, StartDisconnect(w, id) PROVE SoloInv'
  BY <1>2, <1>5 DEF StartDisconnect, SoloInv
<1>6. ASSUME NEW h \in Hosts, StartResolve(w, h) PROVE SoloInv'
  BY <1>2, <1>6 DEF StartResolve, SoloInv
<1>7. CASE StoreSecret(w) BY <1>2, <1>7 DEF StoreSecret, SoloInv
<1>8. CASE StoreFails(w) \/ NothingToDisconnect(w) \/ LoadFails(w) \/ ReadSecret(w) \/ Crash(w)
  <2>1. Return(w) /\ UNCHANGED file
    BY <1>8 DEF StoreFails, NothingToDisconnect, LoadFails, ReadSecret, Crash
  <2> QED BY <1>2, <2>1 DEF Return, SoloInv
<1>9. CASE LoadForConnect(w)
  <2> DEFINE u == Upsert(Loaded, job[w].conn)
  <2>1. job[w].conn \in Presets BY <1>9 DEF LoadForConnect, JobInv
  <2>2. Conns(u) = {d \in Conns(Loaded) : d.id # job[w].conn.id} \cup {job[w].conn}
    BY ConnsUpsert
  <2>3. \A c \in Conns(u) : Migrate(c) = c BY <2>1, <2>2, LoadedMigrated, MigratePreset
  <2> DEFINE j == [job[w] EXCEPT !.snap = u]
  <2>4. job' = [job EXCEPT ![w] = j] BY <1>9 DEF LoadForConnect
  <2> HIDE DEF u
  <2>5. j.snap = u BY DEF TypeOK, JobType
  <2> HIDE DEF j
  <2> QED BY <1>3, <1>9, <2>3, <2>4, <2>5 DEF LoadForConnect, SoloInv
<1>10. CASE LoadForDisconnect(w)
  <2> DEFINE u == Without(Loaded, job[w].id)
  <2>1. PICK c \in FirstOf({e \in Loaded : e.conn.id = job[w].id}) :
          job' = [job EXCEPT ![w].conn = c, ![w].snap = u]
    BY <1>10 DEF LoadForDisconnect
  <2>2. c \in Conns(Loaded) /\ c.id = job[w].id BY DEF FirstOf, Conns
  <2>3. Conns(u) = {d \in Conns(Loaded) : d.id # job[w].id} BY ConnsWithout
  <2> DEFINE j == [job[w] EXCEPT !.conn = c, !.snap = u]
  <2>4. job' = [job EXCEPT ![w] = j] BY <2>1
  <2> HIDE DEF u
  <2>5. j.snap = u /\ j.conn = c /\ j.id = job[w].id BY DEF TypeOK, JobType
  <2> HIDE DEF j
  <2>6. pc'[w] = "erase" /\ job'[w] = j
    <3>1. w \in Actors /\ Goto(w, "erase") BY <1>10 DEF LoadForDisconnect
    <3> QED BY <2>4, <3>1, MoveFacts
  <2>7. file' = file /\ Loaded' = Loaded BY <1>10 DEF LoadForDisconnect, Loaded
  <2>8. \A x \in Conns(u) : Migrate(x) = x BY <2>3, LoadedMigrated
  <2> QED BY <2>2, <2>3, <2>5, <2>6, <2>7, <2>8 DEF SoloInv, Conns
<1>11. CASE LoadForResolve(w)
  <2>1. ASSUME NEW c \in Match(Loaded, job[w].host), job' = [job EXCEPT ![w].conn = c],
               Goto(w, "read")
        PROVE  SoloInv'
    <3> DEFINE j == [job[w] EXCEPT !.conn = c]
    <3>1. job' = [job EXCEPT ![w] = j] BY <2>1
    <3>2. j.conn = c /\ j.host = job[w].host BY DEF TypeOK, JobType
    <3> HIDE DEF j
    <3>3. pc'[w] = "read" /\ job'[w] = j
      <4>1. w \in Actors /\ Goto(w, "read") BY <2>1
      <4> QED BY <3>1, <4>1, MoveFacts
    <3>4. file' = file /\ Loaded' = Loaded BY <1>11 DEF LoadForResolve, Loaded
    <3>5. job'[w].conn \in Match(Loaded', job'[w].host) BY <2>1, <3>2, <3>3, <3>4
    <3>6. job'[w].conn \in Match(Loaded, job[w].host)' BY <3>5 DEF Match, Matching, FirstOf
    <3> QED BY <3>3, <3>4, <3>6 DEF SoloInv
  <2>2. CASE Return(w) BY <1>2, <1>11, <2>2 DEF LoadForResolve, Return, SoloInv
  <2> QED BY <1>11, <2>1, <2>2 DEF LoadForResolve, SoloInv
<1>12. CASE EraseSecret(w)
  <2>1. job' = [job EXCEPT ![w] = job[w]] BY <1>12 DEF EraseSecret, TypeOK
  <2> QED BY <1>3, <1>12, <2>1 DEF EraseSecret, SoloInv
<1>13. CASE Truncate(w)
  <2>1. job' = [job EXCEPT ![w] = job[w]] BY <1>13 DEF Truncate, TypeOK
  <2> QED BY <1>3, <1>13, <2>1 DEF Truncate, SoloInv
<1>14. CASE WriteAll(w)
  <2>1. file' = [readable |-> TRUE, entries |-> job[w].snap]
    BY <1>14 DEF WriteAll, Overwritten, WriterInv
  <2> QED BY <1>2, <1>14, <2>1 DEF WriteAll, Return
<1>15. CASE SaveFails(w) BY <1>15 DEF SaveFails
<1> QED BY <1>1, <1>4, <1>5, <1>6, <1>7, <1>8, <1>9, <1>10, <1>11, <1>12, <1>13, <1>14, <1>15
        DEF Next

(***************************************************************************)
(* The registry and the secrets as one atomic store.                       *)
(***************************************************************************)

\* What the store lists, with one actor: `Effective`, of that actor.
ListedOf(w) ==
  IF pc[w] = "load" /\ job[w].kind = "connect" THEN Conns(Upsert(Loaded, job[w].conn))
  ELSE IF pc[w] \in {"truncate", "write"} THEN Conns(job[w].snap)
  ELSE Conns(Loaded)

LEMMA EffectiveSolo ==
  ASSUME NEW w, Writers = {w}
  PROVE  Effective = ListedOf(w) /\ Effective' = ListedOf(w)'
<1>1. Effective = ListedOf(w)
  <2>1. CASE pc[w] = "load"
    <3>1. (CHOOSE p \in Writers : pc[p] = "load") = w BY <2>1
    <3> QED BY <2>1, <3>1 DEF Effective, ListedOf
  <2>2. CASE pc[w] \in {"truncate", "write"}
    <3>1. (CHOOSE p \in Writers : pc[p] \in {"truncate", "write"}) = w BY <2>2
    <3> QED BY <2>2, <3>1 DEF Effective, ListedOf
  <2>3. CASE pc[w] \notin {"load", "truncate", "write"} BY <2>3 DEF Effective, ListedOf
  <2> QED BY <2>1, <2>2, <2>3
<1>2. Effective' = ListedOf(w)'
  <2>1. CASE pc'[w] = "load"
    <3>1. (CHOOSE p \in Writers : pc'[p] = "load") = w BY <2>1
    <3> QED BY <2>1, <3>1 DEF Effective, ListedOf
  <2>2. CASE pc'[w] \in {"truncate", "write"}
    <3>1. (CHOOSE p \in Writers : pc'[p] \in {"truncate", "write"}) = w BY <2>2
    <3> QED BY <2>2, <3>1 DEF Effective, ListedOf
  <2>3. CASE pc'[w] \notin {"load", "truncate", "write"} BY <2>3 DEF Effective, ListedOf
  <2> QED BY <2>1, <2>2, <2>3
<1> QED BY <1>1, <1>2

\* Every step with one actor and no failures is an operation of the store, or
\* leaves it as it is.
LEMMA StoreStep ==
  ASSUME NEW w, Writers = {w}, Readers = {}, Faults = {}, TypeOK, JobInv, WriterInv, SoloInv,
         [Next]_vars
  PROVE  [Store!StoreNext]_(Store!storeVars)
<1> USE DEF history
<1>0. Actors = {w} /\ w \in Actors BY DEF Actors
<1>a. Effective = ListedOf(w) /\ Effective' = ListedOf(w)' BY EffectiveSolo
<1>b. ASSUME ListedOf(w)' = ListedOf(w), UNCHANGED <<secrets, answer>>
      PROVE  [Store!StoreNext]_(Store!storeVars)
  BY <1>a, <1>b DEF Store!storeVars
<1>1. CASE UNCHANGED vars
  <2>1. ListedOf(w)' = ListedOf(w)
    BY <1>1 DEF vars, ListedOf, Loaded, Conns, Upsert, Ranked, Below
  <2> QED BY <1>1, <1>b, <2>1 DEF vars
\* Nothing but the local variables changes, outside the window of a change.
<1>2. ASSUME NEW l, Goto(w, l), UNCHANGED <<file, secrets, answer>>,
             pc[w] \notin {"load", "truncate", "write"} \/ (pc[w] = "load" /\ job[w].kind # "connect"),
             l \notin {"load", "truncate", "write"} \/ (l = "load" /\ job'[w].kind # "connect")
      PROVE  [Store!StoreNext]_(Store!storeVars)
  <2>1. pc'[w] = l BY <1>0, <1>2 DEF Goto, TypeOK
  <2>2. ListedOf(w) = Conns(Loaded) /\ ListedOf(w)' = Conns(Loaded') BY <1>2, <2>1 DEF ListedOf, Conns
  <2>3. Loaded' = Loaded BY <1>2 DEF Loaded
  <2> QED BY <1>2, <1>b, <2>2, <2>3
<1>4. ASSUME NEW c \in Presets, StartConnect(w, c) PROVE [Store!StoreNext]_(Store!storeVars)
  BY <1>2, <1>4 DEF StartConnect
<1>5. ASSUME NEW id \in Ids, StartDisconnect(w, id) PROVE [Store!StoreNext]_(Store!storeVars)
  <2>1. Begin(w, Disconnecting(id)) BY <1>5 DEF StartDisconnect, Disconnecting
  <2>2. job'[w].kind = "disconnect"
    BY <1>0, <1>5, <2>1, BeginFacts, BeginJobType DEF StartDisconnect
  <2> QED BY <1>2, <1>5, <2>2 DEF StartDisconnect
<1>6. ASSUME NEW h \in Hosts, StartResolve(w, h) PROVE [Store!StoreNext]_(Store!storeVars)
  <2>1. job'[w].kind = "resolve" BY <1>0, <1>6 DEF StartResolve, TypeOK
  <2> QED BY <1>2, <1>6, <2>1 DEF StartResolve
<1>7. CASE StoreSecret(w)
  <2> DEFINE c == job[w].conn
  <2>1. /\ pc[w] = "store" /\ pc'[w] = "load" /\ job' = job /\ Loaded' = Loaded /\ UNCHANGED answer
        /\ job[w].kind = "connect" /\ c \in Presets /\ job[w].token \in Tokens
    BY <1>0, <1>7 DEF StoreSecret, Goto, TypeOK, JobInv, Loaded
  <2>2. ListedOf(w) = Conns(Loaded) BY <2>1 DEF ListedOf
  <2>3. ListedOf(w)' = Conns(Upsert(Loaded, c)) BY <2>1 DEF ListedOf, Conns, Upsert, Ranked, Below
  <2>4. ListedOf(w)' = {d \in ListedOf(w) : d.id # c.id} \cup {c} BY <2>2, <2>3, ConnsUpsert
  <2>5. PICK i \in DOMAIN c.refs :
          /\ c.refs[i] \in KeychainLocs
          /\ \A k \in 1..(i - 1) : c.refs[k] \in KeychainLocs => "keychain" \in Faults
          /\ secrets' = [secrets EXCEPT ![c.refs[i]] = job[w].token]
    BY <1>7 DEF StoreSecret
  <2>6. \A k \in 1..(i - 1) : c.refs[k] \notin KeychainLocs BY <2>5
  <2>7. Store!Put(c, job[w].token) BY <1>a, <2>1, <2>4, <2>5, <2>6 DEF Store!Put
  <2> QED BY <2>1, <2>7 DEF Store!StoreNext
<1>8. CASE StoreFails(w) \/ NothingToDisconnect(w)
  <2>1. /\ Return(w) /\ UNCHANGED <<file, secrets, answer>>
        /\ pc[w] = "store" \/ (pc[w] = "load" /\ job[w].kind = "disconnect")
    BY <1>8 DEF StoreFails, NothingToDisconnect
  <2> QED BY <1>2, <2>1 DEF Return
<1>9. CASE LoadForConnect(w)
  <2> DEFINE u == Upsert(Loaded, job[w].conn)
  <2>1. ListedOf(w) = Conns(u) BY <1>9 DEF LoadForConnect, ListedOf
  <2>2. job' = [job EXCEPT ![w].snap = u] BY <1>9 DEF LoadForConnect
  <2> HIDE DEF u
  <2>3. job'[w].snap = u /\ pc'[w] = "truncate"
    BY <1>0, <1>9, <2>2 DEF LoadForConnect, Goto, TypeOK, JobType
  <2>4. ListedOf(w)' = Conns(u) BY <2>3 DEF ListedOf, Conns
  <2> QED BY <1>9, <1>b, <2>1, <2>4 DEF LoadForConnect
<1>10. CASE LoadForDisconnect(w) BY <1>2, <1>10 DEF LoadForDisconnect
<1>11. CASE LoadForResolve(w)
  <2>1. pc[w] = "load" /\ job[w].kind = "resolve" /\ UNCHANGED <<file, secrets>>
    BY <1>11 DEF LoadForResolve
  <2>2. CASE Goto(w, "read") /\ UNCHANGED answer BY <1>2, <2>1, <2>2
  <2>3. CASE /\ Match(Loaded, job[w].host) = {} /\ Return(w)
             /\ answer' = [answer EXCEPT ![w] = [NoAnswer EXCEPT !.host = job[w].host]]
    <3>1. pc'[w] = "idle" /\ Loaded' = Loaded BY <1>0, <2>1, <2>3 DEF Return, Goto, TypeOK, Loaded
    <3>2. ListedOf(w) = Conns(Loaded) /\ ListedOf(w)' = Conns(Loaded)
      BY <2>1, <3>1 DEF ListedOf, Conns
    <3>3. Store!Candidates(job[w].host) = Serving(Conns(Loaded), job[w].host)
      BY <1>a, <3>2 DEF Store!Candidates, Serving
    <3>4. Store!Candidates(job[w].host) = {} BY <2>3, <3>3, MatchServes
    <3>5. [NoAnswer EXCEPT !.host = job[w].host] = [host |-> job[w].host, conn |-> None, token |-> None]
      BY DEF NoAnswer
    <3>6. Store!Look(w, job[w].host) BY <1>a, <2>1, <2>3, <3>2, <3>4, <3>5 DEF Store!Look
    <3>7. job[w].host \in Hosts \cup {None} BY <1>0 DEF TypeOK, JobType
    <3> QED BY <1>0, <3>6, <3>7 DEF Store!StoreNext
  <2> QED BY <1>11, <2>2, <2>3 DEF LoadForResolve, SoloInv
<1>12. CASE EraseSecret(w)
  <2> DEFINE c == job[w].conn
  <2>1. /\ pc[w] = "erase" /\ pc'[w] = "truncate" /\ job' = job /\ UNCHANGED answer /\ c \in Known
    BY <1>0, <1>12 DEF EraseSecret, Goto, TypeOK, JobInv
  <2>2. ListedOf(w) = Conns(Loaded) /\ ListedOf(w)' = Conns(job[w].snap)
    BY <2>1 DEF ListedOf, Conns
  <2>3. c \in Conns(Loaded) /\ Conns(job[w].snap) = {d \in Conns(Loaded) : d.id # c.id}
    BY <1>0, <2>1 DEF SoloInv
  <2>4. Conns(job[w].snap) = Conns(Loaded) \ {c}
    BY <2>3, WithoutOne, UniqueLoaded DEF WriterInv
  <2>5. secrets' = [l \in Locs |-> IF l \in RefsOf(c) \cap KeychainLocs THEN None ELSE secrets[l]]
    <3>1. PICK failed \in SUBSET (RefsOf(c) \cap KeychainLocs) :
            /\ failed # {} => "keychain" \in Faults
            /\ secrets' = [l \in Locs |-> IF l \in (RefsOf(c) \cap KeychainLocs) \ failed
                                          THEN None ELSE secrets[l]]
      BY <1>12 DEF EraseSecret
    <3>2. failed = {} BY <3>1
    <3> QED BY <3>1, <3>2
  <2>6. \A l : l \in RefsOf(c) \cap KeychainLocs <=>
               l \in KeychainLocs /\ \E i \in DOMAIN c.refs : c.refs[i] = l
    BY DEF RefsOf
  <2>7. Store!Take(c) BY <1>a, <2>1, <2>2, <2>3, <2>4, <2>5, <2>6 DEF Store!Take
  <2> QED BY <2>1, <2>7 DEF Store!StoreNext
<1>13. CASE Truncate(w)
  <2>1. pc[w] = "truncate" /\ pc'[w] = "write" /\ job' = job
    BY <1>0, <1>13 DEF Truncate, Goto, TypeOK
  <2>2. ListedOf(w)' = ListedOf(w) BY <2>1 DEF ListedOf, Conns
  <2> QED BY <1>13, <1>b, <2>2 DEF Truncate
<1>14. CASE WriteAll(w)
  <2>1. file' = [readable |-> TRUE, entries |-> job[w].snap]
    BY <1>0, <1>14 DEF WriteAll, Overwritten, WriterInv
  <2>2. pc[w] = "write" /\ pc'[w] = "idle" BY <1>0, <1>14 DEF WriteAll, Return, Goto, TypeOK
  <2>3. ListedOf(w) = Conns(job[w].snap) /\ ListedOf(w)' = Conns(Loaded')
    BY <2>2 DEF ListedOf, Conns
  <2>4. \A c \in Conns(job[w].snap) : Migrate(c) = c BY <1>0, <2>2 DEF SoloInv
  <2>5. Conns(Loaded') = Conns(job[w].snap)
    <3>1. \A e \in job[w].snap : [e EXCEPT !.conn = Migrate(@)] = e
      <4> SUFFICES ASSUME NEW e \in job[w].snap PROVE [e EXCEPT !.conn = Migrate(@)] = e
        OBVIOUS
      <4>1. Migrate(e.conn) = e.conn BY <2>4, InConns
      <4>2. e \in Entry BY <1>0 DEF TypeOK, JobType
      <4> QED BY <4>1, <4>2 DEF Entry
    <3>2. Loaded' = job[w].snap BY <2>1, <3>1 DEF Loaded
    <3> QED BY <3>2
  <2> QED BY <1>14, <1>b, <2>3, <2>5 DEF WriteAll
<1>15. CASE ReadSecret(w)
  <2> DEFINE c == job[w].conn
             h == job[w].host
  <2>1. pc[w] = "read" /\ pc'[w] = "idle" /\ Loaded' = Loaded /\ UNCHANGED secrets
    BY <1>0, <1>15 DEF ReadSecret, Return, Goto, TypeOK, Loaded
  <2>2. ListedOf(w) = Conns(Loaded) /\ ListedOf(w)' = Conns(Loaded)
    BY <2>1 DEF ListedOf, Conns
  <2>3. Store!Candidates(h) = Serving(Conns(Loaded), h)
    BY <1>a, <2>2 DEF Store!Candidates, Serving
  <2>4. c \in Store!Candidates(h) BY <1>0, <2>1, <2>3, MatchServes DEF SoloInv
  <2>5. c \in ConnType BY <1>0, <2>1, MigrateKnown DEF JobInv
  <2>6. c.refs \in Seq(Locs) /\ DOMAIN c.refs \subseteq Nat
        /\ \A i \in DOMAIN c.refs : 1..(i - 1) \subseteq DOMAIN c.refs
    BY <2>5 DEF ConnType
  <2> DEFINE full == {i \in DOMAIN c.refs : secrets[c.refs[i]] # None}
  <2>7. answer' = [answer EXCEPT ![w] = [host |-> h, conn |-> c, token |-> Store!FirstHeld(c)]]
    <3>1. CASE \E i \in DOMAIN c.refs :
                 /\ secrets[c.refs[i]] # None /\ \A k \in 1..(i - 1) : ~(secrets[c.refs[k]] # None)
                 /\ answer' = [answer EXCEPT ![w] = [host |-> h, conn |-> c, token |-> secrets[c.refs[i]]]]
      <4>1. PICK i \in DOMAIN c.refs :
                 /\ secrets[c.refs[i]] # None /\ \A k \in 1..(i - 1) : ~(secrets[c.refs[k]] # None)
                 /\ answer' = [answer EXCEPT ![w] = [host |-> h, conn |-> c, token |-> secrets[c.refs[i]]]]
        BY <3>1
      <4>2. i \in full /\ \A k \in full : i <= k
        <5>1. \A k \in full : k \in Nat /\ k \notin 1..(i - 1) /\ k >= 1 BY <2>6, <4>1
        <5> QED BY <2>6, <4>1, <5>1
      <4>3. full # {} /\ (CHOOSE k \in full : \A m \in full : k <= m) = i
        <5>1. \A k \in full : (\A m \in full : k <= m) => k = i BY <2>6, <4>2
        <5> QED BY <4>2, <5>1
      <4>4. Store!FirstHeld(c) = secrets[c.refs[i]] BY <4>3 DEF Store!FirstHeld
      <4> QED BY <4>1, <4>4
    <3>2. CASE /\ \A k \in DOMAIN c.refs : ~(secrets[c.refs[k]] # None)
               /\ answer' = [answer EXCEPT ![w] = [host |-> h, conn |-> c, token |-> None]]
      <4>1. full = {} BY <3>2
      <4>2. Store!FirstHeld(c) = None BY <4>1 DEF Store!FirstHeld
      <4> QED BY <3>2, <4>2
    <3> QED BY <1>15, <3>1, <3>2 DEF ReadSecret
  <2>8. Store!Look(w, h) BY <1>a, <2>1, <2>2, <2>4, <2>7 DEF Store!Look
  <2>9. h \in Hosts \cup {None} BY <1>0 DEF TypeOK, JobType
  <2> QED BY <1>0, <2>8, <2>9 DEF Store!StoreNext
<1>16. CASE LoadFails(w) \/ SaveFails(w) \/ Crash(w)
  BY <1>16 DEF LoadFails, SaveFails, Crash, SoloInv
<1> QED BY <1>0, <1>1, <1>4, <1>5, <1>6, <1>7, <1>8, <1>9, <1>10, <1>11, <1>12, <1>13, <1>14,
           <1>15, <1>16 DEF Next

LEMMA StoreStart ==
  ASSUME NEW w, Writers = {w}, Init, TypeOK
  PROVE  Store!StoreInit
<1>1. ListedOf(w) = Conns(Loaded) BY PromiseInit DEF ListedOf, Actors
<1>2. Effective \subseteq Known BY <1>1, EffectiveSolo, ConnsLoaded
<1> QED BY <1>2 DEF Store!StoreInit, TypeOK, Init, NoAnswer

\* A single caller whose steps all succeed cannot tell the registry file and the
\* keychain, changed one step at a time, from one atomic store: `connect` puts,
\* `disconnect` takes, `resolve` looks. (The file is empty for a moment, and the
\* keychain is ahead of it for longer: nobody is there to see it.)
THEOREM RegistryIsStore ==
  (\E w : Writers = {w}) /\ Readers = {} /\ Faults = {} => (Spec => ImplementsStore)
<1> SUFFICES ASSUME \E w : Writers = {w}, Readers = {}, Faults = {}
             PROVE  Spec => ImplementsStore
  OBVIOUS
<1>1. PICK w : Writers = {w} /\ Actors = {w} BY DEF Actors
<1>2. Init /\ TypeOK => Store!StoreInit BY <1>1, StoreStart
<1>3. Inv /\ WriterInv /\ SoloInv /\ [Next]_vars => SoloInv' BY <1>1, SoloStep DEF Inv
<1>4. Inv /\ WriterInv /\ SoloInv /\ [Next]_vars => [Store!StoreNext]_(Store!storeVars)
  BY <1>1, StoreStep DEF Inv
<1>5. Inv /\ WriterInv /\ [Next]_vars => WriterInv' BY <1>1, WriterStep DEF Inv
<1>6. Init => SoloInv BY SoloInit
<1>7. Inv => TypeOK BY DEF Inv
<1> QED BY <1>2, <1>3, <1>4, <1>5, <1>6, <1>7, WriterInit, Invariance, PTL
        DEF Spec, ImplementsStore, Store!StoreSpec
============================================================================
