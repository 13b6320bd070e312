---------------------------- MODULE Connections ----------------------------
(***************************************************************************)
(* The connection registry and the secrets behind it: the two pieces of    *)
(* persistent state that `connect`, `disconnect` and `resolve` share.      *)
(*                                                                         *)
(* The registry is one protobuf file, rewritten whole by every change; the *)
(* secrets live in the keychain, or in environment variables (read-only).  *)
(* Nothing locks either of them, and the operations run in fvd's           *)
(* concurrent request handlers, in the GUI and in the command-line tools,  *)
(* so every access to the file or to a secret is a step of its own here.   *)
(*                                                                         *)
(* A connection is what `preset` builds: an id, the hosts its patterns     *)
(* match, and the locations its secret may live at, in order of            *)
(* precedence.  An entry of the file is a connection with its rank: how    *)
(* many entries follow it (rank 0 is the last of the file).                *)
(***************************************************************************)
EXTENDS Naturals, FiniteSets, Sequences

CONSTANTS
  Writers,      \* processes and tasks that connect and disconnect (and resolve)
  Readers,      \* processes that only resolve: the credential helpers of a build
  Presets,      \* the connections `preset` builds when users connect
  Legacy,       \* connections of registries older than `secret_refs`
  Defaults,     \* those of the built-in registry
  KeychainLocs, \* the keychain items: secret locations that can be written
  EnvLocs,      \* the environment variables: secret locations nobody writes
  Tokens,       \* the secrets the providers can issue (bounds the connects)
  Ambient,      \* what an environment variable holds when it is set
  Hosts, Ids,
  Faults,       \* the failures this instance admits
  None          \* no connection, no token, no id, no location

FaultKinds == {"keychain", "disk", "crash", "corrupt"}
Locs   == KeychainLocs \cup EnvLocs
Actors == Writers \cup Readers

ConnType == [id: Ids, hosts: SUBSET Hosts, refs: Seq(Locs), legacy: KeychainLocs \cup {None}]

(***************************************************************************)
(* `migrate`: a connection without refs gets its legacy keychain item.     *)
(***************************************************************************)
Migrate(c) == IF c.refs = <<>> /\ c.legacy # None
              THEN [c EXCEPT !.refs = <<c.legacy>>]
              ELSE c

Known == Presets \cup Defaults \cup Legacy \cup {Migrate(c) : c \in Legacy}

RefsOf(c) == {c.refs[i] : i \in DOMAIN c.refs}

ASSUME ConstantTypes ==
  /\ Presets \cup Defaults \cup Legacy \subseteq ConnType
  /\ \A c \in Presets \cup Defaults : c.refs # <<>> /\ c.legacy = None
  /\ \A c \in Legacy : c.refs = <<>> /\ c.legacy # None
  /\ KeychainLocs \cap EnvLocs = {}
  /\ None \notin Locs /\ None \notin Ids /\ None \notin Hosts /\ None \notin ConnType
  /\ None \notin Tokens /\ None # Ambient
  /\ Ambient \notin Tokens
  /\ Faults \subseteq FaultKinds

\* Two connections keep their secret in one keychain item.
Shares(c, d) == RefsOf(c) \cap RefsOf(d) \cap KeychainLocs # {}

\* The keychain service is "fastverk.<id>": connections that share an item have
\* one id. They need not have the same hosts: `connection_id` gives a provider's
\* default host the provider's name, and any other host its own.
ASSUME ItemsSeparate == \A c, d \in Known : Shares(c, d) => c.id = d.id

VARIABLES
  file,       \* the registry file: [readable, entries]
  secrets,    \* what each location holds
  issuedFor,  \* the connection each token was issued for, None while unissued
  pc, job,    \* where each actor is, and its local variables
  answer,     \* what each actor's last resolve returned
  \* The last three record history for the properties; no step reads them.
  committed,  \* the entries of the last save that completed
  promise,    \* what the last change of an id told its caller, once it returned
  stored      \* the ids whose secret has been stored at some time

history == <<committed, promise, stored>>
vars == <<file, secrets, issuedFor, pc, job, answer, history>>

NoJob     == [kind |-> "none", id |-> None, host |-> None, conn |-> None,
              token |-> None, snap |-> {}, solo |-> TRUE]
NoAnswer  == [host |-> None, conn |-> None, token |-> None]
Promise(kind, c, t) == [kind |-> kind, conn |-> c, token |-> t]
NoPromise == Promise("none", None, None)

Entry == [rank: Nat, conn: Known]
JobType == [kind: {"none", "connect", "disconnect", "resolve"}, id: Ids \cup {None},
            host: Hosts \cup {None}, conn: Known \cup {None}, token: Tokens \cup {None},
            snap: SUBSET Entry, solo: BOOLEAN]
AnswerType  == [host: Hosts \cup {None}, conn: Known \cup {None},
                token: Tokens \cup {Ambient, None}]
PromiseType == [kind: {"none", "connected", "removed"}, conn: Known \cup {None},
                token: Tokens \cup {None}]

TypeOK ==
  /\ file \in [readable: BOOLEAN, entries: SUBSET Entry]
  /\ IsFiniteSet(file.entries)
  /\ secrets \in [Locs -> Tokens \cup {Ambient, None}]
  /\ issuedFor \in [Tokens -> Known \cup {None}]
  /\ pc \in [Actors -> {"idle", "store", "load", "erase", "truncate", "write", "read"}]
  /\ job \in [Actors -> JobType]
  /\ \A p \in Actors : IsFiniteSet(job[p].snap)
  /\ answer \in [Actors -> AnswerType]
  /\ committed \subseteq Entry
  /\ promise \in [Ids -> PromiseType]
  /\ stored \subseteq Ids
----------------------------------------------------------------------------
(***************************************************************************)
(* The registry as a value.                                                *)
(***************************************************************************)

\* Rank afresh from `base`, keeping the order.
Below(es, e) == Cardinality({d \in es : d.rank < e.rank})
Ranked(es, base) == {[rank |-> base + Below(es, e), conn |-> e.conn] : e \in es}

\* `load`: an absent file and an empty one both decode to no connection.
Loaded == {[e EXCEPT !.conn = Migrate(@)] : e \in file.entries}

\* `remove`, and the `retain` of `persist`.
Without(es, id) == Ranked({e \in es : e.conn.id # id}, 0)

\* Mutants of Upsert: `persist` does not retain at all, and its `retain` keeps
\* what it should drop.
UpsertPushes(es, c) == Ranked(es, 1) \cup {[rank |-> 0, conn |-> c]}
UpsertInverted(es, c) ==
  Ranked({e \in es : e.conn.id = c.id}, 1) \cup {[rank |-> 0, conn |-> c]}

\* The upsert of `persist`: retain the others, push at the end.
Upsert(es, c) == Ranked({e \in es : e.conn.id # c.id}, 1) \cup {[rank |-> 0, conn |-> c]}

Listed(es, id) == \E e \in es : e.conn.id = id

\* `match_host`: the first entry of the file whose patterns match (a set of at
\* most one connection).
Matching(es, h) == {e \in es : h \in e.conn.hosts}
FirstOf(es) == {e.conn : e \in {e \in es : \A d \in es : d.rank <= e.rank}}

\* Mutant of Match: the host is not compared with the patterns.
MatchAnyHost(es, h) == IF es # {} THEN FirstOf(es) ELSE {c \in Defaults : h \in c.hosts}

\* The connection `resolve` settles on, if any: the user's registry first, then
\* the built-in one, whose presets have disjoint hosts.
Match(es, h) ==
  IF Matching(es, h) # {} THEN FirstOf(Matching(es, h)) ELSE {c \in Defaults : h \in c.hosts}

(***************************************************************************)
(* What `fs::write` leaves when it writes `es` at the start of a file that *)
(* another writer filled since we truncated it: our bytes, then the rest   *)
(* of theirs if theirs is longer.  The rest is whole entries when the      *)
(* entries happen to have equal sizes, and does not decode otherwise.      *)
(***************************************************************************)
Beyond(es, n) == {e \in es : e.rank + n < Cardinality(es)}
Over(es, old) ==
  LET rest == Beyond(old, Cardinality(es))
  IN  Ranked(es, Cardinality(rest)) \cup rest
Overwritten(es) ==
  IF file.readable /\ file.entries = {}
  THEN {[readable |-> TRUE, entries |-> es]}
  ELSE {[readable |-> TRUE, entries |-> es], [readable |-> FALSE, entries |-> {}]}
       \cup (IF file.readable THEN {[readable |-> TRUE, entries |-> Over(es, file.entries)]} ELSE {})
----------------------------------------------------------------------------
Init ==
  /\ file \in [readable: {TRUE}, entries: {{}} \cup {{[rank |-> 0, conn |-> c]} : c \in Legacy}]
              \cup (IF "corrupt" \in Faults THEN {[readable |-> FALSE, entries |-> {}]} ELSE {})
  /\ \E held \in [Legacy -> Tokens], env \in [EnvLocs -> {Ambient, None}] :
       /\ \A c, d \in Legacy : held[c] = held[d] => c = d
       /\ issuedFor = [t \in Tokens |-> IF \E c \in Legacy : held[c] = t
                                        THEN CHOOSE c \in Legacy : held[c] = t ELSE None]
       /\ secrets = [l \in Locs |-> IF l \in EnvLocs THEN env[l]
                                    ELSE IF \E c \in Legacy : c.legacy = l
                                    THEN held[CHOOSE c \in Legacy : c.legacy = l] ELSE None]
  /\ pc = [p \in Actors |-> "idle"]
  /\ job = [p \in Actors |-> NoJob]
  /\ answer = [p \in Actors |-> NoAnswer]
  /\ committed = file.entries
  /\ promise = [id \in Ids |-> NoPromise]
  /\ stored = {c.id : c \in Legacy}

Goto(p, l) == pc' = [pc EXCEPT ![p] = l]
Return(p)  == Goto(p, "idle") /\ job' = [job EXCEPT ![p] = NoJob]

\* Begin a change of `id`: a change whose caller can rely on the outcome is one
\* that no other change of the same id overlaps.
Rivals(p, id) == {q \in Writers \ {p} : job[q].id = id}
Begin(p, j) ==
  /\ job' = [q \in Actors |->
               IF q = p THEN [j EXCEPT !.solo = (Rivals(p, j.id) = {})]
               ELSE IF q \in Rivals(p, j.id) THEN [job[q] EXCEPT !.solo = FALSE]
               ELSE job[q]]
  /\ promise' = [promise EXCEPT ![j.id] = NoPromise]
Told(p, pr) == promise' = [promise EXCEPT ![job[p].id] = IF job[p].solo THEN pr ELSE NoPromise]

\* Mutant of StartConnect: `persist` saves the registry without storing first.
StartConnectUnstored(p, c) ==
  /\ pc[p] = "idle" /\ p \in Writers
  /\ \E t \in Tokens :
       /\ issuedFor[t] = None
       /\ issuedFor' = [issuedFor EXCEPT ![t] = c]
       /\ Begin(p, [NoJob EXCEPT !.kind = "connect", !.id = c.id, !.conn = c, !.token = t])
  /\ Goto(p, "load")
  /\ UNCHANGED <<file, secrets, answer, committed, stored>>

\* `connect` / `connect_pkce` once the provider has issued a token for the
\* preset (the flow itself is not modelled here).
StartConnect(p, c) ==
  /\ pc[p] = "idle" /\ p \in Writers
  /\ \E t \in Tokens :
       /\ issuedFor[t] = None
       /\ issuedFor' = [issuedFor EXCEPT ![t] = c]
       /\ Begin(p, [NoJob EXCEPT !.kind = "connect", !.id = c.id, !.conn = c, !.token = t])
  /\ Goto(p, "store")
  /\ UNCHANGED <<file, secrets, answer, committed, stored>>

StartDisconnect(p, id) ==
  /\ pc[p] = "idle" /\ p \in Writers
  /\ Begin(p, [NoJob EXCEPT !.kind = "disconnect", !.id = id])
  /\ Goto(p, "load")
  /\ UNCHANGED <<file, secrets, issuedFor, answer, committed, stored>>

StartResolve(p, h) ==
  /\ pc[p] = "idle"
  /\ job' = [job EXCEPT ![p] = [NoJob EXCEPT !.kind = "resolve", !.host = h]]
  /\ Goto(p, "load")
  /\ UNCHANGED <<file, secrets, issuedFor, answer, history>>

\* `Resolver::store`: the first ref whose backend accepts the secret; the
\* environment never does, the keychain unless it fails.
StoreSecret(p) ==
  LET refs == job[p].conn.refs IN
  /\ pc[p] = "store"
  /\ \E i \in DOMAIN refs :
       /\ refs[i] \in KeychainLocs
       /\ \A k \in 1..(i - 1) : refs[k] \in KeychainLocs => "keychain" \in Faults
       /\ secrets' = [secrets EXCEPT ![refs[i]] = job[p].token]
  /\ stored' = stored \cup {job[p].id}
  /\ Goto(p, "load")
  /\ UNCHANGED <<file, issuedFor, job, answer, committed, promise>>

StoreFails(p) ==
  /\ pc[p] = "store"
  /\ RefsOf(job[p].conn) \cap KeychainLocs # {} => "keychain" \in Faults
  /\ Return(p)
  /\ UNCHANGED <<file, secrets, issuedFor, answer, history>>

LoadForConnect(p) ==
  /\ pc[p] = "load" /\ job[p].kind = "connect"
  /\ file.readable
  /\ job' = [job EXCEPT ![p].snap = Upsert(Loaded, job[p].conn)]
  /\ Goto(p, "truncate")
  /\ UNCHANGED <<file, secrets, issuedFor, answer, history>>

LoadForDisconnect(p) ==
  /\ pc[p] = "load" /\ job[p].kind = "disconnect"
  /\ file.readable
  /\ \E c \in FirstOf({e \in Loaded : e.conn.id = job[p].id}) :
       job' = [job EXCEPT ![p].conn = c, ![p].snap = Without(Loaded, job[p].id)]
  /\ Goto(p, "erase")
  /\ UNCHANGED <<file, secrets, issuedFor, answer, history>>

\* Not listed: `disconnect` returns false and writes nothing.
NothingToDisconnect(p) ==
  /\ pc[p] = "load" /\ job[p].kind = "disconnect"
  /\ file.readable /\ ~Listed(Loaded, job[p].id)
  /\ Return(p)
  /\ UNCHANGED <<file, secrets, issuedFor, answer, history>>

\* A registry that does not decode fails `connect` (its secret is stored
\* already) and `disconnect`.
LoadFails(p) ==
  /\ pc[p] = "load" /\ job[p].kind \in {"connect", "disconnect"}
  /\ ~file.readable
  /\ Return(p)
  /\ UNCHANGED <<file, secrets, issuedFor, answer, history>>

\* Mutant of EraseSecret: `disconnect` only drops the entry.
EraseNothing(p) ==
  /\ pc[p] = "erase"
  /\ Goto(p, "truncate")
  /\ UNCHANGED <<file, secrets, issuedFor, job, answer, history>>

\* `Resolver::delete`: every ref, the errors swallowed.
EraseSecret(p) ==
  /\ pc[p] = "erase"
  /\ \E failed \in SUBSET (RefsOf(job[p].conn) \cap KeychainLocs) :
       /\ failed # {} => "keychain" \in Faults
       /\ secrets' = [l \in Locs |-> IF l \in (RefsOf(job[p].conn) \cap KeychainLocs) \ failed
                                     THEN None ELSE secrets[l]]
  /\ Goto(p, "truncate")
  /\ UNCHANGED <<file, issuedFor, job, answer, history>>

\* `save`: `fs::write` truncates the file, then writes it.
Truncate(p) ==
  /\ pc[p] = "truncate"
  /\ file' = [readable |-> TRUE, entries |-> {}]
  /\ Goto(p, "write")
  /\ UNCHANGED <<secrets, issuedFor, job, answer, history>>

WriteAll(p) ==
  /\ pc[p] = "write"
  /\ file' \in Overwritten(job[p].snap)
  /\ committed' = job[p].snap
  /\ Told(p, IF job[p].kind = "connect" THEN Promise("connected", job[p].conn, job[p].token)
             ELSE Promise("removed", job[p].conn, None))
  /\ Return(p)
  /\ UNCHANGED <<secrets, issuedFor, answer, stored>>

\* The disk refuses the open, or is full once the file is truncated.
SaveFails(p) ==
  /\ pc[p] \in {"truncate", "write"} /\ "disk" \in Faults
  /\ file' \in {file} \cup (IF pc[p] = "write" THEN {[readable |-> FALSE, entries |-> {}]} ELSE {})
  /\ Return(p)
  /\ UNCHANGED <<secrets, issuedFor, answer, history>>

\* `resolve` reads the registry; one that does not decode counts as empty.
LoadForResolve(p) ==
  LET found == Match(IF file.readable THEN Loaded ELSE {}, job[p].host) IN
  /\ pc[p] = "load" /\ job[p].kind = "resolve"
  /\ \/ /\ \E c \in found : job' = [job EXCEPT ![p].conn = c]
        /\ Goto(p, "read")
        /\ UNCHANGED answer
     \/ /\ found = {}
        /\ Return(p)
        /\ answer' = [answer EXCEPT ![p] = [NoAnswer EXCEPT !.host = job[p].host]]
  /\ UNCHANGED <<file, secrets, issuedFor, history>>

\* `Resolver::resolve`: the first ref that yields a secret; a backend error is
\* a ref that yields nothing.
ReadSecret(p) ==
  LET refs == job[p].conn.refs
      Yields(i) == secrets[refs[i]] # None
      MayMiss(i) == ~Yields(i) \/ (refs[i] \in KeychainLocs /\ "keychain" \in Faults)
      Reply(t) == [host |-> job[p].host, conn |-> job[p].conn, token |-> t]
  IN
  /\ pc[p] = "read"
  /\ \/ \E i \in DOMAIN refs :
          /\ Yields(i) /\ \A k \in 1..(i - 1) : MayMiss(k)
          /\ answer' = [answer EXCEPT ![p] = Reply(secrets[refs[i]])]
     \/ /\ \A k \in DOMAIN refs : MayMiss(k)
        /\ answer' = [answer EXCEPT ![p] = Reply(None)]
  /\ Return(p)
  /\ UNCHANGED <<file, secrets, issuedFor, history>>

\* The process ends (or the RPC's task is dropped) between two steps.
Crash(p) ==
  /\ pc[p] # "idle" /\ "crash" \in Faults
  /\ Return(p)
  /\ UNCHANGED <<file, secrets, issuedFor, answer, history>>

Next ==
  \E p \in Actors :
    \/ \E c \in Presets : StartConnect(p, c)
    \/ \E id \in Ids : StartDisconnect(p, id)
    \/ \E h \in Hosts : StartResolve(p, h)
    \/ StoreSecret(p) \/ StoreFails(p)
    \/ LoadForConnect(p) \/ LoadForDisconnect(p) \/ LoadForResolve(p)
    \/ NothingToDisconnect(p) \/ LoadFails(p)
    \/ EraseSecret(p) \/ ReadSecret(p)
    \/ Truncate(p) \/ WriteAll(p) \/ SaveFails(p)
    \/ Crash(p)

Spec == Init /\ [][Next]_vars
----------------------------------------------------------------------------
(***************************************************************************)
(* Properties.                                                             *)
(***************************************************************************)

\* No interleaving of connects, disconnects, crashes and stale snapshots sends a
\* token (`resolve`) to a host but of the connection it was issued for, or of
\* one that shares its keychain item: the same host under another provider, or
\* an instance whose host name is the short name of another's provider.
TokenConfinement ==
  \A p \in Actors : answer[p].token \in Tokens =>
    \E c \in Known : /\ answer[p].host \in c.hosts
                     /\ Shares(c, Migrate(issuedFor[answer[p].token]))

\* What the doc of `connection_id` says: the ids let "multiple instances of one
\* provider coexist", so a token is sent to no host of another instance. It is
\* so when connections that share an item have the same hosts, and not otherwise.
InstancesCoexist ==
  \A p \in Actors : answer[p].token \in Tokens =>
                      answer[p].host \in issuedFor[answer[p].token].hosts

\* A connection is listed only after its secret was stored: a crash or an error
\* between the steps of `persist` leaves a secret without an entry, never an
\* entry that was announced before there was a secret to resolve.
StoredBeforeListed == \A e \in file.entries : e.conn.id \in stored

\* The registry never holds two entries of one id, so that `disconnect` and the
\* upsert of `persist` leave none behind (with a single writer: two can).
UniqueIds == \A d, e \in file.entries : d.conn.id = e.conn.id => d = e

\* Once `connect` has returned its connection, the registry lists it and its
\* keychain item holds the token it obtained, until its id is changed again.
ConnectedIsListed ==
  \A id \in Ids : promise[id].kind = "connected" /\ (\A p \in Actors : pc[p] # "write") =>
    /\ file.readable /\ \E e \in file.entries : e.conn = promise[id].conn
    /\ \E l \in RefsOf(promise[id].conn) : secrets[l] = promise[id].token

\* Once `disconnect` has returned true, the id is not listed and the keychain
\* items of the entry it removed are gone, until its id is changed again.
DisconnectErases ==
  \A id \in Ids : promise[id].kind = "removed" /\ (\A p \in Actors : pc[p] # "write") =>
    /\ ~Listed(file.entries, id)
    /\ \A l \in RefsOf(promise[id].conn) \cap KeychainLocs : secrets[l] = None
----------------------------------------------------------------------------
(***************************************************************************)
(* Serialised and without failures, the three operations are atomic:       *)
(* `connect` takes effect when its secret is stored, `disconnect` when its *)
(* secret is erased; from there on the registry is what the change under   *)
(* way will have written.                                                  *)
(***************************************************************************)
Conns(es) == {e.conn : e \in es}
Effective ==
  IF \E p \in Writers : pc[p] = "load" /\ job[p].kind = "connect"
  THEN Conns(Upsert(Loaded, job[CHOOSE p \in Writers : pc[p] = "load"].conn))
  ELSE IF \E p \in Writers : pc[p] \in {"truncate", "write"}
  THEN Conns(job[CHOOSE p \in Writers : pc[p] \in {"truncate", "write"}].snap)
  ELSE Conns(Loaded)

Store == INSTANCE ConnectionStore WITH listed <- Effective, held <- secrets

\* The registry file and the keychain, changed step by step, behave as one
\* atomic store (`connect`, `disconnect`, `resolve` with a single caller).
ImplementsStore == Store!StoreSpec
============================================================================
