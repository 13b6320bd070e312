-------------------------- MODULE ResolutionProofs --------------------------
(***************************************************************************)
(* Proofs about Resolution, for any presets, offers, requests and          *)
(* environments: that the device flow keeps the server's pace and loses no *)
(* authorization; that the registry keeps under its callers what module    *)
(* ConnectionsProofs shows of it; and, for a single caller and no faults,  *)
(* that the right connection answers and that `explain` agrees.            *)
(***************************************************************************)
EXTENDS ConnectionsProofs, Resolution, SequenceTheorems

(***************************************************************************)
(* The device flow.                                                        *)
(***************************************************************************)

\* The client's interval is the server's, or longer; while the client still
\* polls, the code is not redeemed; a flow over an authorized code that failed
\* lost a request or was answered with something else.
FlowInv ==
  /\ Device!FlowOK
  /\ interval >= atLeast
  /\ step \in {"sleep", "poll"} => grant \in {"pending", "granted", "denied", "expired"}
  /\ step = "failed" /\ grant \in {"granted", "used"} => upset # "none"

LEMMA FlowMoves ==
  ASSUME FlowInv, Device!FlowStep
  PROVE  FlowInv'
<1> USE DEF FlowInv, Device!FlowOK
<1>1. CASE Device!Authorize
  <2>1. atLeast' \in Nat /\ atLeast' \in Int BY <1>1, ResolutionConstants DEF Device!Authorize
  <2> QED BY <1>1, <2>1 DEF Device!Authorize
<1>2. CASE Device!Sleep BY <1>2 DEF Device!Sleep
<1>3. CASE Device!RequestFails BY <1>3 DEF Device!RequestFails
<1>4. CASE Device!SlowDown BY <1>4 DEF Device!SlowDown
<1>5. CASE Device!Pending BY <1>5 DEF Device!Pending
<1>6. CASE Device!Granted BY <1>6 DEF Device!Granted
<1>7. CASE Device!Refused BY <1>7 DEF Device!Refused
<1>9. CASE Device!AnsweredOtherwise BY <1>9 DEF Device!AnsweredOtherwise
<1>8. CASE Device!Decide BY <1>8 DEF Device!Decide
<1> QED BY <1>1, <1>2, <1>3, <1>4, <1>5, <1>6, <1>7, <1>8, <1>9 DEF Device!FlowStep

\* What a step of the program does to the flow.
FlowMove == Device!Start \/ Device!FlowStep \/ Device!Reset \/ UNCHANGED flow

LEMMA FlowOfCallers == [RNext]_rvars => FlowMove
<1> SUFFICES ASSUME [RNext]_rvars PROVE FlowMove
  OBVIOUS
<1> USE DEF FlowMove, callers
<1>1. CASE UNCHANGED rvars BY <1>1 DEF rvars
<1>2. CASE Flow BY <1>2 DEF Flow
<1>3. ASSUME NEW p \in Actors, NEW o \in Offered,
             Connect(p, o[1], o[2]) \/ ConnectApiKey(p, o[1], o[2])
      PROVE  FlowMove
  BY <1>3 DEF Connect, ConnectApiKey
<1>4. ASSUME NEW p \in Actors, FlowGranted(p) \/ FlowFailed(p) PROVE FlowMove
  BY <1>4 DEF FlowGranted, FlowFailed
<1>5. ASSUME NEW p \in Actors, NEW q \in Asked, Resolve(p, q) \/ Explain(p, q) PROVE FlowMove
  BY <1>5 DEF Resolve, Explain
<1>6. ASSUME NEW p \in Actors,
             \/ LoadForExplain(p) \/ TraceRef(p) \/ ChooseRef(p) \/ EndTrace(p) \/ Explained(p)
             \/ Resolving(p) \/ Changing(p)
      PROVE  FlowMove
  BY <1>6 DEF LoadForExplain, TraceRef, ChooseRef, EndTrace, Explained, Resolving, Changing
<1> QED BY <1>1, <1>2, <1>3, <1>4, <1>5, <1>6 DEF RNext

LEMMA FlowInvariance == RSpec => []FlowInv
<1>1. RInit => FlowInv
  <2> SUFFICES ASSUME Device!NoFlow PROVE FlowInv
    BY DEF RInit
  <2>1. step = "idle" /\ interval = 0 /\ atLeast = 0 /\ grant = "none" /\ upset \in {"none", "request", "answer"}
    BY DEF Device!NoFlow
  <2> QED BY <2>1 DEF FlowInv, Device!FlowOK
<1>2. FlowInv /\ [RNext]_rvars => FlowInv'
  <2> SUFFICES ASSUME FlowInv, [RNext]_rvars PROVE FlowInv'
    OBVIOUS
  <2>1. CASE Device!Start BY <2>1 DEF Device!Start, FlowInv, Device!FlowOK
  <2>2. CASE Device!FlowStep BY <2>2, FlowMoves
  <2>3. CASE Device!Reset
    <3>1. /\ step' = "idle" /\ interval' = 0 /\ atLeast' = 0 /\ grant' = "none"
          /\ upset' \in {"none", "request", "answer"}
      BY <2>3 DEF Device!Reset
    <3> QED BY <3>1 DEF FlowInv, Device!FlowOK
  <2>4. CASE UNCHANGED flow BY <2>4 DEF flow, FlowInv, Device!FlowOK
  <2> QED BY <2>1, <2>2, <2>3, <2>4, FlowOfCallers DEF FlowMove
<1> QED BY <1>1, <1>2, PTL DEF RSpec

\* However often the server slows the client down, whatever the intervals: a poll
\* comes no sooner than the server wants it.
THEOREM PaceKept == RSpec => []KeepsPace
<1>1. FlowInv => KeepsPace BY DEF FlowInv, KeepsPace, Device!KeepsPace
<1> QED BY <1>1, FlowInvariance, PTL

\* A code the user authorized is redeemed, unless a request of the flow is lost or
\* answered with something that does not concern the code.
THEOREM AuthorizationRedeemed == RSpec => []GrantRedeemed
<1>1. FlowInv => GrantRedeemed BY DEF FlowInv, GrantRedeemed, Device!GrantRedeemed
<1> QED BY <1>1, FlowInvariance, PTL
----------------------------------------------------------------------------
(***************************************************************************)
(* The registry under its callers. A step of the program is a step of      *)
(* module Connections, or the answer to a request without a host.          *)
(***************************************************************************)
Anonymous(p) ==
  /\ p \in Actors /\ pc[p] = "idle" /\ answer' = [answer EXCEPT ![p] = NoAnswer]
  /\ UNCHANGED <<file, secrets, issuedFor, pc, job, history>>

\* A flow is run for somebody, and for a connection that is offered.
CallersInv ==
  IF step = "idle" THEN forWhom = <<>>
  ELSE \E p \in Actors, o \in Offered : forWhom = <<p, o[1], o[2]>>

LEMMA CallersStep == CallersInv /\ [RNext]_rvars => CallersInv'
<1> SUFFICES ASSUME CallersInv, [RNext]_rvars PROVE CallersInv'
  OBVIOUS
<1> USE DEF CallersInv, callers
<1>1. CASE UNCHANGED <<step, forWhom>> BY <1>1
<1>2. CASE Flow
  <2>1. step # "idle" /\ step' # "idle" /\ forWhom' = forWhom
    BY <1>2 DEF Flow, Device!FlowStep, Device!Authorize, Device!Sleep, Device!RequestFails,
       Device!SlowDown, Device!Pending, Device!Granted, Device!Refused, Device!AnsweredOtherwise, Device!Decide
  <2> QED BY <2>1
<1>3. ASSUME NEW p \in Actors, NEW o \in Offered, Connect(p, o[1], o[2]) PROVE CallersInv'
  BY <1>3 DEF Connect, Device!Start
<1>4. ASSUME NEW p \in Actors, FlowGranted(p) \/ FlowFailed(p) PROVE CallersInv'
  BY <1>4 DEF FlowGranted, FlowFailed, Device!Reset
<1>5. ASSUME NEW p \in Actors,
             \/ \E o \in Offered : ConnectApiKey(p, o[1], o[2])
             \/ \E q \in Asked : Resolve(p, q) \/ Explain(p, q)
             \/ LoadForExplain(p) \/ TraceRef(p) \/ ChooseRef(p) \/ EndTrace(p) \/ Explained(p)
             \/ Resolving(p) \/ Changing(p)
      PROVE  UNCHANGED <<step, forWhom>>
  BY <1>5 DEF ConnectApiKey, Resolve, Explain, LoadForExplain, TraceRef, ChooseRef, EndTrace,
     Explained, Resolving, Changing, flow
<1> QED BY <1>1, <1>2, <1>3, <1>4, <1>5 DEF RNext, rvars, flow

LEMMA RegistryMoves ==
  ASSUME CallersInv, [RNext]_rvars
  PROVE  [Next]_vars \/ \E p \in Actors : Anonymous(p)
<1>1. CASE UNCHANGED vars BY <1>1
<1>2. ASSUME NEW p \in Actors, NEW o \in Offered, StartConnect(p, Built(o[1], o[2]))
      PROVE  Next
  BY <1>2, ResolutionConstants DEF Next
<1>3. ASSUME NEW p \in Actors, NEW o \in Offered, ConnectApiKey(p, o[1], o[2]) PROVE Next
  BY <1>2, <1>3 DEF ConnectApiKey
<1>4. ASSUME NEW p \in Actors, FlowGranted(p) PROVE Next
  <2>1. PICK q \in Actors, o \in Offered : forWhom = <<q, o[1], o[2]>>
    BY <1>4 DEF FlowGranted, CallersInv
  <2>2. forWhom[2] = o[1] /\ forWhom[3] = o[2] BY <2>1
  <2> QED BY <1>2, <1>4, <2>2 DEF FlowGranted
<1>5. ASSUME NEW p \in Actors, NEW q \in Asked, Resolve(p, q) PROVE Next \/ Anonymous(p)
  <2>1. CASE q.host = None BY <1>5, <2>1 DEF Resolve, Free, Anonymous
  <2>2. CASE q.host # None
    <3>1. q.host \in Hosts BY <2>2, ResolutionConstants
    <3>2. StartResolve(p, q.host) BY <1>5, <2>2 DEF Resolve
    <3> QED BY <3>1, <3>2 DEF Next
  <2> QED BY <2>1, <2>2
<1>6. ASSUME NEW p \in Actors, Resolving(p) \/ Changing(p) PROVE Next
  BY <1>6 DEF Resolving, Changing, Next
<1>7. CASE Flow BY <1>7 DEF Flow
<1>8. ASSUME NEW p \in Actors,
             \/ \E o \in Offered : Connect(p, o[1], o[2])
             \/ FlowFailed(p) \/ \E q \in Asked : Explain(p, q)
             \/ LoadForExplain(p) \/ TraceRef(p) \/ ChooseRef(p) \/ EndTrace(p) \/ Explained(p)
      PROVE  UNCHANGED vars
  BY <1>8 DEF Connect, FlowFailed, Explain, LoadForExplain, TraceRef, ChooseRef, EndTrace, Explained
<1>9. UNCHANGED rvars => UNCHANGED vars BY DEF rvars
<1> QED BY <1>1, <1>3, <1>4, <1>5, <1>6, <1>7, <1>8, <1>9 DEF RNext

LEMMA AnonymousInv ==
  ASSUME Inv, NEW p \in Actors, Anonymous(p)
  PROVE  Inv'
<1> USE DEF history
<1>1. NoAnswer \in AnswerType /\ NoAnswer.token = None BY DEF NoAnswer, AnswerType
<1>2. answer' \in [Actors -> AnswerType] BY <1>1 DEF Anonymous, Inv, TypeOK
<1>3. TypeOK' BY <1>2 DEF Inv, TypeOK, Anonymous
<1>4. JobInv' BY DEF Inv, JobInv, Anonymous
<1>5. answer'[p].token = None /\ \A q \in Actors \ {p} : answer'[q] = answer[q]
  BY <1>1 DEF Inv, TypeOK, Anonymous
<1>6. TokenInv' BY <1>5, ConstantTypes DEF Inv, TokenInv, Anonymous
<1> QED BY <1>3, <1>4, <1>6 DEF Inv

LEMMA CallersInvariance == RSpec => [](Inv /\ CallersInv)
<1>1. RInit => Inv /\ CallersInv
  BY InvInit DEF RInit, CallersInv, Device!NoFlow
<1>2. Inv /\ CallersInv /\ [RNext]_rvars => Inv' /\ CallersInv'
  BY CallersStep, RegistryMoves, AnonymousInv, InvStep
<1> QED BY <1>1, <1>2, PTL DEF RSpec

LEMMA AnonymousKeeps ==
  ASSUME NEW p \in Actors, Anonymous(p)
  PROVE  /\ StoredInv => StoredInv'
         /\ WriterInv => WriterInv'
         /\ ConnectedInv => ConnectedInv'
         /\ RemovedInv => RemovedInv'
<1> USE DEF Anonymous, history
<1>1. StoredInv => StoredInv' BY DEF StoredInv
<1>2. WriterInv => WriterInv' BY DEF WriterInv
<1>3. Loaded' = Loaded BY DEF Loaded
<1>4. ConnectedInv => ConnectedInv'
  BY <1>3 DEF ConnectedInv, KeptFacts, ConnectFacts, Holds
<1>5. RemovedInv => RemovedInv'
  BY <1>3 DEF RemovedInv, GoneFacts, DisconnectFacts, Erased
<1> QED BY <1>1, <1>2, <1>4, <1>5

\* Many callers, any interleaving and any failure: the types, that a token only
\* goes to hosts of connections that share the keychain item of the one it was
\* issued for, and that a listed id had its secret stored, when the connections
\* come from the presets and the hosts from the requests.
THEOREM RequestsConfined ==
  RSpec => [](TypeOK /\ TokenConfinement /\ StoredBeforeListed)
<1>1. RInit => StoredInv BY StoredInit DEF RInit
<1>2. Inv /\ CallersInv /\ StoredInv /\ [RNext]_rvars => StoredInv'
  BY RegistryMoves, AnonymousKeeps, StoredStep DEF Inv
<1>3. Inv => TypeOK /\ TokenConfinement BY DEF Inv, TokenInv, TokenConfinement
<1> QED BY <1>1, <1>2, <1>3, StoredShows, CallersInvariance, PTL DEF RSpec

\* A single writer whose backends work and that is not interrupted: ids are not
\* doubled, and what connect and disconnect told stays true, under the same callers.
THEOREM ChangesKept ==
  (\E w : Writers = {w}) /\ Faults \cap {"keychain", "disk", "crash"} = {} =>
    (RSpec => [](UniqueIds /\ ConnectedIsListed /\ DisconnectErases))
<1> SUFFICES ASSUME \E w : Writers = {w}, Faults \cap {"keychain", "disk", "crash"} = {}
             PROVE  RSpec => [](UniqueIds /\ ConnectedIsListed /\ DisconnectErases)
  OBVIOUS
<1> DEFINE Changes == WriterInv /\ ConnectedInv /\ RemovedInv
<1>1. RInit => Changes BY WriterInit, ConnectedInit, RemovedInit DEF RInit
<1>2. Inv /\ CallersInv /\ Changes /\ [RNext]_rvars => Changes'
  BY RegistryMoves, AnonymousKeeps, WriterStep, ConnectedStep, RemovedStep DEF Inv
<1>3. Changes => UniqueIds /\ ConnectedIsListed /\ DisconnectErases
  BY UniqueShows, ConnectedShows, RemovedShows
<1> QED BY <1>1, <1>2, <1>3, CallersInvariance, PTL DEF RSpec

(***************************************************************************)
(* A single caller and no failures.                                        *)
(***************************************************************************)
LEMMA AnonymousSolo ==
  ASSUME SoloInv, NEW p \in Actors, Anonymous(p)
  PROVE  SoloInv'
<1> USE DEF Anonymous, history
<1>1. Loaded' = Loaded BY DEF Loaded
<1>2. \A q \in Actors : (job[q].conn \in Match(Loaded, job[q].host))'
                           <=> job[q].conn \in Match(Loaded, job[q].host)
  BY <1>1 DEF Match, Matching, FirstOf
<1>3. \A q \in Actors : pc[q] = "read" => (job[q].conn \in Match(Loaded, job[q].host))'
  BY <1>2 DEF SoloInv
<1> QED BY <1>1, <1>3 DEF SoloInv, Conns

LEMMA SoloInvariance ==
  ASSUME NEW w, Writers = {w}, Actors = {w}, Faults \subseteq {"keychain"}
  PROVE  RSpec => [](Inv /\ CallersInv /\ WriterInv /\ SoloInv)
<1> DEFINE Solo == WriterInv /\ SoloInv
<1>1. RInit => Solo BY WriterInit, SoloInit DEF RInit
<1>2. Inv /\ CallersInv /\ Solo /\ [RNext]_rvars => Solo'
  BY RegistryMoves, AnonymousKeeps, AnonymousSolo, WriterStep, SoloStep DEF Inv
<1> QED BY <1>1, <1>2, CallersInvariance, PTL DEF RSpec

\* For the store, an answer to a request without a host is a look that finds none.
LEMMA AnonymousLook ==
  ASSUME NEW w, Writers = {w}, Actors = {w}, Inv, Anonymous(w)
  PROVE  Store!StoreNext
<1> USE DEF Anonymous, history
<1>1. ListedOf(w) = Conns(Loaded) BY DEF ListedOf
<1>2. Loaded' = Loaded BY DEF Loaded
<1>3. ListedOf(w)' = Conns(Loaded) BY <1>2 DEF ListedOf, Conns
<1>4. Effective = Conns(Loaded) /\ Effective' = Effective BY <1>1, <1>3, EffectiveSolo
<1>5. \A c \in Conns(Loaded) \cup Defaults : None \notin c.hosts
  <2>1. Conns(Loaded) \cup Defaults \subseteq Known BY ConnsLoaded, ConstantTypes DEF Inv, Known
  <2>2. \A c \in Known : c.hosts \subseteq Hosts BY MigrateKnown DEF ConnType
  <2> QED BY <2>1, <2>2, ConstantTypes
<1>6. Store!Candidates(None) = {} BY <1>4, <1>5 DEF Store!Candidates
<1>7. Store!Look(w, None) BY <1>4, <1>6 DEF Store!Look, NoAnswer
<1> QED BY <1>7 DEF Store!StoreNext

\* One caller and no failures: under every request, with and without a host, and
\* every connection on offer, the registry and the keychain are one atomic store.
THEOREM RequestsSeeStore ==
  (\E w : Writers = {w}) /\ Readers = {} /\ Faults = {} => (RSpec => ImplementsStore)
<1> SUFFICES ASSUME \E w : Writers = {w}, Readers = {}, Faults = {}
             PROVE  RSpec => ImplementsStore
  OBVIOUS
<1>1. PICK w : Writers = {w} /\ Actors = {w} BY DEF Actors
<1>2. RInit /\ Inv => Store!StoreInit BY <1>1, StoreStart DEF RInit, Inv
<1>3. Inv /\ CallersInv /\ WriterInv /\ SoloInv /\ [RNext]_rvars
        => [Store!StoreNext]_(Store!storeVars)
  BY <1>1, RegistryMoves, StoreStep, AnonymousLook DEF Inv
<1>4. RSpec => [](Inv /\ CallersInv /\ WriterInv /\ SoloInv)
  <2>1. Faults \subseteq {"keychain"} OBVIOUS
  <2> QED BY <1>1, <2>1, SoloInvariance
<1> QED BY <1>2, <1>3, <1>4, PTL DEF RSpec, ImplementsStore, Store!StoreSpec
----------------------------------------------------------------------------
(***************************************************************************)
(* A single caller, no failures but the keychain's: between its changes    *)
(* the file holds what was saved last, a resolve is about the request it   *)
(* was given, an explanation about what the registry and the secrets hold. *)
(***************************************************************************)
SavedInv == \A p \in Actors : pc[p] # "write" => file.entries = committed

RequestInv ==
  \A p \in Actors : pc[p] # "idle" /\ job[p].kind = "resolve" =>
    asked[p] \in Asked /\ job[p].host = asked[p].host

\* Of the refs before `n`, the first that yields is the source.
Chosen(c, n, s) ==
  \/ s = None /\ \A i \in Yielding(c) : i >= n
  \/ \E i \in Yielding(c) : i < n /\ s = c.refs[i] /\ \A k \in Yielding(c) : i <= k

Traces == [at: {"idle", "load", "ref", "choose", "done"}, conn: Known \cup {None},
           user: BOOLEAN, next: Nat \ {0}, seen: BOOLEAN, source: Locs \cup {None}]

TraceFacts(t, request) ==
  /\ t.at \in {"idle", "load"} => t.conn = None /\ t.next = 1 /\ t.source = None
  /\ t.at \in {"ref", "choose"} => t.conn # None
  /\ t.at = "done" /\ t.conn = None => Match(Loaded, request.host) = {} /\ t.source = None
  /\ t.conn # None => /\ t.conn \in Match(Loaded, request.host)
                      /\ t.user = (Matching(Loaded, request.host) # {})
                      /\ Chosen(t.conn, t.next, t.source)
  /\ t.at = "choose" => /\ t.next \in DOMAIN t.conn.refs
                        /\ t.seen = (secrets[t.conn.refs[t.next]] # None)
  /\ t.at = "done" /\ t.conn # None => t.next > Len(t.conn.refs)

ExplainInv ==
  /\ asked \in [Actors -> Asked \cup {NoRequest}] /\ trace \in [Actors -> Traces]
  /\ \A p \in Actors :
       /\ trace[p].at # "idle" => pc[p] = "idle" /\ step = "idle" /\ asked[p] \in Asked
       /\ TraceFacts(trace[p], asked[p])

LEMMA SavedStep ==
  ASSUME NEW w, Actors = {w}, Faults \subseteq {"keychain"}, TypeOK, WriterInv, SavedInv, [Next]_vars
  PROVE  SavedInv'
<1> USE DEF history
<1>1. CASE UNCHANGED <<file, committed>> /\ pc[w] # "write" BY <1>1 DEF SavedInv
<1>2. CASE UNCHANGED vars BY <1>2 DEF vars, SavedInv
<1>3. CASE Truncate(w)
  <2>1. pc'[w] = "write" BY <1>3 DEF Truncate, Goto, TypeOK
  <2> QED BY <2>1 DEF SavedInv
<1>4. CASE WriteAll(w)
  <2>1. file' = [readable |-> TRUE, entries |-> job[w].snap]
    BY <1>4 DEF WriteAll, Overwritten, WriterInv
  <2> QED BY <1>4, <2>1 DEF WriteAll, SavedInv
<1>5. ASSUME \/ \E c \in Presets : StartConnect(w, c)
             \/ \E id \in Ids : StartDisconnect(w, id)
             \/ \E h \in Hosts : StartResolve(w, h)
      PROVE  UNCHANGED <<file, committed>> /\ pc[w] # "write"
  BY <1>5 DEF StartConnect, StartDisconnect, StartResolve
<1>6. ASSUME StoreSecret(w) \/ StoreFails(w) \/ EraseSecret(w) \/ ReadSecret(w)
      PROVE  UNCHANGED <<file, committed>> /\ pc[w] # "write"
  BY <1>6 DEF StoreSecret, StoreFails, EraseSecret, ReadSecret
<1>7. ASSUME \/ LoadForConnect(w) \/ LoadForDisconnect(w) \/ LoadForResolve(w)
             \/ NothingToDisconnect(w) \/ LoadFails(w)
      PROVE  UNCHANGED <<file, committed>> /\ pc[w] # "write"
  BY <1>7 DEF LoadForConnect, LoadForDisconnect, LoadForResolve, NothingToDisconnect, LoadFails
<1>8. ~SaveFails(w) /\ ~Crash(w) BY DEF SaveFails, Crash
<1> QED BY <1>1, <1>2, <1>3, <1>4, <1>5, <1>6, <1>7, <1>8 DEF Next

\* Migrating changes neither the hosts nor the rank: the first match of what is
\* loaded is the first match of what was saved, migrated.
LEMMA MatchIsRight ==
  ASSUME TypeOK, file.entries = committed, NEW h
  PROVE  Match(Loaded, h) = Right(h)
<1> DEFINE Up(e) == [e EXCEPT !.conn = Migrate(@)]
<1> DEFINE es == Matching(committed, h)
<1>1. \A e \in committed : /\ Up(e).rank = e.rank /\ Up(e).conn = Migrate(e.conn)
                           /\ Up(e).conn.hosts = e.conn.hosts
  BY MigrateKnown DEF TypeOK, Entry
<1>2. \A r : r \in Loaded <=> \E e \in committed : r = Up(e) BY DEF Loaded
<1> HIDE DEF Up
<1>3. es \subseteq committed BY DEF Matching
<1>4. Matching(Loaded, h) = {Up(e) : e \in es}
  <2>1. \A e \in committed : h \in Up(e).conn.hosts <=> e \in es BY <1>1 DEF Matching
  <2>2. \A r : r \in Matching(Loaded, h) <=> r \in Loaded /\ h \in r.conn.hosts BY DEF Matching
  <2> HIDE DEF es
  <2> QED BY <1>2, <1>3, <2>1, <2>2
<1> HIDE DEF es
<1>5. FirstOf({Up(e) : e \in es}) = {Migrate(c) : c \in FirstOf(es)}
  <2>1. ASSUME NEW e \in es, \A d \in es : d.rank <= e.rank
        PROVE  Up(e) \in {Up(d) : d \in es} /\ \A u \in {Up(d) : d \in es} : u.rank <= Up(e).rank
    BY <1>1, <1>3, <2>1
  <2>2. ASSUME NEW e \in es, \A u \in {Up(d) : d \in es} : u.rank <= Up(e).rank
        PROVE  \A d \in es : d.rank <= e.rank
    BY <1>1, <1>3, <2>2
  <2>3. ASSUME NEW c \in FirstOf({Up(e) : e \in es})
        PROVE  c \in {Migrate(d) : d \in FirstOf(es)}
    <3>1. PICK u \in {Up(e) : e \in es} :
            c = u.conn /\ \A v \in {Up(e) : e \in es} : v.rank <= u.rank
      BY <2>3 DEF FirstOf
    <3>2. PICK e \in es : u = Up(e) BY <3>1
    <3>3. e.conn \in FirstOf(es) BY <2>2, <3>1, <3>2 DEF FirstOf
    <3> QED BY <1>1, <1>3, <3>1, <3>2, <3>3
  <2>4. ASSUME NEW d \in FirstOf(es) PROVE Migrate(d) \in FirstOf({Up(e) : e \in es})
    <3>1. PICK e \in es : d = e.conn /\ \A f \in es : f.rank <= e.rank BY <2>4 DEF FirstOf
    <3>2. Up(e).conn = Migrate(d) BY <1>1, <1>3, <3>1
    <3> QED BY <2>1, <3>1, <3>2 DEF FirstOf
  <2> QED BY <2>3, <2>4
<1>6. {Up(e) : e \in es} # {} <=> es # {} OBVIOUS
<1> QED BY <1>4, <1>5, <1>6 DEF Match, Right, es

LEMMA RequestStep ==
  ASSUME NEW w, Actors = {w}, TypeOK, CallersInv, RequestInv, ExplainInv, [RNext]_rvars
  PROVE  RequestInv'
<1> USE DEF callers
<1>0. w \in Actors OBVIOUS
<1>1. CASE UNCHANGED <<vars, asked>> BY <1>1 DEF vars, RequestInv
<1>2. CASE pc'[w] = "idle" BY <1>2 DEF RequestInv
<1>3. ASSUME pc[w] # "idle", UNCHANGED asked,
             job'[w].kind = job[w].kind, job'[w].host = job[w].host
      PROVE  RequestInv'
  BY <1>3 DEF RequestInv
<1>4. ASSUME NEW c \in Presets, StartConnect(w, c) PROVE RequestInv'
  <2>1. PICK t \in Tokens : Begin(w, Connecting(c, t)) BY <1>4 DEF StartConnect, Connecting
  <2>2. job'[w] = [Connecting(c, t) EXCEPT !.solo = (Rivals(w, Connecting(c, t).id) = {})]
    BY <1>0, <2>1 DEF Begin
  <2>3. job'[w].kind = "connect" BY <2>2 DEF NoJob, Connecting
  <2> QED BY <2>3 DEF RequestInv
<1>5. ASSUME NEW id \in Ids, StartDisconnect(w, id) PROVE RequestInv'
  <2>1. Begin(w, Disconnecting(id)) BY <1>5 DEF StartDisconnect, Disconnecting
  <2>2. job'[w] = [Disconnecting(id) EXCEPT !.solo = (Rivals(w, Disconnecting(id).id) = {})]
    BY <1>0, <2>1 DEF Begin
  <2>3. job'[w].kind = "disconnect" BY <2>2 DEF NoJob, Disconnecting
  <2> QED BY <2>3 DEF RequestInv
<1>6. CASE Flow BY <1>1, <1>6 DEF Flow
<1>7. ASSUME NEW o \in Offered, Connect(w, o[1], o[2]) PROVE RequestInv'
  BY <1>1, <1>7 DEF Connect
<1>8. ASSUME NEW o \in Offered, ConnectApiKey(w, o[1], o[2]) PROVE RequestInv'
  BY <1>4, <1>8, ResolutionConstants DEF ConnectApiKey
<1>9. CASE FlowGranted(w) \/ FlowFailed(w)
  <2>1. CASE FlowFailed(w) BY <1>1, <2>1 DEF FlowFailed
  <2>2. CASE FlowGranted(w)
    <3>1. PICK p \in Actors, o \in Offered : forWhom = <<p, o[1], o[2]>>
      BY <2>2 DEF FlowGranted, CallersInv
    <3>2. StartConnect(w, Built(o[1], o[2])) BY <2>2, <3>1 DEF FlowGranted
    <3> QED BY <1>4, <3>2, ResolutionConstants
  <2> QED BY <1>9, <2>1, <2>2
<1>10. ASSUME NEW q \in Asked, Resolve(w, q) PROVE RequestInv'
  <2>1. asked'[w] = q BY <1>0, <1>10 DEF Resolve, ExplainInv
  <2>2. CASE q.host = None
    <3>1. pc'[w] = "idle" BY <1>10, <2>2 DEF Resolve, Free
    <3> QED BY <1>2, <3>1
  <2>3. CASE q.host # None
    <3>1. job' = [job EXCEPT ![w] = [NoJob EXCEPT !.kind = "resolve", !.host = q.host]]
      BY <1>10, <2>3 DEF Resolve, StartResolve
    <3>2. job'[w].host = q.host BY <1>0, <3>1 DEF TypeOK, NoJob
    <3> QED BY <2>1, <3>2 DEF RequestInv
  <2> QED BY <2>2, <2>3
<1>11. ASSUME NEW q \in Asked, Explain(w, q) PROVE RequestInv'
  <2>1. pc'[w] = "idle" BY <1>11 DEF Explain, Free, vars
  <2> QED BY <1>2, <2>1
<1>12. CASE LoadForExplain(w) \/ TraceRef(w) \/ ChooseRef(w) \/ EndTrace(w)
  BY <1>1, <1>12 DEF LoadForExplain, TraceRef, ChooseRef, EndTrace
<1>13. CASE Explained(w)
  <2>1. pc'[w] = "idle" BY <1>0, <1>13 DEF Explained, ExplainInv, vars
  <2> QED BY <1>2, <2>1
<1>14. CASE Resolving(w)
  <2>1. CASE pc'[w] # "idle"
    <3>1. LoadForResolve(w) /\ UNCHANGED asked
      <4>1. CASE ReadSecret(w)
        <5>1. pc'[w] = "idle" BY <1>0, <4>1 DEF ReadSecret, Return, Goto, TypeOK
        <5> QED BY <2>1, <5>1
      <4> QED BY <1>14, <2>1, <4>1 DEF Resolving
    <3>2. ~Return(w) BY <1>0, <2>1 DEF Return, Goto, TypeOK
    <3>3. PICK c : job' = [job EXCEPT ![w].conn = c] BY <3>1, <3>2 DEF LoadForResolve
    <3>4. job'[w].kind = job[w].kind /\ job'[w].host = job[w].host
      BY <1>0, <3>3 DEF TypeOK, JobType
    <3> QED BY <1>3, <3>1, <3>4 DEF LoadForResolve
  <2> QED BY <1>2, <2>1
<1>15. CASE Changing(w)
  <2>0. UNCHANGED asked BY <1>15 DEF Changing
  <2>1. CASE \E id \in Ids : Free(w) /\ StartDisconnect(w, id) BY <1>5, <2>1
  <2>2. CASE StoreSecret(w) \/ EraseSecret(w) \/ Truncate(w)
    BY <1>3, <2>0, <2>2 DEF StoreSecret, EraseSecret, Truncate
  <2>3. CASE LoadForConnect(w)
    <3>1. job'[w].kind = job[w].kind /\ job'[w].host = job[w].host
      BY <1>0, <2>3 DEF LoadForConnect, TypeOK, JobType
    <3> QED BY <1>3, <2>0, <2>3, <3>1 DEF LoadForConnect
  <2>4. CASE LoadForDisconnect(w)
    <3>1. PICK c : job' = [job EXCEPT ![w].conn = c, ![w].snap = Without(Loaded, job[w].id)]
      BY <2>4 DEF LoadForDisconnect
    <3>2. job'[w].kind = job[w].kind /\ job'[w].host = job[w].host
      BY <1>0, <3>1 DEF TypeOK, JobType
    <3> QED BY <1>3, <2>0, <2>4, <3>2 DEF LoadForDisconnect
  <2>5. CASE \/ StoreFails(w) \/ NothingToDisconnect(w) \/ LoadFails(w)
             \/ WriteAll(w) \/ SaveFails(w)
    <3>1. Return(w) BY <2>5 DEF StoreFails, NothingToDisconnect, LoadFails, WriteAll, SaveFails
    <3>2. pc'[w] = "idle" BY <1>0, <3>1 DEF Return, Goto, TypeOK
    <3> QED BY <1>2, <3>2
  <2> QED BY <1>15, <2>1, <2>2, <2>3, <2>4, <2>5 DEF Changing
<1> QED BY <1>1, <1>6, <1>7, <1>8, <1>9, <1>10, <1>11, <1>12, <1>13, <1>14, <1>15
        DEF RNext, rvars

LEMMA MatchKnown ==
  ASSUME TypeOK
  PROVE  /\ \A h : Match(Loaded, h) \subseteq Known
         /\ Match(Loaded, None) = {}
<1>1. Conns(Loaded) \cup Defaults \subseteq Known BY ConnsLoaded, ConstantTypes DEF Known
<1>2. \A h : Match(Loaded, h) \subseteq {c \in Known : h \in c.hosts}
  BY <1>1, MatchServes DEF Serving
<1>3. \A c \in Known : None \notin c.hosts BY MigrateKnown, ConstantTypes DEF ConnType
<1> QED BY <1>2, <1>3

\* An explanation goes on: the registry, the secrets and the request stay.
LEMMA TraceMoves ==
  ASSUME NEW w, Actors = {w}, ExplainInv, UNCHANGED <<vars, flow, asked>>,
         NEW t \in Traces, trace' = [trace EXCEPT ![w] = t], trace[w].at # "idle",
         TraceFacts(t, asked[w])
  PROVE  ExplainInv'
<1> USE DEF vars, flow
<1>1. w \in Actors /\ trace'[w] = t /\ trace' \in [Actors -> Traces] BY DEF ExplainInv
<1>2. Loaded' = Loaded BY DEF Loaded
<1>3. TraceFacts(t, asked[w])' <=> TraceFacts(t, asked[w])
  BY <1>2 DEF TraceFacts, Chosen, Yielding, Match, Matching, FirstOf
<1>4. TraceFacts(trace[w], asked[w])' BY <1>1, <1>3 DEF TraceFacts, Chosen, Yielding
<1> QED BY <1>1, <1>4 DEF ExplainInv

LEMMA ExplainStep ==
  ASSUME NEW w, Actors = {w}, TypeOK, SoloInv, CallersInv, ExplainInv, [RNext]_rvars
  PROVE  ExplainInv'
<1> USE DEF callers
<1>0. w \in Actors /\ trace[w] \in Traces /\ TraceFacts(trace[w], asked[w]) BY DEF ExplainInv
<1>n. None \notin Known BY MigrateKnown, ConstantTypes
<1>1. ASSUME trace[w].at = "idle", UNCHANGED trace,
             asked' \in [Actors -> Asked \cup {NoRequest}]
      PROVE  ExplainInv'
  <2>1. trace[w].conn = None /\ trace[w].next = 1 /\ trace[w].source = None
    BY <1>0, <1>1 DEF TraceFacts
  <2>2. trace'[w].at = "idle" /\ trace'[w].conn = None /\ trace'[w].next = 1
        /\ trace'[w].source = None
    BY <1>1, <2>1
  <2>3. TraceFacts(trace[w], asked[w])' BY <2>2 DEF TraceFacts
  <2> QED BY <1>1, <2>2, <2>3 DEF ExplainInv
<1>2. ASSUME pc[w] # "idle" \/ step # "idle", UNCHANGED trace,
             asked' \in [Actors -> Asked \cup {NoRequest}]
      PROVE  ExplainInv'
  BY <1>0, <1>1, <1>2 DEF ExplainInv
<1>3. ASSUME Free(w), UNCHANGED trace, asked' \in [Actors -> Asked \cup {NoRequest}]
      PROVE  ExplainInv'
  BY <1>1, <1>3 DEF Free
<1>4. UNCHANGED asked => asked' \in [Actors -> Asked \cup {NoRequest}] BY DEF ExplainInv
<1>5. CASE UNCHANGED rvars
  <2>1. UNCHANGED <<vars, flow, asked>> /\ trace' = trace BY <1>5 DEF rvars
  <2>2. CASE trace[w].at = "idle" BY <1>1, <1>4, <2>1, <2>2
  <2>3. CASE trace[w].at # "idle"
    <3>1. trace' = [trace EXCEPT ![w] = trace[w]] BY <2>1 DEF ExplainInv
    <3> QED BY <1>0, <2>1, <2>3, <3>1, TraceMoves
  <2> QED BY <2>2, <2>3
<1>6. CASE Flow
  <2>1. step # "idle"
    BY <1>6 DEF Flow, Device!FlowStep, Device!Authorize, Device!Sleep, Device!RequestFails,
       Device!SlowDown, Device!Pending, Device!Granted, Device!Refused, Device!AnsweredOtherwise, Device!Decide,
       CallersInv
  <2> QED BY <1>2, <1>4, <1>6, <2>1 DEF Flow
<1>7. ASSUME NEW o \in Offered, Connect(w, o[1], o[2]) \/ ConnectApiKey(w, o[1], o[2])
      PROVE  ExplainInv'
  BY <1>3, <1>4, <1>7 DEF Connect, ConnectApiKey
<1>8. CASE FlowGranted(w) \/ FlowFailed(w)
  BY <1>2, <1>4, <1>8 DEF FlowGranted, FlowFailed
<1>9. ASSUME NEW q \in Asked, Resolve(w, q) PROVE ExplainInv'
  <2>1. asked' \in [Actors -> Asked \cup {NoRequest}] BY <1>9 DEF Resolve, ExplainInv
  <2> QED BY <1>3, <1>9, <2>1 DEF Resolve
<1>10. ASSUME NEW q \in Asked, Explain(w, q) PROVE ExplainInv'
  <2> DEFINE l == IF q.host = None THEN "done" ELSE "load"
  <2> DEFINE t == [trace[w] EXCEPT !.at = l]
  <2>1. trace' = [trace EXCEPT ![w] = t] BY <1>10 DEF Explain, ExplainInv
  <2>2. trace[w].at = "idle" /\ pc[w] = "idle" /\ step = "idle"
    <3>1. trace[w].at = "idle" /\ pc[w] = "idle" /\ (forWhom # <<>> => forWhom[1] # w)
      BY <1>10 DEF Explain, Free
    <3>2. ASSUME step # "idle" PROVE FALSE
      <4>1. PICK p \in Actors, o \in Offered : forWhom = <<p, o[1], o[2]>>
        BY <3>2 DEF CallersInv
      <4> QED BY <3>1, <4>1
    <3> QED BY <3>1, <3>2
  <2>3. trace[w].conn = None /\ trace[w].next = 1 /\ trace[w].source = None
    BY <1>0, <2>2 DEF TraceFacts
  <2>4. t \in Traces /\ t.at = l /\ t.conn = None /\ t.next = 1 /\ t.source = None
    BY <1>0, <2>3 DEF Traces
  <2>5. l = "load" \/ (l = "done" /\ q.host = None) OBVIOUS
  <2> HIDE DEF t, l
  <2>6. trace'[w] = t /\ trace' \in [Actors -> Traces] BY <1>0, <2>1, <2>4 DEF ExplainInv
  <2>7. asked'[w] = q /\ asked' \in [Actors -> Asked \cup {NoRequest}]
    BY <1>0, <1>10 DEF Explain, ExplainInv
  <2>8. pc' = pc /\ step' = step /\ Loaded' = Loaded BY <1>10 DEF Explain, vars, flow, Loaded
  <2>9. l = "done" => Match(Loaded, asked[w].host)' = {}
    <3>1. Match(Loaded, None)' = {} BY <2>8, MatchKnown DEF Match, Matching, FirstOf
    <3> QED BY <2>5, <2>7, <3>1 DEF Match, Matching, FirstOf
  <2>10. TraceFacts(trace[w], asked[w])' BY <2>4, <2>5, <2>6, <2>9 DEF TraceFacts
  <2> QED BY <2>2, <2>5, <2>4, <2>6, <2>7, <2>8, <2>10 DEF ExplainInv
<1>11. CASE LoadForExplain(w)
  <2> DEFINE h == asked[w].host
  <2> DEFINE found == Match(Loaded, h)
  <2>1. /\ trace[w].at = "load" /\ UNCHANGED <<vars, flow, asked>>
        /\ IF found = {} THEN trace' = [trace EXCEPT ![w].at = "done"]
           ELSE \E c \in found : trace' = [trace EXCEPT ![w].at = "ref", ![w].conn = c,
                                             ![w].user = (Matching(Loaded, h) # {})]
    BY <1>11 DEF LoadForExplain, SoloInv
  <2>2. trace[w].conn = None /\ trace[w].next = 1 /\ trace[w].source = None
    BY <1>0, <2>1 DEF TraceFacts
  <2>3. CASE found = {}
    <3> DEFINE t == [trace[w] EXCEPT !.at = "done"]
    <3>1. trace' = [trace EXCEPT ![w] = t] BY <2>1, <2>3
    <3>2. t \in Traces /\ t.at = "done" /\ t.conn = None /\ t.source = None
      BY <1>0, <2>2 DEF Traces
    <3> HIDE DEF t
    <3>3. TraceFacts(t, asked[w]) BY <2>3, <3>2 DEF TraceFacts
    <3> QED BY <2>1, <3>1, <3>2, <3>3, TraceMoves
  <2>4. CASE found # {}
    <3> DEFINE mine == Matching(Loaded, h) # {}
    <3>1. PICK c \in found : trace' = [trace EXCEPT ![w].at = "ref", ![w].conn = c, ![w].user = mine]
      BY <2>1, <2>4
    <3>2. c \in Known /\ c # None /\ mine \in BOOLEAN BY <1>n, MatchKnown
    <3> HIDE DEF mine
    <3> DEFINE t == [trace[w] EXCEPT !.at = "ref", !.conn = c, !.user = mine]
    <3>3. trace' = [trace EXCEPT ![w] = t] BY <3>1
    <3>4. t \in Traces BY <1>0, <3>2 DEF Traces
    <3>5. t.at = "ref" /\ t.conn = c /\ t.user = mine /\ t.next = 1 /\ t.source = None
      BY <1>0, <2>2 DEF Traces
    <3> HIDE DEF t
    <3>6. Chosen(c, 1, None)
      <4>1. \A i \in Yielding(c) : i \in Nat /\ i >= 1
        BY <3>2, MigrateKnown DEF Yielding, ConnType
      <4> QED BY <4>1 DEF Chosen
    <3>7. TraceFacts(t, asked[w]) BY <3>2, <3>5, <3>6 DEF TraceFacts, mine
    <3> QED BY <2>1, <3>3, <3>4, <3>5, <3>7, TraceMoves
  <2> QED BY <2>3, <2>4
<1>12. CASE TraceRef(w)
  <2> DEFINE c == trace[w].conn
  <2> DEFINE n == trace[w].next
  <2> DEFINE seen == secrets[c.refs[n]] # None
  <2>1. /\ trace[w].at = "ref" /\ n <= Len(c.refs) /\ UNCHANGED <<vars, flow, asked>>
        /\ trace' = [trace EXCEPT ![w].at = "choose", ![w].seen = seen]
    BY <1>12 DEF TraceRef
  <2>2. c \in Known /\ n \in Nat /\ n >= 1 /\ c # None
        /\ c \in Match(Loaded, asked[w].host) /\ Chosen(c, n, trace[w].source)
        /\ trace[w].user = (Matching(Loaded, asked[w].host) # {})
    BY <1>0, <2>1 DEF TraceFacts, Traces
  <2>3. n \in DOMAIN c.refs /\ seen \in BOOLEAN BY <2>1, <2>2, MigrateKnown DEF ConnType
  <2> HIDE DEF seen
  <2> DEFINE t == [trace[w] EXCEPT !.at = "choose", !.seen = seen]
  <2>4. trace' = [trace EXCEPT ![w] = t] BY <2>1
  <2>5. t \in Traces BY <1>0, <2>3 DEF Traces
  <2>6. t.at = "choose" /\ t.seen = seen /\ t.conn = c /\ t.next = n
        /\ t.user = trace[w].user /\ t.source = trace[w].source
    BY <1>0 DEF Traces
  <2> HIDE DEF t, c, n
  <2>7. TraceFacts(t, asked[w]) BY <2>2, <2>3, <2>6 DEF TraceFacts, seen
  <2> QED BY <2>1, <2>4, <2>5, <2>6, <2>7, TraceMoves
<1>13. CASE ChooseRef(w)
  <2> DEFINE c == trace[w].conn
  <2> DEFINE n == trace[w].next
  <2> DEFINE s == trace[w].source
  <2> DEFINE s2 == IF s = None /\ trace[w].seen /\ secrets[c.refs[n]] # None THEN c.refs[n] ELSE s
  <2>1. trace[w].at = "choose" /\ UNCHANGED <<vars, flow, asked>>
        /\ trace' = [trace EXCEPT ![w].at = "ref", ![w].next = n + 1, ![w].seen = FALSE,
                                  ![w].source = s2]
    BY <1>13 DEF ChooseRef
  <2>2. c \in Known /\ c # None /\ n \in DOMAIN c.refs /\ n \in Nat
        /\ trace[w].seen = (secrets[c.refs[n]] # None)
        /\ c \in Match(Loaded, asked[w].host) /\ Chosen(c, n, s) /\ s \in Locs \cup {None}
        /\ trace[w].user = (Matching(Loaded, asked[w].host) # {})
    BY <1>0, <2>1 DEF TraceFacts, Traces
  <2>3. c.refs[n] \in Locs /\ \A i \in Yielding(c) : i \in Nat /\ c.refs[i] # None
    BY <2>2, MigrateKnown, ConstantTypes DEF Yielding, ConnType
  <2>4. s2 \in Locs \cup {None} /\ n + 1 \in Nat \ {0} /\ n < n + 1 BY <2>2, <2>3
  <2>5. Chosen(c, n + 1, s2)
    <3>1. CASE s = None /\ secrets[c.refs[n]] # None
      <4>1. s2 = c.refs[n] /\ n \in Yielding(c) BY <2>2, <3>1 DEF Yielding
      <4>2. \A i \in Yielding(c) : n <= i BY <2>2, <2>3, <3>1 DEF Chosen
      <4> QED BY <2>4, <4>1, <4>2 DEF Chosen
    <3>2. CASE s = None /\ secrets[c.refs[n]] = None
      <4>1. s2 = None /\ n \notin Yielding(c) BY <3>2 DEF Yielding
      <4>2. \A i \in Yielding(c) : i >= n BY <2>2, <2>3, <3>2 DEF Chosen
      <4>3. \A i \in Yielding(c) : i >= n + 1 BY <2>2, <2>3, <4>1, <4>2
      <4> QED BY <4>1, <4>3 DEF Chosen
    <3>3. CASE s # None
      <4>1. s2 = s BY <3>3
      <4>2. PICK i \in Yielding(c) : i < n /\ s = c.refs[i] /\ \A k \in Yielding(c) : i <= k
        BY <2>2, <3>3 DEF Chosen
      <4>3. i < n + 1 BY <2>2, <2>3, <4>2
      <4> QED BY <4>1, <4>2, <4>3 DEF Chosen
    <3> QED BY <3>1, <3>2, <3>3
  <2> HIDE DEF s2
  <2> DEFINE t == [trace[w] EXCEPT !.at = "ref", !.next = n + 1, !.seen = FALSE, !.source = s2]
  <2>6. trace' = [trace EXCEPT ![w] = t] BY <2>1
  <2>7. t \in Traces BY <1>0, <2>4 DEF Traces
  <2>8. t.at = "ref" /\ t.conn = c /\ t.next = n + 1 /\ t.source = s2 /\ t.user = trace[w].user
    BY <1>0 DEF Traces
  <2> HIDE DEF t, c, n, s
  <2>9. TraceFacts(t, asked[w]) BY <2>2, <2>5, <2>8 DEF TraceFacts
  <2> QED BY <2>1, <2>6, <2>7, <2>8, <2>9, TraceMoves
<1>14. CASE EndTrace(w)
  <2> DEFINE t == [trace[w] EXCEPT !.at = "done"]
  <2>1. /\ trace[w].at = "ref" /\ trace[w].next > Len(trace[w].conn.refs)
        /\ UNCHANGED <<vars, flow, asked>> /\ trace' = [trace EXCEPT ![w] = t]
    BY <1>14 DEF EndTrace
  <2>2. t \in Traces BY <1>0 DEF Traces
  <2>3. t.at = "done" /\ t.conn = trace[w].conn /\ t.next = trace[w].next
        /\ t.source = trace[w].source /\ t.user = trace[w].user
    BY <1>0 DEF Traces
  <2> HIDE DEF t
  <2>4. TraceFacts(t, asked[w]) BY <1>0, <2>1, <2>3 DEF TraceFacts
  <2> QED BY <2>1, <2>2, <2>3, <2>4, TraceMoves
<1>15. CASE Explained(w)
  <2>1. NoTrace \in Traces BY DEF NoTrace, Traces
  <2>2. trace' \in [Actors -> Traces] /\ trace'[w] = NoTrace
    BY <1>0, <1>15, <2>1 DEF Explained, ExplainInv
  <2>3. asked' \in [Actors -> Asked \cup {NoRequest}] BY <1>15 DEF Explained, ExplainInv
  <2>4. trace'[w].at = "idle" /\ trace'[w].conn = None /\ trace'[w].next = 1
        /\ trace'[w].source = None
    BY <2>2 DEF NoTrace
  <2>5. TraceFacts(trace[w], asked[w])' BY <2>4 DEF TraceFacts
  <2> QED BY <2>2, <2>3, <2>4, <2>5 DEF ExplainInv
<1>16. CASE Resolving(w)
  <2>1. pc[w] # "idle" BY <1>16 DEF Resolving, LoadForResolve, ReadSecret
  <2>2. asked' \in [Actors -> Asked \cup {NoRequest}] BY <1>16 DEF Resolving, ExplainInv
  <2> QED BY <1>2, <1>16, <2>1, <2>2 DEF Resolving
<1>17. CASE Changing(w)
  <2>1. pc[w] # "idle" \/ Free(w)
    BY <1>17 DEF Changing, StoreSecret, StoreFails, LoadForConnect, LoadForDisconnect,
       NothingToDisconnect, LoadFails, EraseSecret, Truncate, WriteAll, SaveFails
  <2> QED BY <1>2, <1>3, <1>4, <1>17, <2>1 DEF Changing
<1> QED BY <1>5, <1>6, <1>7, <1>8, <1>9, <1>10, <1>11, <1>12, <1>13, <1>14, <1>15, <1>16, <1>17
        DEF RNext

SoleInv == Inv /\ CallersInv /\ WriterInv /\ SoloInv /\ SavedInv /\ RequestInv /\ ExplainInv

LEMMA SoleInvariance ==
  ASSUME NEW w, Writers = {w}, Actors = {w}, Faults \subseteq {"keychain"}
  PROVE  RSpec => []SoleInv
<1> DEFINE Rest == SavedInv /\ RequestInv /\ ExplainInv
<1> DEFINE Solo == Inv /\ CallersInv /\ WriterInv /\ SoloInv
<1>1. RInit => Rest
  <2> SUFFICES ASSUME RInit PROVE Rest
    OBVIOUS
  <2> USE DEF RInit
  <2>1. pc[w] = "idle" /\ file.entries = committed BY DEF Init
  <2>2. SavedInv /\ RequestInv BY <2>1 DEF SavedInv, RequestInv
  <2>3. NoTrace \in Traces BY DEF NoTrace, Traces
  <2>4. trace[w] = NoTrace BY DEF RInit
  <2>5. TraceFacts(trace[w], asked[w]) BY <2>4 DEF TraceFacts, NoTrace
  <2>6. ExplainInv BY <2>3, <2>4, <2>5 DEF ExplainInv, NoTrace
  <2> QED BY <2>2, <2>6
<1>2. Solo /\ Rest /\ [RNext]_rvars => Rest'
  <2> SUFFICES ASSUME Solo, Rest, [RNext]_rvars PROVE Rest'
    OBVIOUS
  <2>1. SavedInv'
    <3>1. ASSUME NEW p \in Actors, Anonymous(p) PROVE SavedInv'
      BY <3>1 DEF Anonymous, history, SavedInv
    <3> QED BY <3>1, RegistryMoves, SavedStep DEF Inv
  <2>2. RequestInv' BY RequestStep DEF Inv
  <2>3. ExplainInv' BY ExplainStep DEF Inv
  <2> QED BY <2>1, <2>2, <2>3
<1>3. Solo /\ Rest <=> SoleInv BY DEF SoleInv
<1> HIDE DEF Rest
<1>4. RSpec => []Solo BY SoloInvariance
<1> QED BY <1>1, <1>2, <1>3, <1>4, PTL DEF RSpec

(***************************************************************************)
(* Reading a request. A text is a sequence of pieces; the pieces that mean *)
(* something are strings, which the provers have to be told.               *)
(***************************************************************************)
Delims == {"/", "?", "#", "@", ":", "[", "]", "1", URI!Quote, "uri"}
Pieces == STRING \cup Delims
Texts == Seq(Pieces)
Lacks(s, ds) == \A i \in 1..Len(s) : s[i] \notin ds

\* A part of a text, and a text put together from two, piece by piece.
LEMMA PartIs ==
  ASSUME NEW s \in Texts, NEW m \in Nat \ {0}, NEW n \in 0..Len(s), m <= n + 1
  PROVE  /\ SubSeq(s, m, n) \in Texts /\ Len(SubSeq(s, m, n)) = n - m + 1
         /\ \A i \in 1..(n - m + 1) : SubSeq(s, m, n)[i] = s[m + i - 1]
<1>1. s \in Seq(Pieces) BY DEF Texts
<1>2. \A i \in m..n : s[i] \in Pieces BY <1>1, ElementOfSeq
<1>3. /\ SubSeq(s, m, n) \in Seq(Pieces)
      /\ Len(SubSeq(s, m, n)) = (IF m <= n THEN n - m + 1 ELSE 0)
      /\ \A i \in 1..(n - m + 1) : SubSeq(s, m, n)[i] = s[m + i - 1]
  BY <1>2, SubSeqProperties
<1> QED BY <1>1, <1>3 DEF Texts

LEMMA JoinIs ==
  ASSUME NEW s \in Texts, NEW t \in Texts
  PROVE  /\ s \o t \in Texts /\ Len(s \o t) = Len(s) + Len(t)
         /\ Len(s) \in Nat /\ Len(t) \in Nat
         /\ \A i \in 1..Len(s) : (s \o t)[i] = s[i]
         /\ \A j \in 1..Len(t) : (s \o t)[Len(s) + j] = t[j]
<1> DEFINE m == Len(s) n == Len(t) r == s \o t
<1>1. /\ r \in Texts /\ Len(r) = m + n
      /\ \A i \in 1..m + n : r[i] = IF i <= m THEN s[i] ELSE t[i - m]
  BY ConcatProperties DEF Texts
<1>2. m \in Nat /\ n \in Nat BY DEF Texts
<1> HIDE DEF m, n, r
<1>3. \A j \in 1..n : m + j \in 1..(m + n) /\ ~(m + j <= m) /\ (m + j) - m = j BY <1>2
<1>4. \A i \in 1..m : i \in 1..(m + n) /\ i <= m BY <1>2
<1>5. \A i \in 1..m : r[i] = s[i] BY <1>1, <1>4
<1>6. \A j \in 1..n : r[m + j] = t[j]
  <2> SUFFICES ASSUME NEW j \in 1..n PROVE r[m + j] = t[j] OBVIOUS
  <2>1. r[m + j] = IF m + j <= m THEN s[m + j] ELSE t[(m + j) - m] BY <1>1, <1>3
  <2> QED BY <1>3, <2>1
<1> QED BY <1>1, <1>2, <1>5, <1>6 DEF m, n, r

\* Where the first part of a join ends.
LEMMA JoinParts ==
  ASSUME NEW s \in Texts, NEW t \in Texts
  PROVE  /\ SubSeq(s \o t, 1, Len(s)) = s
         /\ SubSeq(s \o t, Len(s) + 1, Len(s \o t)) = t
<1> DEFINE r == s \o t m == Len(s) n == Len(t)
<1>1. /\ r \in Texts /\ Len(r) = m + n /\ m \in Nat /\ n \in Nat
      /\ \A i \in 1..m : r[i] = s[i]
      /\ \A j \in 1..n : r[m + j] = t[j]
  <2>1. /\ s \o t \in Texts /\ Len(s \o t) = Len(s) + Len(t)
        /\ Len(s) \in Nat /\ Len(t) \in Nat
        /\ \A i \in 1..Len(s) : (s \o t)[i] = s[i]
        /\ \A j \in 1..Len(t) : (s \o t)[Len(s) + j] = t[j]
    BY JoinIs
  <2> QED BY <2>1
<1>2. Len(s) = m /\ Len(t) = n /\ s \in Seq(Pieces) /\ t \in Seq(Pieces) BY DEF Texts
<1> HIDE DEF r, m, n
<1>3. /\ SubSeq(r, 1, m) \in Texts /\ Len(SubSeq(r, 1, m)) = m - 1 + 1
      /\ \A i \in 1..(m - 1 + 1) : SubSeq(r, 1, m)[i] = r[1 + i - 1]
  <2>1. 1 \in Nat \ {0} /\ m \in 0..Len(r) /\ 1 <= m + 1 BY <1>1
  <2> QED BY <1>1, <2>1, PartIs
<1>4. \A i \in 1..m : 1 + i - 1 = i /\ i \in 1..(m - 1 + 1) BY <1>1
<1>5. SubSeq(r, 1, m) = s
  <2>1. \A i \in 1..m : SubSeq(r, 1, m)[i] = s[i] BY <1>1, <1>3, <1>4
  <2>2. Len(SubSeq(r, 1, m)) = m BY <1>1, <1>3
  <2>3. SubSeq(r, 1, m) \in Seq(Pieces) BY <1>3 DEF Texts
  <2> QED BY <1>2, <2>1, <2>2, <2>3, SeqEqual
<1>6. /\ SubSeq(r, m + 1, Len(r)) \in Texts
      /\ Len(SubSeq(r, m + 1, Len(r))) = Len(r) - (m + 1) + 1
      /\ \A i \in 1..(Len(r) - (m + 1) + 1) : SubSeq(r, m + 1, Len(r))[i] = r[(m + 1) + i - 1]
  <2>1. m + 1 \in Nat \ {0} /\ Len(r) \in 0..Len(r) /\ m + 1 <= Len(r) + 1 BY <1>1
  <2> QED BY <1>1, <2>1, PartIs
<1>7. Len(r) - (m + 1) + 1 = n /\ \A i \in 1..n : (m + 1) + i - 1 = m + i BY <1>1
<1>8. SubSeq(r, m + 1, Len(r)) = t
  <2>1. ASSUME NEW i \in 1..n PROVE SubSeq(r, m + 1, Len(r))[i] = t[i]
    <3>1. SubSeq(r, m + 1, Len(r))[i] = r[(m + 1) + i - 1] BY <1>6, <1>7
    <3>2. r[m + i] = t[i] BY <1>1
    <3> QED BY <1>7, <3>1, <3>2
  <2>2. Len(SubSeq(r, m + 1, Len(r))) = n BY <1>6, <1>7
  <2>3. SubSeq(r, m + 1, Len(r)) \in Seq(Pieces) BY <1>6 DEF Texts
  <2> QED BY <1>2, <2>1, <2>2, <2>3, SeqEqual
<1> QED BY <1>5, <1>8 DEF r, m, n

\* Of a set of numbers, the one that is at an end.
LEMMA MinIs ==
  ASSUME NEW S \in SUBSET Nat, NEW k \in S, \A y \in S : k <= y
  PROVE  URI!Min(S) = k
<1>1. \A x \in S : (\A y \in S : x <= y) => x = k OBVIOUS
<1> QED BY <1>1 DEF URI!Min

LEMMA MaxIs ==
  ASSUME NEW S \in SUBSET Nat, NEW k \in S, \A y \in S : k >= y
  PROVE  URI!Max(S) = k
<1>1. \A x \in S : (\A y \in S : x >= y) => x = k OBVIOUS
<1> QED BY <1>1 DEF URI!Max

\* Splitting at the first of some delimiters ...
LEMMA FirstSplits ==
  ASSUME NEW s \in Texts, NEW t \in Texts, NEW ds, Lacks(s, ds), t = << >> \/ t[1] \in ds
  PROVE  URI!UpTo(s \o t, ds) = s /\ URI!From(s \o t, ds) = t
<1> DEFINE r == s \o t m == Len(s) n == Len(t) S == URI!At(r, ds) \cup {Len(r) + 1}
<1>1. /\ r \in Texts /\ Len(r) = m + n /\ m \in Nat /\ n \in Nat
      /\ \A i \in 1..m : r[i] = s[i]
      /\ \A j \in 1..n : r[m + j] = t[j]
  <2>1. /\ s \o t \in Texts /\ Len(s \o t) = Len(s) + Len(t)
        /\ Len(s) \in Nat /\ Len(t) \in Nat
        /\ \A i \in 1..Len(s) : (s \o t)[i] = s[i]
        /\ \A j \in 1..Len(t) : (s \o t)[Len(s) + j] = t[j]
    BY JoinIs
  <2> QED BY <2>1
<1>2. SubSeq(r, 1, m) = s /\ SubSeq(r, m + 1, Len(r)) = t BY JoinParts
<1>3. \A i \in 1..m : s[i] \notin ds BY DEF Lacks
<1>4. n = 0 \/ t[1] \in ds BY DEF Texts
<1>5. DOMAIN r = 1..Len(r) BY <1>1 DEF Texts
<1>6. URI!UpTo(r, ds) = SubSeq(r, 1, URI!Min(S) - 1)
      /\ URI!From(r, ds) = SubSeq(r, URI!Min(S), Len(r))
  BY DEF URI!UpTo, URI!From
<1> HIDE DEF r, m, n
<1>7. S \in SUBSET Nat /\ \A y \in S : m + 1 <= y
  <2>1. \A y \in S : y \in 1..(m + n + 1) /\ (y <= m => r[y] \in ds)
    BY <1>1, <1>5 DEF URI!At
  <2> QED BY <1>1, <1>3, <2>1
<1>8. m + 1 \in S
  <2>1. CASE n = 0 BY <1>1, <2>1
  <2>2. CASE n # 0
    <3>1. 1 \in 1..n /\ m + 1 \in 1..Len(r) BY <1>1, <2>2
    <3>2. \A j \in 1..n : r[m + j] = t[j] BY <1>1
    <3>3. r[m + 1] = t[1] BY <3>1, <3>2
    <3>4. r[m + 1] \in ds BY <1>4, <2>2, <3>3
    <3> QED BY <1>5, <3>1, <3>4 DEF URI!At
  <2> QED BY <2>1, <2>2
<1> HIDE DEF S
<1>9. URI!Min(S) = m + 1 BY <1>7, <1>8, MinIs
<1>10. (m + 1) - 1 = m BY <1>1
<1> QED BY <1>2, <1>6, <1>9, <1>10 DEF r

\* ... and at the last.
LEMMA LastSplits ==
  ASSUME NEW s \in Texts, NEW t \in Texts, NEW ds, Lacks(t, ds),
         s = << >> \/ s[Len(s)] \in ds
  PROVE  URI!Max(URI!At(s \o t, ds) \cup {0}) = Len(s) /\ URI!AfterLast(s \o t, ds) = t
<1> DEFINE r == s \o t m == Len(s) n == Len(t) S == URI!At(r, ds) \cup {0}
<1>1. /\ r \in Texts /\ Len(r) = m + n /\ m \in Nat /\ n \in Nat
      /\ \A i \in 1..m : r[i] = s[i]
      /\ \A j \in 1..n : r[m + j] = t[j]
  <2>1. /\ s \o t \in Texts /\ Len(s \o t) = Len(s) + Len(t)
        /\ Len(s) \in Nat /\ Len(t) \in Nat
        /\ \A i \in 1..Len(s) : (s \o t)[i] = s[i]
        /\ \A j \in 1..Len(t) : (s \o t)[Len(s) + j] = t[j]
    BY JoinIs
  <2> QED BY <2>1
<1>2. SubSeq(r, m + 1, Len(r)) = t BY JoinParts
<1>3. \A j \in 1..n : t[j] \notin ds BY DEF Lacks
<1>4. m = 0 \/ s[m] \in ds BY DEF Texts
<1>5. DOMAIN r = 1..Len(r) BY <1>1 DEF Texts
<1>6. URI!AfterLast(r, ds) = SubSeq(r, URI!Max(S) + 1, Len(r)) BY DEF URI!AfterLast
<1> HIDE DEF r, m, n
<1>7. S \in SUBSET Nat /\ \A y \in S : m >= y
  <2>1. \A y \in S : y \in 0..(m + n) /\ (y # 0 => r[y] \in ds)
    BY <1>1, <1>5 DEF URI!At
  <2>2. ASSUME NEW y \in S, y > m PROVE FALSE
    <3>1. y - m \in 1..n /\ m + (y - m) = y BY <1>1, <2>1, <2>2
    <3>2. \A j \in 1..n : r[m + j] = t[j] BY <1>1
    <3>3. r[m + (y - m)] = t[y - m] BY ONLY <3>1, <3>2
    <3> QED BY <1>1, <1>3, <2>1, <2>2, <3>1, <3>3
  <2> QED BY <1>1, <2>1, <2>2
<1>8. m \in S
  <2>1. m # 0 => m \in 1..m /\ m \in 1..Len(r) BY <1>1
  <2> QED BY <1>1, <1>4, <1>5, <2>1 DEF URI!At
<1> HIDE DEF S
<1>9. URI!Max(S) = m BY <1>7, <1>8, MaxIs
<1> QED BY <1>2, <1>6, <1>9 DEF r, m, S

\* Splitting behind the first occurrence of a mark of three pieces.
LEMMA MarkSplits ==
  ASSUME NEW a \in Texts, NEW mark \in Texts, NEW r \in Texts, Len(mark) = 3,
         \/ Lacks(a, {mark[1]})
         \/ (Lacks(a, {mark[2]}) /\ mark[1] # mark[2])
  PROVE  /\ URI!Marks(a \o (mark \o r), mark) # {}
         /\ URI!After(a \o (mark \o r), mark) = r
<1> DEFINE u == a \o (mark \o r) m == Len(a) S == URI!Marks(u, mark)
<1>1. /\ u \in Texts /\ Len(u) = m + 3 + Len(r) /\ m \in Nat /\ Len(r) \in Nat
      /\ \A i \in 1..m : u[i] = a[i]
      /\ \A j \in 1..3 : u[m + j] = mark[j]
  <2> DEFINE v == mark \o r
  <2>1. /\ v \in Texts /\ Len(v) = 3 + Len(r) /\ Len(r) \in Nat
        /\ \A i \in 1..3 : v[i] = mark[i]
    <3>1. /\ mark \o r \in Texts /\ Len(mark \o r) = Len(mark) + Len(r)
          /\ Len(r) \in Nat
          /\ \A i \in 1..Len(mark) : (mark \o r)[i] = mark[i]
      BY JoinIs
    <3> QED BY <3>1
  <2> HIDE DEF v
  <2>2. /\ a \o v \in Texts /\ Len(a \o v) = m + Len(v) /\ m \in Nat
        /\ \A i \in 1..m : (a \o v)[i] = a[i]
        /\ \A j \in 1..Len(v) : (a \o v)[m + j] = v[j]
    BY <2>1, JoinIs
  <2>3. \A j \in 1..3 : j \in 1..Len(v) BY <2>1
  <2>4. \A j \in 1..3 : (a \o v)[m + j] = mark[j] BY <2>1, <2>2, <2>3
  <2>5. Len(a \o v) = m + 3 + Len(r) BY <2>1, <2>2
  <2> QED BY <2>1, <2>2, <2>4, <2>5 DEF v
<1>2. SubSeq(u, m + 4, Len(u)) = r
  <2> DEFINE w == a \o mark
  <2>1. w \in Texts /\ Len(w) = m + 3
    <3>1. a \o mark \in Texts /\ Len(a \o mark) = Len(a) + Len(mark) BY JoinIs
    <3> QED BY <3>1
  <2>2. u = w \o r BY ConcatAssociative DEF Texts
  <2> HIDE DEF w, u
  <2>3. SubSeq(w \o r, Len(w) + 1, Len(w \o r)) = r BY <2>1, JoinParts
  <2>4. Len(w) + 1 = m + 4 BY <1>1, <2>1
  <2> QED BY <2>2, <2>3, <2>4
<1>3. /\ S = {i \in 1..(Len(u) - 2) : SubSeq(u, i, i + 2) = mark}
      /\ URI!After(u, mark) = SubSeq(u, URI!Min(S) + 3, Len(u))
  <2> HIDE DEF u
  <2>1. S = {i \in 1..(Len(u) - Len(mark) + 1) : SubSeq(u, i, i + Len(mark) - 1) = mark}
    BY DEF URI!Marks
  <2>2. \A i \in Nat : i + 3 - 1 = i + 2 OBVIOUS
  <2>3. Len(u) - 3 + 1 = Len(u) - 2 BY <1>1
  <2>4. URI!After(u, mark) = SubSeq(u, URI!Min(S) + Len(mark), Len(u)) BY DEF URI!After
  <2> QED BY <1>1, <2>1, <2>2, <2>3, <2>4
<1> HIDE DEF u, S
<1>4. ASSUME NEW i \in 1..(Len(u) - 2)
      PROVE  /\ SubSeq(u, i, i + 2) \in Texts /\ Len(SubSeq(u, i, i + 2)) = 3
             /\ \A j \in 1..3 : SubSeq(u, i, i + 2)[j] = u[i + j - 1]
  <2>1. i \in Nat \ {0} /\ i + 2 \in 0..Len(u) /\ i <= (i + 2) + 1 BY <1>1
  <2>2. /\ SubSeq(u, i, i + 2) \in Texts
        /\ Len(SubSeq(u, i, i + 2)) = (i + 2) - i + 1
        /\ \A j \in 1..((i + 2) - i + 1) : SubSeq(u, i, i + 2)[j] = u[i + j - 1]
    BY <1>1, <2>1, PartIs
  <2>3. (i + 2) - i + 1 = 3 BY <2>1
  <2> QED BY <2>2, <2>3
<1>5. m + 1 \in S
  <2>1. m + 1 \in 1..(Len(u) - 2) BY <1>1
  <2> DEFINE x == SubSeq(u, m + 1, (m + 1) + 2)
  <2>2. x \in Texts /\ Len(x) = 3 /\ \A j \in 1..3 : x[j] = u[(m + 1) + j - 1]
    BY <2>1, <1>4
  <2>3. \A j \in 1..3 : (m + 1) + j - 1 = m + j BY <1>1
  <2> HIDE DEF x
  <2>4. \A j \in 1..3 : x[j] = mark[j] BY <1>1, <2>2, <2>3
  <2>5. x = mark BY <2>2, <2>4, SeqEqual DEF Texts
  <2> QED BY <1>3, <2>1, <2>5 DEF x
<1>6. S \in SUBSET Nat BY <1>1, <1>3
<1>7. ASSUME NEW i \in S, i <= m PROVE FALSE
  <2>1. i \in 1..(Len(u) - 2) /\ SubSeq(u, i, i + 2) = mark /\ i \in 1..m
    BY <1>1, <1>3, <1>7
  <2>2. mark[1] = u[i] /\ mark[2] = u[i + 1]
    <3>1. \A j \in 1..3 : mark[j] = u[i + j - 1] BY <1>4, <2>1
    <3>2. 1 \in 1..3 /\ 2 \in 1..3 /\ i + 1 - 1 = i /\ i + 2 - 1 = i + 1 BY <2>1
    <3> QED BY <3>1, <3>2
  <2>3. u[i] = a[i] BY <1>1, <2>1
  <2>4. ~Lacks(a, {mark[1]}) BY <2>1, <2>2, <2>3 DEF Lacks
  <2>5. CASE i = m
    <3>1. 1 \in 1..3 /\ u[m + 1] = mark[1] BY <1>1
    <3> QED BY <2>2, <2>4, <2>5, <3>1
  <2>6. CASE i # m
    <3>1. i + 1 \in 1..m BY <1>1, <2>1, <2>6
    <3>2. a[i + 1] = mark[2] BY <1>1, <2>2, <3>1
    <3> QED BY <2>4, <3>1, <3>2 DEF Lacks
  <2> QED BY <2>5, <2>6
<1>8. \A y \in S : m + 1 <= y BY <1>1, <1>6, <1>7
<1>9. URI!Min(S) = m + 1 BY <1>5, <1>6, <1>8, MinIs
<1>10. (m + 1) + 3 = m + 4 BY <1>1
<1> QED BY <1>2, <1>3, <1>5, <1>9, <1>10 DEF u, S

\* The parts of a URI: a scheme, a user, a host, a port, a path, a query or
\* fragment up to its first slash and from there on. An address in brackets is [::1].
Scheme(s) == s = << >> \/ (\E n \in Texts : Lacks(n, {":"}) /\ s = n \o URI!SchemeMark)
User(u)   == u = << >> \/ (\E n \in Texts : Lacks(n, {"/", "?", "#"}) /\ u = n \o <<"@">>)
Name(h)   == \/ h \in {<< >>, <<"[", ":", ":", "1", "]">>}
             \/ \E n \in Pieces \ {"/", "?", "#", "@", ":", "]"} : h = <<n>>
Port(o)   == \/ o = << >>
             \/ \E n \in Texts : Lacks(n, {"/", "?", "#", "@", ":", "]"}) /\ o = <<":">> \o n
Path(f)   == f = << >> \/ (f[1] = "/" /\ Lacks(f, {"?", "#"}))
Query(q)  == q = << >> \/ (q[1] \in {"?", "#"} /\ Lacks(q, {"/"}))
Rest(e)   == e = << >> \/ e[1] = "/"

LEMMA SingleIs ==
  ASSUME NEW d \in Pieces
  PROVE  <<d>> \in Texts /\ Len(<<d>>) = 1 /\ <<d>>[1] = d /\ <<d>> # << >>
<1> QED BY DEF Texts

LEMMA JoinLacks ==
  ASSUME NEW s \in Texts, NEW t \in Texts, NEW ds
  PROVE  Lacks(s \o t, ds) <=> Lacks(s, ds) /\ Lacks(t, ds)
<1> DEFINE r == s \o t m == Len(s) n == Len(t)
<1>1. /\ r \in Texts /\ Len(r) = m + n /\ m \in Nat /\ n \in Nat
      /\ \A i \in 1..m : r[i] = s[i]
      /\ \A j \in 1..n : r[m + j] = t[j]
  <2>1. /\ s \o t \in Texts /\ Len(s \o t) = Len(s) + Len(t)
        /\ Len(s) \in Nat /\ Len(t) \in Nat
        /\ \A i \in 1..Len(s) : (s \o t)[i] = s[i]
        /\ \A j \in 1..Len(t) : (s \o t)[Len(s) + j] = t[j]
    BY JoinIs
  <2> QED BY <2>1
<1>2. (Lacks(r, ds) <=> \A i \in 1..Len(r) : r[i] \notin ds)
      /\ (Lacks(s, ds) <=> \A i \in 1..m : s[i] \notin ds)
      /\ (Lacks(t, ds) <=> \A i \in 1..n : t[i] \notin ds)
  BY DEF Lacks
<1> HIDE DEF r, m, n
<1>3. ASSUME Lacks(r, ds) PROVE Lacks(s, ds) /\ Lacks(t, ds)
  <2>1. \A i \in 1..m : i \in 1..Len(r) BY <1>1
  <2>2. \A j \in 1..n : m + j \in 1..Len(r) BY <1>1
  <2>3. \A i \in 1..m : s[i] \notin ds BY <1>1, <1>2, <1>3, <2>1
  <2>4. \A j \in 1..n : t[j] \notin ds BY <1>1, <1>2, <1>3, <2>2
  <2> QED BY <1>2, <2>3, <2>4
<1>4. ASSUME Lacks(s, ds), Lacks(t, ds), NEW i \in 1..Len(r) PROVE r[i] \notin ds
  <2>1. CASE i <= m
    <3>1. i \in 1..m BY <2>1, <1>1
    <3> QED BY <1>1, <1>2, <1>4, <3>1
  <2>2. CASE ~(i <= m)
    <3>1. i - m \in 1..n /\ m + (i - m) = i BY <2>2, <1>1
    <3>2. r[m + (i - m)] = t[i - m] BY <1>1, <3>1
    <3> QED BY <1>2, <1>4, <3>1, <3>2
  <2> QED BY <2>1, <2>2
<1> QED BY <1>2, <1>3, <1>4 DEF r

\* The first and the last piece of a join.
LEMMA JoinEnds ==
  ASSUME NEW s \in Texts, NEW t \in Texts
  PROVE  /\ s # << >> => s \o t # << >> /\ (s \o t)[1] = s[1]
         /\ t # << >> => s \o t # << >> /\ (s \o t)[Len(s \o t)] = t[Len(t)]
         /\ s \o << >> = s /\ << >> \o t = t
<1>1. /\ s \o t \in Texts /\ Len(s \o t) = Len(s) + Len(t)
      /\ Len(s) \in Nat /\ Len(t) \in Nat
      /\ \A i \in 1..Len(s) : (s \o t)[i] = s[i]
      /\ \A j \in 1..Len(t) : (s \o t)[Len(s) + j] = t[j]
  BY JoinIs
<1>2. s \in Seq(Pieces) /\ t \in Seq(Pieces) BY DEF Texts
<1>3. s # << >> => Len(s) # 0 BY <1>2
<1>4. t # << >> => Len(t) # 0 BY <1>2
<1>5. Len(s \o t) # 0 => s \o t # << >> OBVIOUS
<1>6. Len(s) # 0 => 1 \in 1..Len(s) /\ Len(s \o t) # 0 BY <1>1
<1>7. Len(t) # 0 => Len(t) \in 1..Len(t) /\ Len(s \o t) # 0 BY <1>1
<1>8. s \o << >> = s /\ << >> \o t = t BY <1>2, ConcatEmptySeq
<1> QED BY <1>1, <1>3, <1>4, <1>5, <1>6, <1>7, <1>8

LEMMA LacksMore ==
  ASSUME NEW s, NEW ds, NEW es, es \subseteq ds, Lacks(s, ds)
  PROVE  Lacks(s, es)
BY DEF Lacks

LEMMA Delimiters ==
  /\ Delims \subseteq Pieces
  /\ ":" \notin {"/", "?", "#", "@", "]"} /\ "@" \notin {"/", "?", "#", ":", "]"}
  /\ "/" \notin {"?", "#"} /\ ":" # URI!Quote /\ "uri" # URI!Quote
<1>1. ":" # URI!Quote /\ "uri" # URI!Quote BY Zenon DEF URI!Quote
<1> QED BY <1>1 DEF Pieces, Delims

LEMMA LiteralsAre ==
  /\ URI!SchemeMark \in Texts /\ Len(URI!SchemeMark) = 3 /\ URI!SchemeMark[1] = ":"
  /\ URI!UriKey \in Texts /\ Len(URI!UriKey) = 3
  /\ URI!UriKey[1] = URI!Quote /\ URI!UriKey[2] = "uri"
  /\ << >> \in Texts /\ Len(<< >>) = 0
<1> DEFINE q == URI!Quote
<1>1. q \in Pieces /\ "uri" \in Pieces /\ ":" \in Pieces /\ "/" \in Pieces
  BY Delimiters DEF Delims
<1>2. URI!SchemeMark \in Texts /\ Len(URI!SchemeMark) = 3 /\ URI!SchemeMark[1] = ":"
  BY <1>1 DEF URI!SchemeMark, Texts
<1> HIDE DEF q
<1>3. <<q, "uri", q>> \in Texts /\ Len(<<q, "uri", q>>) = 3
      /\ <<q, "uri", q>>[1] = q /\ <<q, "uri", q>>[2] = "uri"
  BY <1>1 DEF Texts
<1>4. URI!UriKey = <<q, "uri", q>> BY DEF URI!UriKey, q
<1>5. << >> \in Texts BY DEF Texts
<1>6. Len(<< >>) = 0 OBVIOUS
<1> QED BY <1>2, <1>3, <1>4, <1>5, <1>6 DEF q

\* A host in brackets.
Bracketed == <<"[", ":", ":", "1", "]">>

LEMMA BracketedIs ==
  /\ Bracketed \in Texts /\ Len(Bracketed) = 5
  /\ Bracketed[1] = "[" /\ Bracketed[2] = ":" /\ Bracketed[3] = ":"
  /\ Bracketed[4] = "1" /\ Bracketed[5] = "]"
<1>1. "[" \in Pieces /\ ":" \in Pieces /\ "1" \in Pieces /\ "]" \in Pieces
  BY Delimiters DEF Delims
<1> QED BY <1>1 DEF Bracketed, Texts

LEMMA NameIs ==
  ASSUME NEW h, Name(h)
  PROVE  h \in Texts /\ Lacks(h, {"/", "?", "#", "@"})
<1>1. CASE h = << >>
  <2>1. Len(h) = 0 /\ 1..0 = {} BY <1>1, LiteralsAre
  <2> QED BY <1>1, <2>1, LiteralsAre DEF Lacks
<1>2. CASE h = Bracketed
  <2>1. \A i \in 1..5 : i = 1 \/ i = 2 \/ i = 3 \/ i = 4 \/ i = 5 OBVIOUS
  <2>2. \A i \in 1..5 : h[i] \in {"[", ":", "1", "]"} BY <1>2, <2>1, BracketedIs
  <2>3. \A x \in {"[", ":", "1", "]"} : x \notin {"/", "?", "#", "@"} OBVIOUS
  <2> QED BY <1>2, <2>2, <2>3, BracketedIs DEF Lacks
<1>3. ASSUME NEW n \in Pieces \ {"/", "?", "#", "@", ":", "]"}, h = <<n>> PROVE h \in Texts /\ Lacks(h, {"/", "?", "#", "@"})
  <2>1. h \in Texts /\ Len(h) = 1 /\ h[1] = n BY <1>3, SingleIs
  <2>2. \A i \in 1..1 : i = 1 OBVIOUS
  <2> QED BY <2>1, <2>2 DEF Lacks
<1> QED BY <1>1, <1>2, <1>3 DEF Name, Bracketed

LEMMA PortIs ==
  ASSUME NEW o, Port(o)
  PROVE  o \in Texts /\ Lacks(o, {"/", "?", "#", "@"})
<1>1. CASE o = << >>
  <2>1. Len(o) = 0 /\ 1..0 = {} BY <1>1, LiteralsAre
  <2> QED BY <1>1, <2>1, LiteralsAre DEF Lacks
<1>2. ASSUME NEW n \in Texts, Lacks(n, {"/", "?", "#", "@", ":", "]"}), o = <<":">> \o n
      PROVE  o \in Texts /\ Lacks(o, {"/", "?", "#", "@"})
  <2>1. <<":">> \in Texts /\ Len(<<":">>) = 1 /\ <<":">>[1] = ":" BY Delimiters, SingleIs DEF Delims
  <2>2. \A i \in 1..1 : i = 1 OBVIOUS
  <2>3. Lacks(<<":">>, {"/", "?", "#", "@"}) BY <2>1, <2>2, Delimiters DEF Lacks
  <2>4. Lacks(n, {"/", "?", "#", "@"}) BY <1>2, LacksMore
  <2>5. o \in Texts BY <1>2, <2>1, JoinIs
  <2> QED BY <1>2, <2>1, <2>3, <2>4, <2>5, JoinLacks
<1> QED BY <1>1, <1>2 DEF Port

LEMMA UserIs ==
  ASSUME NEW u, User(u)
  PROVE  u \in Texts /\ Lacks(u, {"/", "?", "#"}) /\ (u = << >> \/ u[Len(u)] \in {"@"})
<1>1. CASE u = << >>
  <2>1. Len(u) = 0 /\ 1..0 = {} BY <1>1, LiteralsAre
  <2> QED BY <1>1, <2>1, LiteralsAre DEF Lacks
<1>2. ASSUME NEW n \in Texts, Lacks(n, {"/", "?", "#"}), u = n \o <<"@">>
      PROVE  u \in Texts /\ Lacks(u, {"/", "?", "#"}) /\ (u = << >> \/ u[Len(u)] \in {"@"})
  <2>1. <<"@">> \in Texts /\ Len(<<"@">>) = 1 /\ <<"@">>[1] = "@" /\ <<"@">> # << >>
    BY Delimiters, SingleIs DEF Delims
  <2>2. \A i \in 1..1 : i = 1 OBVIOUS
  <2>3. Lacks(<<"@">>, {"/", "?", "#"}) BY <2>1, <2>2, Delimiters DEF Lacks
  <2>4. u \in Texts BY <1>2, <2>1, JoinIs
  <2>5. u[Len(u)] = "@" BY <1>2, <2>1, JoinEnds
  <2> QED BY <1>2, <2>1, <2>3, <2>4, <2>5, JoinLacks
<1> QED BY <1>1, <1>2 DEF User

\* What follows the scheme, in a URI with one and in one that never holds "://".
LEMMA SchemeRead ==
  ASSUME NEW s, NEW v \in Texts, Scheme(s),
         s = << >> => URI!Marks(v, URI!SchemeMark) = {}
  PROVE  s \o v \in Texts /\ URI!AfterScheme(s \o v) = v
<1> DEFINE mark == URI!SchemeMark
<1>1. CASE s = << >>
  <2>1. s \o v = v BY <1>1, JoinEnds, LiteralsAre
  <2>2. URI!AfterScheme(v) = v BY <1>1 DEF URI!AfterScheme
  <2> QED BY <2>1, <2>2
<1>2. ASSUME NEW n \in Texts, Lacks(n, {":"}), s = n \o URI!SchemeMark
      PROVE  s \o v \in Texts /\ URI!AfterScheme(s \o v) = v
  <2>1. mark \in Texts /\ Len(mark) = 3 /\ mark[1] = ":" BY LiteralsAre
  <2>2. s \in Texts /\ s \o v \in Texts /\ s \o v = n \o (mark \o v)
    <3>1. s \in Texts BY <1>2, <2>1, JoinIs
    <3>2. s \o v \in Texts BY <3>1, JoinIs
    <3>3. (n \o mark) \o v = n \o (mark \o v) BY <2>1, ConcatAssociative DEF Texts
    <3> QED BY <1>2, <3>1, <3>2, <3>3
  <2> HIDE DEF mark
  <2>3. Lacks(n, {mark[1]}) BY <1>2, <2>1
  <2>4. URI!Marks(n \o (mark \o v), mark) # {} /\ URI!After(n \o (mark \o v), mark) = v
    BY <1>2, <2>1, <2>3, MarkSplits
  <2>5. URI!AfterScheme(s \o v) = URI!After(s \o v, mark) BY <2>2, <2>4 DEF URI!AfterScheme, mark
  <2> QED BY <2>2, <2>4, <2>5
<1> QED BY <1>1, <1>2 DEF Scheme

\* The port is what the last colon stands before, if no bracket follows it.
LEMMA PortRead ==
  ASSUME NEW h, NEW o, Name(h), Port(o)
  PROVE  LET colon == URI!Max(URI!At(h \o o, {":"}) \cup {0})
         IN  (IF colon > 0 /\ \A i \in URI!At(h \o o, {"]"}) : i < colon
              THEN SubSeq(h \o o, 1, colon - 1) ELSE h \o o) = h
<1> DEFINE w == h \o o  S == URI!At(w, {":"}) \cup {0}
<1>1. h \in Texts /\ o \in Texts /\ w \in Texts BY NameIs, PortIs, JoinIs
<1>2. CASE o = << >>
  <2>1. w = h BY <1>1, <1>2, JoinEnds
  <2>2. CASE h = Bracketed
    <3>1. w = Bracketed /\ Len(w) = 5 /\ w[5] = "]" BY <2>1, <2>2, BracketedIs
    <3>2. DOMAIN w = 1..5
      <4> HIDE DEF w
      <4> QED BY <1>1, <3>1 DEF Texts
    <3>3. 5 \in URI!At(w, {"]"}) BY <3>1, <3>2 DEF URI!At
    <3>4. S = {2, 3} \cup {0}
      <4>1. \A i \in 1..5 : i = 1 \/ i = 2 \/ i = 3 \/ i = 4 \/ i = 5 OBVIOUS
      <4>2. "[" # ":" /\ "1" # ":" /\ "]" # ":" OBVIOUS
      <4>3. URI!At(w, {":"}) = {i \in 1..5 : w[i] = ":"} BY <3>2 DEF URI!At
      <4>4. w[1] # ":" /\ w[2] = ":" /\ w[3] = ":" /\ w[4] # ":" /\ w[5] # ":"
        BY <3>1, <4>2, BracketedIs
      <4> HIDE DEF w
      <4>5. URI!At(w, {":"}) = {2, 3} BY <4>1, <4>3, <4>4
      <4> QED BY <4>5
    <3>5. URI!Max({2, 3} \cup {0}) = 3
      <4>1. {2, 3} \cup {0} \in SUBSET Nat /\ 3 \in {2, 3} \cup {0}
            /\ \A y \in {2, 3} \cup {0} : 3 >= y
        OBVIOUS
      <4> QED BY <4>1, MaxIs
    <3>6. ~(\A i \in URI!At(w, {"]"}) : i < 3) BY <3>3
    <3> QED BY <2>1, <3>4, <3>5, <3>6
  <2>3. CASE h # Bracketed
    <3>1. Lacks(w, {":"})
      <4>1. CASE h = << >>
        <5>1. Len(w) = 0 /\ 1..0 = {} BY <2>1, <4>1, LiteralsAre
        <5> QED BY <5>1 DEF Lacks
      <4>2. ASSUME NEW n \in Pieces \ {"/", "?", "#", "@", ":", "]"}, h = <<n>>
            PROVE Lacks(w, {":"})
        <5>1. Len(w) = 1 /\ w[1] = n BY <2>1, <4>2, SingleIs
        <5>2. \A i \in 1..1 : i = 1 OBVIOUS
        <5> QED BY <5>1, <5>2 DEF Lacks
      <4> QED BY <2>3, <4>1, <4>2 DEF Name, Bracketed
    <3>2. S = {0} BY <1>1, <3>1 DEF URI!At, Lacks, Texts
    <3>3. URI!Max({0}) = 0 BY MaxIs
    <3> HIDE DEF w, S
    <3>4. ~(URI!Max(S) > 0) BY <3>2, <3>3
    <3> QED BY <2>1, <3>4 DEF w, S
  <2> QED BY <2>2, <2>3
<1>3. ASSUME NEW n \in Texts, Lacks(n, {"/", "?", "#", "@", ":", "]"}), o = <<":">> \o n
      PROVE  (IF URI!Max(S) > 0 /\ \A i \in URI!At(w, {"]"}) : i < URI!Max(S)
              THEN SubSeq(w, 1, URI!Max(S) - 1) ELSE w) = h
  <2> DEFINE c == <<":">>  hc == h \o c
  <2>1. c \in Texts /\ Len(c) = 1 /\ c[1] = ":" /\ c # << >>
    BY Delimiters, SingleIs DEF Delims
  <2>2. w = hc \o n
    <3>1. (h \o c) \o n = h \o (c \o n) BY <1>1, <2>1, ConcatAssociative DEF Texts
    <3> QED BY <1>3, <3>1
  <2>3. hc \in Texts /\ Len(hc) = Len(h) + 1 /\ Len(h) \in Nat
    <3>1. h \o c \in Texts /\ Len(h \o c) = Len(h) + Len(c) /\ Len(h) \in Nat
      BY <1>1, <2>1, JoinIs
    <3> QED BY <2>1, <3>1
  <2>4. hc[Len(hc)] = ":"
    <3>1. (h \o c)[Len(h \o c)] = c[Len(c)] BY <1>1, <2>1, JoinEnds
    <3> QED BY <2>1, <3>1
  <2>5. Lacks(n, {":"}) /\ Lacks(n, {"]"}) BY <1>3, LacksMore
  <2>6. SubSeq(w, 1, Len(h)) = h BY <1>1, JoinParts
  <2>7. /\ Len(w) = Len(hc) + Len(n) /\ Len(n) \in Nat
        /\ \A j \in 1..Len(n) : w[Len(hc) + j] = n[j]
    <3>1. /\ Len(hc \o n) = Len(hc) + Len(n) /\ Len(n) \in Nat
          /\ \A j \in 1..Len(n) : (hc \o n)[Len(hc) + j] = n[j]
      BY <2>3, JoinIs
    <3> QED BY <2>2, <3>1
  <2>8. DOMAIN w = 1..Len(w) BY <1>1 DEF Texts
  <2>9. \A i \in 1..Len(hc) : i <= Len(hc) BY <2>3
  <2>10. w[Len(hc)] = ":"
    <3>1. \A i \in 1..Len(hc) : (hc \o n)[i] = hc[i] BY <2>3, JoinIs
    <3>2. Len(hc) \in 1..Len(hc) BY <2>3
    <3> QED BY <2>2, <2>4, <3>1, <3>2
  <2> HIDE DEF hc, c
  <2>11. URI!Max(URI!At(hc \o n, {":"}) \cup {0}) = Len(hc) BY <2>3, <2>4, <2>5, LastSplits
  <2>12. URI!Max(S) = Len(hc) BY <2>2, <2>11
  <2> HIDE DEF w, S
  <2>13. \A i \in URI!At(w, {"]"}) : i < Len(hc)
    <3> SUFFICES ASSUME NEW i \in 1..Len(w), w[i] = "]", ~(i < Len(hc)) PROVE FALSE
      BY <2>3, <2>8 DEF URI!At
    <3>1. "]" # ":" OBVIOUS
    <3>2. i # Len(hc) BY <2>10, <3>1
    <3>3. i - Len(hc) \in 1..Len(n) /\ Len(hc) + (i - Len(hc)) = i BY <2>3, <2>7, <3>2
    <3>4. w[Len(hc) + (i - Len(hc))] = n[i - Len(hc)] BY <2>7, <3>3
    <3> QED BY <2>5, <3>3, <3>4 DEF Lacks
  <2>14. Len(hc) > 0 /\ Len(hc) - 1 = Len(h) BY <2>3
  <2> QED BY <2>6, <2>12, <2>13, <2>14
<1> QED BY <1>2, <1>3 DEF Port

\* The host: neither user nor port, whatever stands behind it.
LEMMA HostRead ==
  ASSUME NEW s, NEW u, NEW h, NEW o, NEW g \in Texts,
         Scheme(s), User(u), Name(h), Port(o), g = << >> \/ g[1] \in {"/", "?", "#"},
         s = << >> => URI!Marks((u \o (h \o o)) \o g, URI!SchemeMark) = {}
  PROVE  URI!HostOf(s \o ((u \o (h \o o)) \o g)) = h
<1> DEFINE ho == h \o o  a == u \o ho  v == a \o g
<1>1. /\ u \in Texts /\ Lacks(u, {"/", "?", "#"}) /\ (u = << >> \/ u[Len(u)] \in {"@"})
      /\ h \in Texts /\ Lacks(h, {"/", "?", "#", "@"})
      /\ o \in Texts /\ Lacks(o, {"/", "?", "#", "@"})
  BY UserIs, NameIs, PortIs
<1>2. ho \in Texts /\ Lacks(ho, {"/", "?", "#"}) /\ Lacks(ho, {"@"})
  <2>1. Lacks(ho, {"/", "?", "#", "@"}) BY <1>1, JoinLacks
  <2>2. ho \in Texts BY <1>1, JoinIs
  <2> HIDE DEF ho
  <2> QED BY <2>1, <2>2, LacksMore
<1>3. (IF URI!Max(URI!At(ho, {":"}) \cup {0}) > 0
          /\ \A i \in URI!At(ho, {"]"}) : i < URI!Max(URI!At(ho, {":"}) \cup {0})
       THEN SubSeq(ho, 1, URI!Max(URI!At(ho, {":"}) \cup {0}) - 1) ELSE ho) = h
  BY PortRead
<1> HIDE DEF ho
<1>4. a \in Texts /\ Lacks(a, {"/", "?", "#"}) BY <1>1, <1>2, JoinIs, JoinLacks
<1>5. URI!AfterLast(a, {"@"}) = ho BY <1>1, <1>2, LastSplits
<1> HIDE DEF a
<1>6. v \in Texts /\ URI!UpTo(v, {"/", "?", "#"}) = a
  <2>1. v \in Texts BY <1>4, JoinIs
  <2>2. URI!UpTo(a \o g, {"/", "?", "#"}) = a BY <1>4, FirstSplits
  <2> QED BY <2>1, <2>2
<1>7. s = << >> => URI!Marks(v, URI!SchemeMark) = {} BY DEF a, ho
<1> HIDE DEF v
<1>8. URI!AfterScheme(s \o v) = v BY <1>6, <1>7, SchemeRead
<1>9. URI!HostOf(s \o v) = h BY <1>3, <1>5, <1>6, <1>8 DEF URI!HostOf
<1> QED BY <1>9 DEF v, a, ho

\* The path; of a URI without one, the root, or what follows a slash in the query.
LEMMA PathRead ==
  ASSUME NEW s, NEW u, NEW h, NEW o, NEW f \in Texts, NEW q \in Texts, NEW e \in Texts,
         Scheme(s), User(u), Name(h), Port(o), Path(f), Query(q), Rest(e),
         q = << >> => e = << >>,
         s = << >> => URI!Marks((u \o (h \o o)) \o (f \o (q \o e)), URI!SchemeMark) = {}
  PROVE  URI!PathOf(s \o ((u \o (h \o o)) \o (f \o (q \o e)))) =
           IF f # << >> THEN f ELSE IF e = << >> THEN <<"/">> ELSE URI!UpTo(e, {"?", "#"})
<1> DEFINE ho == h \o o  a == u \o ho  qe == q \o e  g == f \o qe  v == a \o g
<1>1. a \in Texts /\ Lacks(a, {"/"})
  <2>1. /\ u \in Texts /\ Lacks(u, {"/", "?", "#"})
        /\ h \in Texts /\ Lacks(h, {"/", "?", "#", "@"})
        /\ o \in Texts /\ Lacks(o, {"/", "?", "#", "@"})
    BY UserIs, NameIs, PortIs
  <2>2. Lacks(u, {"/"}) /\ Lacks(h, {"/"}) /\ Lacks(o, {"/"}) BY <2>1, LacksMore
  <2>3. ho \in Texts /\ Lacks(ho, {"/"}) BY <2>1, <2>2, JoinIs, JoinLacks
  <2> HIDE DEF ho
  <2> QED BY <2>1, <2>2, <2>3, JoinIs, JoinLacks
<1>2. qe \in Texts /\ (qe = << >> \/ qe[1] \in {"?", "#"})
  <2>1. qe \in Texts BY JoinIs
  <2>2. CASE q = << >>
    <3>1. qe = << >> BY <2>2, JoinEnds, LiteralsAre
    <3> QED BY <2>1, <3>1
  <2>3. CASE q # << >>
    <3>1. qe[1] = q[1] BY <2>3, JoinEnds
    <3> QED BY <2>1, <2>3, <3>1 DEF Query
  <2> QED BY <2>2, <2>3
<1>3. g \in Texts
  <2> HIDE DEF qe
  <2> QED BY <1>2, JoinIs
<1>4. v \in Texts
  <2> HIDE DEF a, g
  <2> QED BY <1>1, <1>3, JoinIs
<1>5. URI!AfterScheme(s \o v) = v
  <2>1. s = << >> => URI!Marks(v, URI!SchemeMark) = {} OBVIOUS
  <2> HIDE DEF v
  <2> QED BY <1>4, <2>1, SchemeRead
<1>6. CASE f # << >>
  <2>1. g[1] = "/" /\ g # << >> /\ URI!UpTo(g, {"?", "#"}) = f
    <3> HIDE DEF qe
    <3>1. g[1] = f[1] /\ g # << >> BY <1>2, <1>6, JoinEnds
    <3>2. Lacks(f, {"?", "#"}) /\ f[1] = "/" BY <1>6 DEF Path
    <3> QED BY <1>2, <3>1, <3>2, FirstSplits
  <2> HIDE DEF a, g
  <2>2. URI!From(a \o g, {"/"}) = g BY <1>1, <1>3, <2>1, FirstSplits
  <2>3. URI!At(v, {"/"}) # {}
    <3>1. ~Lacks(v, {"/"})
      <4>1. Len(g) # 0 BY <1>3, <2>1 DEF Texts
      <4>2. 1 \in 1..Len(g) BY <1>3, <4>1 DEF Texts
      <4>3. ~Lacks(g, {"/"}) BY <2>1, <4>2 DEF Lacks
      <4> QED BY <1>1, <1>3, <4>3, JoinLacks
    <3> HIDE DEF v
    <3> QED BY <1>4, <3>1 DEF URI!At, Lacks, Texts
  <2> HIDE DEF v
  <2>4. URI!PathOf(s \o v) = URI!UpTo(URI!From(v, {"/"}), {"?", "#"})
    BY <1>5, <2>3 DEF URI!PathOf
  <2>5. URI!PathOf(s \o v) = f BY <2>1, <2>2, <2>4 DEF v
  <2> QED BY <1>6, <2>5 DEF v, a, g
<1>7. CASE f = << >>
  <2>1. g = qe
    <3> HIDE DEF qe
    <3> QED BY <1>2, <1>7, JoinEnds
  <2>2. CASE e = << >>
    <3>1. qe = q BY <2>2, JoinEnds
    <3>2. Lacks(q, {"/"})
      <4>1. q = << >> => Len(q) = 0 /\ 1..0 = {} BY LiteralsAre
      <4> QED BY <4>1 DEF Query, Lacks
    <3>3. v = a \o q BY <2>1, <3>1
    <3> HIDE DEF v, a
    <3>4. Lacks(v, {"/"}) BY <1>1, <3>2, <3>3, JoinLacks
    <3>5. URI!At(v, {"/"}) = {} BY <1>4, <3>4 DEF URI!At, Lacks, Texts
    <3>6. URI!PathOf(s \o v) = <<"/">> BY <1>5, <3>5 DEF URI!PathOf
    <3> QED BY <1>7, <2>2, <3>6 DEF v, a
  <2>3. CASE e # << >>
    <3> DEFINE b == a \o q
    <3>1. Lacks(q, {"/"}) /\ e[1] = "/" BY <2>3 DEF Query, Rest
    <3>2. v = b \o e
      <4> HIDE DEF a
      <4>1. (a \o q) \o e = a \o (q \o e) BY <1>1, ConcatAssociative DEF Texts
      <4> QED BY <2>1, <4>1
    <3>3. b \in Texts /\ Lacks(b, {"/"})
      <4> HIDE DEF a
      <4> QED BY <1>1, <3>1, JoinIs, JoinLacks
    <3> HIDE DEF v, b, a
    <3>4. URI!From(b \o e, {"/"}) = e BY <3>1, <3>3, FirstSplits
    <3>5. URI!At(v, {"/"}) # {}
      <4>1. Len(e) # 0 BY <2>3 DEF Texts
      <4>2. 1 \in 1..Len(e) BY <4>1 DEF Texts
      <4>3. ~Lacks(e, {"/"}) BY <3>1, <4>2 DEF Lacks
      <4>4. ~Lacks(v, {"/"}) BY <3>2, <3>3, <4>3, JoinLacks
      <4> QED BY <1>4, <4>4 DEF URI!At, Lacks, Texts
    <3>6. URI!PathOf(s \o v) = URI!UpTo(URI!From(v, {"/"}), {"?", "#"})
      BY <1>5, <3>5 DEF URI!PathOf
    <3>7. URI!PathOf(s \o v) = URI!UpTo(e, {"?", "#"}) BY <3>2, <3>4, <3>6
    <3> QED BY <1>7, <2>3, <3>7 DEF v, a
  <2> QED BY <2>2, <2>3
<1> QED BY <1>6, <1>7

\* What the escapes of a text stand for.
Decoded(t) == [i \in DOMAIN t |-> IF t[i] \in DOMAIN URI!Unescaped THEN URI!Unescaped[t[i]] ELSE t[i]]

LEMMA TwoSplit ==
  ASSUME NEW k \in Texts, NEW c \in Texts, NEW y \in Texts, NEW ds,
         Lacks(k, ds), Lacks(c, ds), y = << >> \/ y[1] \in ds
  PROVE  URI!From(k \o (c \o y), ds) = y
<1> DEFINE kc == k \o c
<1>1. kc \o y = k \o (c \o y) BY ConcatAssociative DEF Texts
<1>2. kc \in Texts /\ Lacks(kc, ds) BY JoinIs, JoinLacks
<1> HIDE DEF kc
<1>3. URI!From(kc \o y, ds) = y BY <1>2, FirstSplits
<1> QED BY <1>1, <1>3

\* What follows the key in a request body.
LEMMA KeyRead ==
  ASSUME NEW a \in Texts, NEW r \in Texts, Lacks(a, {"uri"})
  PROVE  /\ URI!Marks(a \o (URI!UriKey \o r), URI!UriKey) # {}
         /\ URI!After(a \o (URI!UriKey \o r), URI!UriKey) = r
<1> DEFINE key == URI!UriKey
<1>1. /\ key \in Texts /\ Len(key) = 3 /\ key[2] = "uri" /\ key[1] # key[2]
  BY LiteralsAre, Delimiters
<1>2. Lacks(a, {key[2]}) BY <1>1
<1> HIDE DEF key
<1>3. Lacks(a, {key[2]}) /\ key[1] # key[2] => /\ URI!Marks(a \o (key \o r), key) # {}
                                             /\ URI!After(a \o (key \o r), key) = r
  <2> HIDE DEF key
  <2> QED BY <1>1, MarkSplits
<1> QED BY <1>1, <1>2, <1>3 DEF key

\* A request body: the string `t` behind the key, and what stands around both.
BodyOf(a, b, c, t, d) ==
  a \o (URI!UriKey \o (b \o (<<":">> \o (c \o (<<URI!Quote>> \o (t \o (<<URI!Quote>> \o d)))))))

IsBody(r, uri, a, b, c, t, d) ==
  /\ Lacks(a, {"uri"}) /\ Lacks(b, {":"}) /\ Lacks(c, {URI!Quote}) /\ Lacks(t, {URI!Quote})
  /\ r.body = BodyOf(a, b, c, t, d) /\ Decoded(t) = uri

\* The URI of a request body: the string after the colon after the key, decoded.
LEMMA UriRead ==
  ASSUME NEW a \in Texts, NEW b \in Texts, NEW c \in Texts, NEW t \in Texts, NEW d \in Texts,
         NEW r, NEW uri, IsBody(r, uri, a, b, c, t, d)
  PROVE  URI!RequestUri(r.body) = uri
<1> DEFINE Q == URI!Quote  key == URI!UriKey  k == <<":">>  w == <<Q>>
<1> DEFINE z == w \o d  tz == t \o z  y == w \o tz  x == c \o y  kx == k \o x  l == b \o kx
<1>1. Q \in Pieces /\ ":" \in Pieces /\ ":" # Q
  <2>1. Q \in Delims /\ ":" \in Delims BY DEF Delims
  <2> QED BY <2>1, Delimiters
<1> HIDE DEF Q, key
<1>2. /\ k \in Texts /\ Len(k) = 1 /\ k[1] = ":" /\ k # << >>
      /\ w \in Texts /\ Len(w) = 1 /\ w[1] = Q /\ w # << >>
  BY <1>1, SingleIs
<1>3. Lacks(k, {Q})
  <2>1. \A i \in 1..1 : i = 1 OBVIOUS
  <2> QED BY <1>1, <1>2, <2>1 DEF Lacks
<1>4. Lacks(t, {Q}) /\ Lacks(c, {Q}) BY DEF IsBody, Q
<1> HIDE DEF k, w
<1>5. z \in Texts /\ z # << >> /\ z[1] = Q BY <1>2, JoinIs, JoinEnds
<1> HIDE DEF z
<1>6. tz \in Texts /\ URI!UpTo(tz, {Q}) = t BY <1>4, <1>5, JoinIs, FirstSplits
<1> HIDE DEF tz
<1>7. y \in Texts /\ y # << >> /\ y[1] = Q BY <1>2, <1>6, JoinIs, JoinEnds
<1>8. Tail(y) = tz
  <2>1. Tail(y) = SubSeq(y, 2, Len(y)) BY <1>7 DEF Texts
  <2>2. SubSeq(w \o tz, Len(w) + 1, Len(w \o tz)) = tz BY <1>2, <1>6, JoinParts
  <2> QED BY <1>2, <2>1, <2>2
<1> HIDE DEF y
<1>9. x \in Texts BY <1>7, JoinIs
<1>10. URI!From(kx, {Q}) = y BY <1>2, <1>3, <1>4, <1>7, TwoSplit
<1> HIDE DEF x
<1>11. kx \in Texts /\ kx # << >> /\ kx[1] = ":" BY <1>2, <1>9, JoinIs, JoinEnds
<1> HIDE DEF kx
<1>12. l \in Texts /\ URI!From(l, {":"}) = kx
  <2>1. Lacks(b, {":"}) BY DEF IsBody
  <2> QED BY <1>11, <2>1, JoinIs, FirstSplits
<1>13. URI!At(l, {":"}) # {}
  <2>1. Len(kx) # 0 BY <1>11 DEF Texts
  <2>2. 1 \in 1..Len(kx) BY <1>11, <2>1 DEF Texts
  <2>3. ~Lacks(kx, {":"}) BY <1>11, <2>2 DEF Lacks
  <2>4. ~Lacks(l, {":"}) BY <1>11, <2>3, JoinLacks
  <2> HIDE DEF l
  <2> QED BY <1>12, <2>4 DEF URI!At, Lacks, Texts
<1> HIDE DEF l
<1>14. /\ URI!Marks(a \o (key \o l), key) # {}
       /\ URI!After(a \o (key \o l), key) = l
  <2>1. Lacks(a, {"uri"}) BY DEF IsBody
  <2> QED BY <1>12, <2>1, KeyRead DEF key
<1> DEFINE body == a \o (key \o l)
<1> HIDE DEF body
<1>15. URI!RequestUri(body) = Decoded(t)
  <2>1. /\ URI!Marks(body, URI!UriKey) # {} /\ URI!After(body, URI!UriKey) = l
    BY <1>14 DEF body, key
  <2>2. URI!From(URI!From(l, {":"}), {URI!Quote}) = y BY <1>10, <1>12 DEF Q
  <2>3. URI!UpTo(Tail(y), {URI!Quote}) = t BY <1>6, <1>8 DEF Q
  <2> QED BY <1>7, <1>13, <2>1, <2>2, <2>3 DEF URI!RequestUri, Decoded
<1>16. r.body = BodyOf(a, b, c, t, d) /\ Decoded(t) = uri BY DEF IsBody
<1> QED BY <1>15, <1>16 DEF BodyOf, body, key, l, kx, x, y, tz, z, k, w, Q

\* A URI behind its scheme, its host, and its path: of one without a path, the root.
Behind(u, h, o, f, q, e) == (u \o (h \o o)) \o (f \o (q \o e))
HostIn(h)    == IF h = << >> THEN None ELSE IF Len(h) = 1 THEN h[1] ELSE "[::1]"
PathIn(f)    == IF f # << >> THEN f ELSE <<"/">>

\* A request that is what it says: the body holds a well-formed URI behind its
\* first "uri", and the host and the path are the URI's; bare is one that names no
\* scheme and holds "://" further on, slashed one that has no path and a slash in
\* its query or fragment.
IsUri(r, s, u, h, o, f, q, e) ==
  /\ Scheme(s) /\ User(u) /\ Name(h) /\ Port(o) /\ Path(f) /\ Query(q) /\ Rest(e)
  /\ q = << >> => e = << >>
  /\ r.host = HostIn(h) /\ r.path = PathIn(f)
  /\ r.slashed = (f = << >> /\ e # << >>)
  /\ r.bare = (s = << >> /\ URI!Marks(Behind(u, h, o, f, q, e), URI!SchemeMark) # {})
Meant(r) ==
  \E s, u, h, o, f, q, e \in Texts :
    /\ IsUri(r, s, u, h, o, f, q, e)
    /\ \E a, b, c, t, d \in Texts : IsBody(r, s \o Behind(u, h, o, f, q, e), a, b, c, t, d)

\* The program finds the host of every request that is not bare, and the path of
\* every one that is neither bare nor slashed.
RequestsRead ==
  \A q \in Asked : ~q.bare => (q.pathRight \/ q.slashed) /\ q.host = q.isHost

\* What `Asked` makes of a request.
Read(r) ==
  [host |-> HostIn(URI!HostOf(URI!RequestUri(r.body))),
   pathRight |-> URI!PathOf(URI!RequestUri(r.body)) = r.path,
   isHost |-> r.host, bare |-> r.bare, slashed |-> r.slashed]

LEMMA MeantIsRead ==
  ASSUME NEW r, Meant(r), ~r.bare
  PROVE  /\ URI!PathOf(URI!RequestUri(r.body)) = r.path \/ r.slashed
         /\ HostIn(URI!HostOf(URI!RequestUri(r.body))) = r.host
<1>1. PICK s, u, h, o, f, q, e \in Texts :
        /\ IsUri(r, s, u, h, o, f, q, e)
        /\ \E a, b, c, t, d \in Texts : IsBody(r, s \o Behind(u, h, o, f, q, e), a, b, c, t, d)
  BY DEF Meant
<1> DEFINE g == f \o (q \o e)  v == (u \o (h \o o)) \o g
<1>2. /\ Scheme(s) /\ User(u) /\ Name(h) /\ Port(o) /\ Path(f) /\ Query(q) /\ Rest(e)
      /\ q = << >> => e = << >>
      /\ r.host = HostIn(h) /\ r.path = PathIn(f) /\ r.slashed = (f = << >> /\ e # << >>)
  BY <1>1 DEF IsUri
<1>3. s = << >> => URI!Marks(v, URI!SchemeMark) = {}
  <2>1. r.bare = (s = << >> /\ URI!Marks(v, URI!SchemeMark) # {}) BY <1>1 DEF IsUri, Behind
  <2> HIDE DEF v
  <2> QED BY <2>1
<1>4. URI!RequestUri(r.body) = s \o v
  <2>1. v = Behind(u, h, o, f, q, e) BY DEF Behind
  <2> HIDE DEF v
  <2>2. PICK a, b, c, t, d \in Texts : IsBody(r, s \o v, a, b, c, t, d) BY <1>1, <2>1
  <2> QED BY <2>2, UriRead
<1>5. URI!PathOf(s \o v) = r.path \/ r.slashed
  <2>1. URI!PathOf(s \o v) =
          IF f # << >> THEN f ELSE IF e = << >> THEN <<"/">> ELSE URI!UpTo(e, {"?", "#"})
    BY <1>2, <1>3, PathRead
  <2> HIDE DEF v
  <2> QED BY <1>2, <2>1 DEF PathIn
<1>6. g \in Texts /\ (g = << >> \/ g[1] \in {"/", "?", "#"})
  <2> DEFINE qe == q \o e
  <2>1. qe \in Texts /\ (qe = << >> \/ qe[1] \in {"?", "#"})
    <3>1. qe \in Texts BY JoinIs
    <3>2. CASE q = << >> BY <1>2, <3>1, <3>2, JoinEnds, LiteralsAre
    <3>3. CASE q # << >>
      <4>1. qe[1] = q[1] BY <3>3, JoinEnds
      <4> QED BY <1>2, <3>1, <3>3, <4>1 DEF Query
    <3> QED BY <3>2, <3>3
  <2> HIDE DEF qe
  <2>2. f \o qe \in Texts BY <2>1, JoinIs
  <2>3. CASE f = << >> BY <2>1, <2>2, <2>3, JoinEnds DEF qe
  <2>4. CASE f # << >>
    <3>1. (f \o qe)[1] = f[1] BY <2>1, <2>4, JoinEnds
    <3>2. (f \o qe)[1] = "/" BY <1>2, <2>4, <3>1 DEF Path
    <3> QED BY <2>2, <3>2 DEF qe
  <2> QED BY <2>3, <2>4
<1> HIDE DEF g
<1>7. URI!HostOf(s \o v) = h BY <1>2, <1>3, <1>6, HostRead
<1> HIDE DEF v
<1> QED BY <1>2, <1>4, <1>5, <1>7

\* Whatever scheme, user, port, path, query, escapes and other fields a request has,
\* `parse_request_uri` and `host_of` find the host in it, unless it has no scheme
\* and holds "://" further on; `path_of` finds its path, and "/" where it has none,
\* unless it has none and a slash follows in its query or fragment.
THEOREM RequestsAreRead == (\A r \in Requests : Meant(r)) => RequestsRead
<1> SUFFICES ASSUME \A r \in Requests : Meant(r), NEW q \in Asked
             PROVE  ~q.bare => (q.pathRight \/ q.slashed) /\ q.host = q.isHost
  BY DEF RequestsRead
<1>1. PICK r \in Requests : q = Read(r) BY DEF Asked, Read, HostIn
<1>2. /\ q.host = HostIn(URI!HostOf(URI!RequestUri(r.body)))
      /\ q.isHost = r.host /\ q.bare = r.bare /\ q.slashed = r.slashed
      /\ q.pathRight = (URI!PathOf(URI!RequestUri(r.body)) = r.path)
  BY <1>1 DEF Read
<1>3. CASE r.bare BY <1>2, <1>3
<1>4. CASE ~r.bare
  <2>1. /\ URI!PathOf(URI!RequestUri(r.body)) = r.path \/ r.slashed
        /\ HostIn(URI!HostOf(URI!RequestUri(r.body))) = r.host
    BY <1>4, MeantIsRead
  <2> QED BY <1>2, <2>1
<1> QED BY <1>3, <1>4

\* One caller and no failures, whatever the registry, the secrets, the environment
\* and the history: `explain` names the connection and the source that a resolve
\* of the same request would use.
THEOREM ExplanationAgrees ==
  (\E w : Writers = {w}) /\ Readers = {} /\ Faults = {} /\ (\A r \in Requests : Meant(r))
    => (RSpec => []ExplainAgrees)
<1> SUFFICES ASSUME \E w : Writers = {w}, Readers = {}, Faults = {},
                    \A r \in Requests : Meant(r)
             PROVE  RSpec => []ExplainAgrees
  OBVIOUS
<1>0. RequestsRead BY RequestsAreRead
<1>1. PICK w : Writers = {w} /\ Actors = {w} BY DEF Actors
<1>2. SoleInv => ExplainAgrees
  <2> SUFFICES ASSUME SoleInv, NEW p \in Actors, trace[p].at = "done"
               PROVE  LET t == trace[p]
                          found == Match(Loaded, asked[p].host) IN
                      /\ IF t.conn = None THEN found = {} /\ t.source = None
                         ELSE /\ t.conn \in found
                              /\ t.user = (Matching(Loaded, asked[p].host) # {})
                              /\ IF Yielding(t.conn) = {} THEN t.source = None
                                 ELSE t.source = t.conn.refs[CHOOSE i \in Yielding(t.conn) :
                                                    \A k \in Yielding(t.conn) : i <= k]
                      /\ asked[p].pathRight \/ asked[p].bare \/ asked[p].slashed
    BY DEF ExplainAgrees, SoleInv, SoloInv
  <2> DEFINE c == trace[p].conn
  <2>1. TraceFacts(trace[p], asked[p]) /\ trace[p] \in Traces /\ asked[p] \in Asked
    BY DEF SoleInv, ExplainInv
  <2>2. asked[p].pathRight \/ asked[p].bare \/ asked[p].slashed BY <1>0, <2>1 DEF RequestsRead
  <2>3. c = None => Match(Loaded, asked[p].host) = {} /\ trace[p].source = None
    BY <2>1 DEF TraceFacts
  <2>4. ASSUME c # None
        PROVE  /\ c \in Match(Loaded, asked[p].host)
               /\ trace[p].user = (Matching(Loaded, asked[p].host) # {})
               /\ IF Yielding(c) = {} THEN trace[p].source = None
                  ELSE trace[p].source = c.refs[CHOOSE i \in Yielding(c) :
                                                  \A k \in Yielding(c) : i <= k]
    <3>1. c \in Match(Loaded, asked[p].host)
          /\ trace[p].user = (Matching(Loaded, asked[p].host) # {})
          /\ Chosen(c, trace[p].next, trace[p].source) /\ trace[p].next > Len(c.refs)
      BY <2>1, <2>4 DEF TraceFacts
    <3>2. c \in ConnType /\ trace[p].next \in Nat BY <2>1, <2>4, MigrateKnown DEF Traces
    <3>3. \A i \in Yielding(c) : i \in Nat /\ i < trace[p].next
      BY <3>1, <3>2 DEF Yielding, ConnType
    <3>4. CASE Yielding(c) = {} BY <3>1, <3>4 DEF Chosen
    <3>5. CASE Yielding(c) # {}
      <4>1. PICK i \in Yielding(c) :
              trace[p].source = c.refs[i] /\ \A k \in Yielding(c) : i <= k
        BY <3>1, <3>2, <3>3, <3>5 DEF Chosen
      <4>2. \A j \in Yielding(c) : (\A k \in Yielding(c) : j <= k) => j = i BY <3>3, <4>1
      <4>3. (CHOOSE j \in Yielding(c) : \A k \in Yielding(c) : j <= k) = i BY <4>1, <4>2
      <4> QED BY <3>1, <3>5, <4>1, <4>3
    <3> QED BY <3>1, <3>4, <3>5
  <2> HIDE DEF c
  <2> QED BY <2>2, <2>3, <2>4 DEF c
<1>3. RSpec => []SoleInv
  <2>1. Faults \subseteq {"keychain"} OBVIOUS
  <2> QED BY <1>1, <2>1, SoleInvariance
<1> QED BY <1>2, <1>3, PTL

\* One caller, and no failures but the keychain's: the connection that answers a
\* request is the one the registry saved last has for the host that is meant, then
\* the built-in one, and nobody's if neither has the host.
THEOREM RequestAnswered ==
  (\E w : Writers = {w}) /\ Readers = {} /\ Faults \subseteq {"keychain"}
  /\ (\A r \in Requests : Meant(r)) => (RSpec => AnswersTheRequest)
<1> SUFFICES ASSUME \E w : Writers = {w}, Readers = {}, Faults \subseteq {"keychain"},
                    \A r \in Requests : Meant(r)
             PROVE  RSpec => AnswersTheRequest
  OBVIOUS
<1>0. RequestsRead BY RequestsAreRead
<1>1. PICK w : Writers = {w} /\ Actors = {w} BY DEF Actors
<1> DEFINE Answers ==
      \A p \in Actors : LoadForResolve(p) /\ ~asked[p].bare =>
        IF Right(asked[p].isHost) = {} THEN pc'[p] = "idle"
        ELSE pc'[p] = "read" /\ job'[p].conn \in Right(asked[p].isHost)
<1>2. SoleInv => Answers
  <2> SUFFICES ASSUME SoleInv, LoadForResolve(w), ~asked[w].bare
               PROVE  IF Right(asked[w].isHost) = {} THEN pc'[w] = "idle"
                      ELSE pc'[w] = "read" /\ job'[w].conn \in Right(asked[w].isHost)
    BY <1>1
  <2>0. TypeOK /\ w \in Actors BY <1>1 DEF SoleInv, Inv
  <2>1. pc[w] = "load" /\ job[w].kind = "resolve" BY DEF LoadForResolve
  <2>2. asked[w] \in Asked /\ job[w].host = asked[w].host
    BY <2>0, <2>1 DEF SoleInv, RequestInv
  <2>3. job[w].host = asked[w].isHost BY <1>0, <2>2 DEF RequestsRead
  <2>4. file.readable /\ file.entries = committed
    BY <2>0, <2>1 DEF SoleInv, SoloInv, SavedInv
  <2>5. Match(Loaded, job[w].host) = Right(asked[w].isHost) BY <2>0, <2>3, <2>4, MatchIsRight
  <2>6. \/ /\ \E c \in Right(asked[w].isHost) : job' = [job EXCEPT ![w].conn = c]
           /\ Goto(w, "read")
        \/ Right(asked[w].isHost) = {} /\ Return(w)
    BY <2>4, <2>5 DEF LoadForResolve
  <2>7. CASE Right(asked[w].isHost) = {} /\ Return(w)
    BY <2>0, <2>7 DEF Return, Goto, TypeOK
  <2>8. ASSUME NEW c \in Right(asked[w].isHost), job' = [job EXCEPT ![w].conn = c], Goto(w, "read")
        PROVE  pc'[w] = "read" /\ job'[w].conn \in Right(asked[w].isHost)
    <3>1. pc'[w] = "read" BY <2>0, <2>8 DEF Goto, TypeOK
    <3>2. job'[w].conn = c BY <2>0, <2>8 DEF TypeOK, JobType
    <3> QED BY <3>1, <3>2
  <2> QED BY <2>6, <2>7, <2>8
<1>3. [][Answers]_rvars => AnswersTheRequest BY DEF AnswersTheRequest
<1> HIDE DEF Answers
<1> QED BY <1>1, <1>2, <1>3, SoleInvariance, PTL DEF RSpec
============================================================================
