----------------------------- MODULE DaemonProofs -----------------------------
(***************************************************************************)
(* Proofs about fvd's two ends. DaemonSocket, for any clients, daemons,    *)
(* retries and runs and any faults: the types, that one daemon serves, and *)
(* that the path ends up naming one that does. PluginHost, for any         *)
(* plugins, ids, stems and services and any faults: the types, and where a *)
(* call is routed.                                                         *)
(***************************************************************************)
EXTENDS DaemonSocket, PluginHost, TLAPS, FiniteSetTheorems

(***************************************************************************)
(* The channel: clients that dial and start fvd, daemons that bind.        *)
(***************************************************************************)

\* While clients take turns and launchd starts fvd when there is none: at most one
\* client tries and at most one daemon is up or coming up, at most one of the two
\* before the client spawns it, and the path is that of the one that serves.
TurnsInv ==
  "overlap" \notin met =>
    /\ \A b, c \in Trying : b = c
    /\ \A d, e \in Coming \cup Serving : d = e
    /\ Serving # {} => path \in Serving
    /\ \A c \in Clients : /\ client[c] = "dial" => Coming = {}
                          /\ client[c] = "spawn" => Coming = {} /\ Serving = {}

\* While no daemon dies, a path that names none that serves was there before any
\* did, and a path that is gone was removed by a daemon about to bind.
PathInv ==
  "crash" \notin met =>
    /\ path # None => path \in Serving \/ Serving = {}
    /\ path = None => Serving = {} \/ \E d \in Daemons : daemon[d] = "bind"

Inv == TypeOK /\ TurnsInv /\ PathInv

LEMMA StartedType == Unstarted # {} => Started \in Unstarted
BY DEF Started

LEMMA InvInit == Init => Inv
<1> SUFFICES ASSUME Init PROVE Inv
  OBVIOUS
<1> USE SocketConstants DEF Init
<1>1. path \in Daemons \cup {None} OBVIOUS
<1>2. \A d \in Daemons : daemon[d] \in {"off", "dead"} OBVIOUS
<1>3. daemon \in [Daemons -> {"off", "launch", "check", "remove", "bind", "serving", "dead"}]
  OBVIOUS
<1>4. TypeOK BY <1>1, <1>3 DEF TypeOK
<1>5. Serving = {} /\ Coming = {} /\ Trying = {} BY <1>2 DEF Serving, Coming, Trying
<1>6. TurnsInv BY <1>5 DEF TurnsInv
<1> QED BY <1>4, <1>5, <1>6 DEF Inv, PathInv

LEMMA TypeStep == TypeOK /\ [Next]_vars => TypeOK'
<1> SUFFICES ASSUME TypeOK, [Next]_vars PROVE TypeOK'
  OBVIOUS
<1> USE SocketConstants DEF TypeOK, ClientAt, DaemonAt, Meet
<1>1. ASSUME NEW c \in Clients, Run(c) PROVE TypeOK' BY <1>1 DEF Run, Overlap
<1>2. ASSUME NEW c \in Clients, Connect(c) \/ DialFails(c) PROVE TypeOK'
  BY <1>2 DEF Connect, DialFails
<1>3. ASSUME NEW c \in Clients, SpawnFvd(c) PROVE TypeOK'
  BY <1>3, StartedType DEF SpawnFvd, Unstarted
<1>4. ASSUME NEW c \in Clients, SpawnFails(c) PROVE TypeOK' BY <1>4 DEF SpawnFails
<1>5. ASSUME NEW c \in Clients, RetryFails(c) PROVE TypeOK' BY <1>5 DEF RetryFails
<1>6. ASSUME NEW c \in Clients, GiveUp(c) PROVE TypeOK'
  <2>1. met' \subseteq Faults \cup {"overlap"} BY <1>6 DEF GiveUp
  <2> QED BY <1>6, <2>1 DEF GiveUp
<1>7. ASSUME NEW d \in Daemons, AgentStarts(d) PROVE TypeOK'
  BY <1>7 DEF AgentStarts, Overlap
<1>8. ASSUME NEW d \in Daemons, DaemonStep(d) PROVE TypeOK'
  BY <1>8 DEF DaemonStep, PluginsLaunched, CheckPath, RemoveSocket, BindSocket
<1>9. ASSUME NEW d \in Daemons, Die(d) PROVE TypeOK' BY <1>9 DEF Die
<1>10. CASE UNCHANGED vars BY <1>10 DEF vars
<1> QED
  BY <1>1, <1>2, <1>3, <1>4, <1>5, <1>6, <1>7, <1>8, <1>9, <1>10 DEF Next, ClientStep

\* Turns: an overlap is noted, so each step starts from one trying client or none.
LEMMA TurnsStep == Inv /\ [Next]_vars => TurnsInv'
<1> SUFFICES ASSUME Inv, [Next]_vars, "overlap" \notin met' PROVE TurnsInv'
  BY DEF TurnsInv
<1>1. "overlap" \notin met
  BY DEF Next, ClientStep, DaemonStep, Run, Connect, DialFails, SpawnFvd, SpawnFails, RetryFails,
     GiveUp, AgentStarts, PluginsLaunched, CheckPath, RemoveSocket, BindSocket, Die, Meet, vars
<1> USE <1>1, SocketConstants
        DEF Inv, TypeOK, TurnsInv, Trying, Coming, Serving, Answers, ClientAt, DaemonAt, Meet
<1>2. ASSUME NEW c \in Clients, Run(c) PROVE TurnsInv'
  <2>1. Trying = {} /\ Coming = {} BY <1>2 DEF Run, Overlap
  <2> QED BY <1>2, <2>1 DEF Run
<1>3. ASSUME NEW c \in Clients, Connect(c) PROVE TurnsInv' BY <1>3 DEF Connect
<1>4. ASSUME NEW c \in Clients, DialFails(c) PROVE TurnsInv' BY <1>4 DEF DialFails
<1>5. ASSUME NEW c \in Clients, SpawnFvd(c) PROVE TurnsInv'
  <2>1. Started \in Daemons BY <1>5, StartedType DEF SpawnFvd, Unstarted
  <2>2. Coming = {} /\ Serving = {} /\ Trying = {c} BY <1>5 DEF SpawnFvd
  <2>3. \A d \in Daemons : daemon'[d] = IF d = Started THEN "launch" ELSE daemon[d]
    BY <1>5 DEF SpawnFvd
  <2>4. Coming' = {Started} /\ Serving' = {} BY <2>1, <2>2, <2>3
  <2>5. Trying' = {c} /\ client'[c] = "retry" BY <1>5, <2>2 DEF SpawnFvd
  <2> QED BY <2>4, <2>5
<1>6. ASSUME NEW c \in Clients, SpawnFails(c) PROVE TurnsInv' BY <1>6 DEF SpawnFails
<1>7. ASSUME NEW c \in Clients, RetryFails(c) PROVE TurnsInv' BY <1>7 DEF RetryFails
<1>8. ASSUME NEW c \in Clients, GiveUp(c) PROVE TurnsInv' BY <1>8 DEF GiveUp
<1>9. ASSUME NEW d \in Daemons, AgentStarts(d) PROVE TurnsInv'
  <2>1. Serving = {} /\ Coming = {} /\ Trying = {} BY <1>9 DEF AgentStarts, Overlap
  <2>2. Coming' = {d} /\ Serving' = {} /\ Trying' = {} BY <1>9, <2>1 DEF AgentStarts
  <2> QED BY <2>2
<1>10. ASSUME NEW d \in Daemons, PluginsLaunched(d) \/ CheckPath(d) PROVE TurnsInv'
  <2>1. Coming' = Coming /\ Serving' = Serving /\ Trying' = Trying
    BY <1>10 DEF PluginsLaunched, CheckPath
  <2> QED BY <1>10, <2>1 DEF PluginsLaunched, CheckPath
<1>11. ASSUME NEW d \in Daemons, RemoveSocket(d) PROVE TurnsInv'
  <2>1. Coming' = Coming /\ Serving' = Serving /\ Trying' = Trying /\ d \in Coming
    BY <1>11 DEF RemoveSocket
  <2>2. Serving = {} BY <2>1
  <2> QED BY <1>11, <2>1, <2>2 DEF RemoveSocket
<1>12. ASSUME NEW d \in Daemons, BindSocket(d) PROVE TurnsInv'
  <2>1. Coming = {d} /\ Serving = {} /\ client' = client BY <1>12 DEF BindSocket
  <2>2. Coming' = {} BY <1>12, <2>1 DEF BindSocket
  <2>3. \/ Serving' = {}
        \/ Serving' = {d} /\ path' = d
    BY <1>12, <2>1 DEF BindSocket
  <2>4. \A c \in Clients : client[c] # "spawn" BY <2>1
  <2> QED BY <2>1, <2>2, <2>3, <2>4
<1>13. ASSUME NEW d \in Daemons, Die(d) PROVE TurnsInv'
  <2>1. Coming' = Coming \ {d} /\ Serving' = Serving \ {d} BY <1>13 DEF Die
  <2> QED BY <1>13, <2>1 DEF Die
<1>14. CASE UNCHANGED vars BY <1>14 DEF vars
<1> QED
  BY <1>2, <1>3, <1>4, <1>5, <1>6, <1>7, <1>8, <1>9, <1>10, <1>11, <1>12, <1>13, <1>14
  DEF Next, ClientStep, DaemonStep

\* The path: only daemons that come up touch it.
LEMMA PathStep == Inv /\ [Next]_vars => PathInv'
<1> SUFFICES ASSUME Inv, [Next]_vars, "crash" \notin met' PROVE PathInv'
  BY DEF PathInv
<1>1. "crash" \notin met
  BY DEF Next, ClientStep, DaemonStep, Run, Connect, DialFails, SpawnFvd, SpawnFails, RetryFails,
     GiveUp, AgentStarts, PluginsLaunched, CheckPath, RemoveSocket, BindSocket, Die, Meet, vars
<1> USE <1>1, SocketConstants DEF Inv, TypeOK, PathInv, Serving, DaemonAt, Meet
<1>2. CASE UNCHANGED <<path, daemon>> BY <1>2
<1>3. ASSUME NEW c \in Clients, SpawnFvd(c) PROVE PathInv'
  BY <1>3, StartedType DEF SpawnFvd, Unstarted
<1>4. ASSUME NEW d \in Daemons, AgentStarts(d) PROVE PathInv' BY <1>4 DEF AgentStarts
<1>5. ASSUME NEW d \in Daemons, PluginsLaunched(d) \/ CheckPath(d) PROVE PathInv'
  BY <1>5 DEF PluginsLaunched, CheckPath
<1>6. ASSUME NEW d \in Daemons, RemoveSocket(d) PROVE PathInv' BY <1>6 DEF RemoveSocket
<1>7. ASSUME NEW d \in Daemons, BindSocket(d) PROVE PathInv' BY <1>7 DEF BindSocket
<1>8. ASSUME NEW d \in Daemons PROVE ~Die(d) BY DEF Die
<1> QED
  BY <1>2, <1>3, <1>4, <1>5, <1>6, <1>7, <1>8 DEF Next, ClientStep, DaemonStep, Run, Connect,
     DialFails, SpawnFails, RetryFails, GiveUp, vars
----------------------------------------------------------------------------
LEMMA Invariance == Spec => []Inv
<1>1. Inv /\ [Next]_vars => Inv' BY TypeStep, TurnsStep, PathStep DEF Inv
<1> QED BY <1>1, InvInit, PTL DEF Spec

\* The types of the path, the daemons and the clients.
THEOREM ChannelTypeCorrect == Spec => []TypeOK
<1>1. Inv => TypeOK BY DEF Inv
<1> QED BY <1>1, Invariance, PTL

\* For any number of clients, daemons and retries: two daemons never serve at once
\* as long as no two starts overlap, whatever dies or is missing.
THEOREM OneOwner == Spec => []SingleOwner
<1>1. Inv => SingleOwner
  <2> SUFFICES ASSUME Inv, "overlap" \notin met PROVE Cardinality(Serving) <= 1
    BY DEF SingleOwner
  <2>1. CASE Serving = {} BY <2>1, FS_EmptySet
  <2>2. CASE Serving # {}
    <3>1. PICK d \in Serving : TRUE BY <2>2
    <3>2. Serving = {d} BY <3>1 DEF Inv, TurnsInv
    <3> QED BY <3>2, FS_Singleton
  <2> QED BY <2>1, <2>2
<1> QED BY <1>1, Invariance, PTL

\* However many daemons race for the path, overlapping or not: outside a takeover
\* it names one that serves, if any does and none has died.
THEOREM PathAnswers == Spec => []SomeoneAnswers
<1>1. Inv => SomeoneAnswers BY DEF Inv, PathInv, SomeoneAnswers, Answers
<1> QED BY <1>1, Invariance, PTL

----------------------------------------------------------------------------
(***************************************************************************)
(* The plugin host behind it.                                              *)
(***************************************************************************)

\* The index: a route was claimed by a plugin of that id, a channel is held by one
\* of its id, and a socket is bound by one that is named after it.
IndexInv ==
  /\ \A s \in AllServices :
       routes[s] # NoPlugin => \E p \in Plugins : Id[p] = routes[s] /\ s \in Services[p]
  /\ \A i \in Ids : plugins[i] # NoPlugin => Id[plugins[i]] = i
  /\ \A t \in Stems : socket[t] # NoPlugin => Stem[socket[t]] = t

HostInv == HostTypeOK /\ IndexInv

LEMMA ByPlugin ==
  /\ DOMAIN Id = Plugins /\ DOMAIN Stem = Plugins /\ DOMAIN Services = Plugins
  /\ \A p \in Plugins : Id[p] \in Ids /\ Stem[p] \in Stems /\ Services[p] \subseteq AllServices
<1>1. DOMAIN Id = Plugins /\ DOMAIN Stem = Plugins /\ DOMAIN Services = Plugins
  BY PluginHostConstants
<1>2. \A p \in Plugins : Services[p] \subseteq AllServices BY <1>1 DEF AllServices, Range
<1> QED BY <1>1, <1>2 DEF Ids, Stems, Range

LEMMA HostInvInit == HostInit => HostInv
BY PluginHostConstants DEF HostInit, Nothing, HostInv, HostTypeOK, IndexInv

LEMMA HostTypeStep == HostTypeOK /\ [HostNext]_hostVars => HostTypeOK'
<1> SUFFICES ASSUME HostTypeOK, [HostNext]_hostVars PROVE HostTypeOK'
  OBVIOUS
<1> USE ByPlugin, PluginHostConstants DEF HostTypeOK, files, registry, launch, Abandon
<1>1. CASE StartFvd BY <1>1 DEF StartFvd
<1>2. ASSUME NEW p \in Plugins, Spawn(p) PROVE HostTypeOK'
  <2>1. CASE Located(p) BY <1>2, <2>1 DEF Spawn
  <2>2. CASE ~Located(p) BY <1>2, <2>2 DEF Spawn
  <2> QED BY <2>1, <2>2
<1>3. CASE Dial
  <2>1. current \in Plugins BY <1>3 DEF Dial
  <2> QED BY <1>3, <2>1 DEF Dial
<1>4. CASE LaunchFails BY <1>4 DEF LaunchFails
<1>5. CASE Register
  <2>1. current \in Plugins BY <1>5 DEF Register
  <2>2. routes' \in [AllServices -> Ids \cup {NoPlugin}] BY <1>5, <2>1 DEF Register
  <2>3. plugins' \in [Ids -> Plugins \cup {NoPlugin}] BY <1>5, <2>1 DEF Register
  <2> QED BY <1>5, <2>2, <2>3 DEF Register
<1>6. CASE Serve BY <1>6 DEF Serve
<1>7. CASE Hang BY <1>7 DEF Hang
<1>8. CASE FvdDies BY <1>8 DEF FvdDies
<1>9. ASSUME NEW p \in Installs, Stage(p) PROVE HostTypeOK' BY <1>9 DEF Stage
<1>10. ASSUME NEW p \in Installs, Staged(p) PROVE HostTypeOK' BY <1>10 DEF Staged
<1>11. ASSUME NEW p \in Installs, WriteManifest(p) PROVE HostTypeOK' BY <1>11 DEF WriteManifest
<1>12. ASSUME NEW p \in Installs, InstallDies(p) PROVE HostTypeOK' BY <1>12 DEF InstallDies
<1>13. ASSUME NEW p \in Plugins, SidecarDies(p) PROVE HostTypeOK' BY <1>13 DEF SidecarDies
<1>14. CASE UNCHANGED hostVars BY <1>14 DEF hostVars
<1> QED
  BY <1>1, <1>2, <1>3, <1>4, <1>5, <1>6, <1>7, <1>8, <1>9, <1>10, <1>11, <1>12, <1>13, <1>14
  DEF HostNext, LaunchStep

\* Only a start of fvd, a spawn, a dial and a registration touch the index.
LEMMA IndexStep == HostInv /\ [HostNext]_hostVars => IndexInv'
<1> SUFFICES ASSUME HostInv, [HostNext]_hostVars PROVE IndexInv'
  OBVIOUS
<1> USE ByPlugin, PluginHostConstants DEF HostInv, HostTypeOK, IndexInv
<1>1. CASE StartFvd BY <1>1 DEF StartFvd
<1>2. ASSUME NEW p \in Plugins, Spawn(p) PROVE IndexInv'
  <2>1. socket' = socket \/ socket' = [socket EXCEPT ![Stem[p]] = NoPlugin] BY <1>2 DEF Spawn
  <2> QED BY <1>2, <2>1 DEF Spawn, registry
<1>3. CASE Dial
  <2>1. current \in Plugins BY <1>3 DEF Dial
  <2> QED BY <1>3, <2>1 DEF Dial, registry
<1>4. CASE Register
  <2>1. current \in Plugins BY <1>4 DEF Register
  <2>2. \A s \in AllServices :
          routes'[s] = IF s \in Services[current] THEN Id[current] ELSE routes[s]
    BY <1>4 DEF Register
  <2>3. plugins' = [plugins EXCEPT ![Id[current]] = current] /\ socket' = socket
    BY <1>4 DEF Register
  <2> QED BY <2>1, <2>2, <2>3
<1>5. CASE UNCHANGED <<registry, socket>> BY <1>5 DEF registry
<1> QED
  BY <1>1, <1>2, <1>3, <1>4, <1>5 DEF HostNext, LaunchStep, LaunchFails, Serve, Hang, FvdDies, Stage,
     Staged, WriteManifest, InstallDies, SidecarDies, hostVars, launch
----------------------------------------------------------------------------
LEMMA HostInvariance == HostSpec => []HostInv
<1>1. HostInv /\ [HostNext]_hostVars => HostInv' BY HostTypeStep, IndexStep DEF HostInv
<1> QED BY <1>1, HostInvInit, PTL DEF HostSpec

\* The types of fvd's index, its launch, and the installed plugins.
THEOREM PluginsTypeCorrect == HostSpec => []HostTypeOK
<1>1. HostInv => HostTypeOK BY DEF HostInv
<1> QED BY <1>1, HostInvariance, PTL

\* However many plugins there are, and whatever they claim, fail at and leave
\* behind: a call reaches a sidecar that implements its service, or none.
THEOREM RoutedToImplementer == HostSpec => []RoutesToImplementer
<1>1. HostInv => RoutesToImplementer
  <2> SUFFICES ASSUME HostInv, NEW s \in AllServices, Reaches(s) # NoPlugin, Unique(Channel(s))
               PROVE  s \in Services[Reaches(s)]
    BY DEF RoutesToImplementer
  <2> USE ByPlugin, PluginHostConstants DEF HostInv, HostTypeOK, IndexInv
  <2> DEFINE q == Channel(s)
  <2>1. routes[s] \in Ids /\ q \in Plugins /\ q = plugins[routes[s]] BY DEF Reaches, Channel
  <2>2. Id[q] = routes[s] BY <2>1
  <2>3. PICK p \in Plugins : Id[p] = routes[s] /\ s \in Services[p] BY <2>1 DEF Reaches, Channel
  <2>4. p = q BY <2>1, <2>2, <2>3 DEF Unique
  <2>5. Reaches(s) = Answering(q) /\ Answering(q) \in alive BY DEF Reaches
  <2>6. Answering(q) = q \/ (Answering(q) \in Plugins /\ Stem[Answering(q)] = Stem[q])
    BY <2>1, <2>5 DEF Answering
  <2>7. Answering(q) = q BY <2>1, <2>6 DEF Unique
  <2> QED BY <2>3, <2>4, <2>5, <2>7
<1> QED BY <1>1, HostInvariance, PTL
==============================================================================
