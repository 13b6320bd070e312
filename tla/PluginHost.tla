----------------------------- MODULE PluginHost -----------------------------
(***************************************************************************)
(* fvd's plugin host. At start fvd launches every installed plugin, one    *)
(* after the other: it spawns the plugin's sidecar on a socket named after *)
(* the binary, dials it, asks it to describe itself, and indexes the       *)
(* services it claims. Only then does fvd listen. From then on it forwards *)
(* each call to the sidecar that the index names; nothing ever updates the *)
(* index. The GUI installs plugins meanwhile, for the next start.          *)
(***************************************************************************)
EXTENDS Naturals, FiniteSets, Functions

CONSTANTS
  Plugins,      \* the plugins there may be, one directory each
  Id,           \* the id a plugin's sidecar reports
  Stem,         \* the file stem of its sidecar, which names its socket
  Services,     \* the services it claims to implement
  Installs,     \* the plugins installed while fvd is there, or installed again
  Elsewhere,    \* the plugins whose sidecar is also next to fvd or on the PATH
  PluginFaults, \* "silent": a sidecar never serves; "hang": it never answers;
                \* "unhealthy": it says so; "die": it dies; "crash": fvd or an
                \* installation dies
  MaxStarts,    \* bound on the starts of fvd
  NoPlugin      \* no plugin, no id, nothing bound

ASSUME PluginHostConstants ==
  /\ {DOMAIN Id, DOMAIN Stem, DOMAIN Services} = {Plugins} /\ Installs \cup Elsewhere \subseteq Plugins
  /\ PluginFaults \subseteq {"silent", "hang", "unhealthy", "die", "crash"}
  /\ MaxStarts \in Nat \ {0} /\ NoPlugin \notin Plugins

Ids == Range(Id)
Stems == Range(Stem)
AllServices == UNION Range(Services)

VARIABLES
  binary,    \* the plugins whose sidecar is staged and executable
  torn,      \* those of whose sidecar only a part is there
  manifest,  \* those with a readable manifest beside it
  staging,   \* those whose installation has begun and not written the manifest yet
  fvd,       \* "down", "launching" or "serving"
  entries,   \* directories fvd has not come to yet
  current,   \* the plugin it is launching
  step,      \* "dial", "describe", or "hung" if Describe will never be answered
  alive,     \* the sidecars that run, fvd's or left over from an earlier one
  socket,    \* each socket path: the sidecar that has bound it
  routes,    \* service -> plugin id
  plugins,   \* plugin id -> the plugin whose sidecar holds that id's channel
  starts

hostVars == <<binary, torn, manifest, staging, fvd, entries, current, step, alive, socket,
          routes, plugins, starts>>
files == <<binary, torn, manifest, staging>>
registry == <<routes, plugins>>
launch == <<entries, current, step>>

HostTypeOK ==
  /\ {binary, torn, manifest, staging, entries, alive} \subseteq SUBSET Plugins
  /\ binary \cap torn = {}
  /\ fvd \in {"down", "launching", "serving"}
  /\ current \in Plugins \cup {NoPlugin} /\ step \in {"none", "dial", "describe", "hung"}
  /\ current = NoPlugin <=> step = "none"
  /\ socket \in [Stems -> Plugins \cup {NoPlugin}]
  /\ routes \in [AllServices -> Ids \cup {NoPlugin}]
  /\ plugins \in [Ids -> Plugins \cup {NoPlugin}]
  /\ starts \in 0..MaxStarts

Nothing == /\ routes = [s \in AllServices |-> NoPlugin] /\ plugins = [i \in Ids |-> NoPlugin]

HostInit ==
  /\ binary \in SUBSET Plugins /\ manifest = binary /\ torn = {} /\ staging = {}
  /\ fvd = "down" /\ entries = {} /\ current = NoPlugin /\ step = "none"
  /\ alive = {} /\ socket = [t \in Stems |-> NoPlugin]
  /\ Nothing /\ starts = 0
----------------------------------------------------------------------------
(***************************************************************************)
(* install.                                                                *)
(***************************************************************************)
\* The copy empties the sidecar that is there, if the plugin is installed already.
Stage(p) ==
  /\ p \notin staging
  /\ staging' = staging \cup {p} /\ torn' = torn \cup {p} /\ binary' = binary \ {p}
  /\ UNCHANGED <<manifest, fvd, launch, alive, socket, registry, starts>>

Staged(p) ==
  /\ p \in staging \cap torn
  /\ torn' = torn \ {p} /\ binary' = binary \cup {p}
  /\ UNCHANGED <<manifest, staging, fvd, launch, alive, socket, registry, starts>>

WriteManifest(p) ==
  /\ p \in staging \cap binary
  /\ staging' = staging \ {p} /\ manifest' = manifest \cup {p}
  /\ UNCHANGED <<binary, torn, fvd, launch, alive, socket, registry, starts>>

\* It can leave half a sidecar, or half a manifest, which nothing can decode.
InstallDies(p) ==
  /\ "crash" \in PluginFaults /\ p \in staging
  /\ staging' = staging \ {p}
  /\ manifest' \in {manifest} \cup (IF p \in binary THEN {manifest \ {p}} ELSE {})
  /\ UNCHANGED <<binary, torn, fvd, launch, alive, socket, registry, starts>>
----------------------------------------------------------------------------
(***************************************************************************)
(* launch_installed and launch_sidecar.                                    *)
(***************************************************************************)
StartFvd ==
  /\ fvd = "down" /\ starts < MaxStarts
  /\ fvd' = "launching" /\ entries' = manifest /\ starts' = starts + 1
  /\ routes' = [s \in AllServices |-> NoPlugin] /\ plugins' = [i \in Ids |-> NoPlugin]
  /\ UNCHANGED <<files, current, step, alive, socket>>

\* The sidecar staged beside the manifest, or else the one found elsewhere.
Located(p) == p \in binary \/ (p \notin torn /\ p \in Elsewhere)

\* The socket file is removed before the sidecar is spawned, even if it does not
\* spawn since only a part of it is there; an older sidecar of the same plugin, if
\* one is left, runs on without it. (One process per plugin is enough to tell who
\* answers.)
Spawn(p) ==
  /\ fvd = "launching" /\ current = NoPlugin /\ p \in entries
  /\ entries' = entries \ {p}
  /\ IF Located(p)
     THEN /\ current' = p /\ step' = "dial"
          /\ alive' = alive \cup {p}
     ELSE UNCHANGED <<current, step, alive>>
  /\ socket' = IF Located(p) \/ p \in torn THEN [socket EXCEPT ![Stem[p]] = NoPlugin] ELSE socket
  /\ UNCHANGED <<files, fvd, registry, starts>>

\* The sidecar binds its socket, and the dial that was being retried succeeds.
Dial ==
  /\ step = "dial" /\ current \in alive
  /\ socket' = [socket EXCEPT ![Stem[current]] = current]
  /\ step' = "describe"
  /\ UNCHANGED <<files, fvd, entries, current, alive, registry, starts>>

Abandon == current' = NoPlugin /\ step' = "none"

\* fvd waits for an answer to Describe without any limit.
Hang ==
  /\ "hang" \in PluginFaults /\ step = "describe" /\ current \in alive
  /\ step' = "hung"
  /\ UNCHANGED <<files, fvd, entries, current, alive, socket, registry, starts>>

Failing ==
  \/ step # "none" /\ current \notin alive
  \/ step = "dial" /\ "silent" \in PluginFaults
  \/ step = "describe" /\ "unhealthy" \in PluginFaults

\* Mutant of LaunchFails: the launch is tried again.
LaunchAgain ==
  /\ Failing
  /\ Abandon
  /\ entries' = entries \cup {current}
  /\ UNCHANGED <<files, fvd, alive, socket, registry, starts>>

\* fvd gives up on a sidecar; the process is not killed.
LaunchFails ==
  /\ Failing
  /\ Abandon
  /\ UNCHANGED <<files, fvd, entries, alive, socket, registry, starts>>

\* Mutant of Register: the plugin takes the services of all manifests.
RegisterAll ==
  /\ step = "describe" /\ current \in alive
  /\ routes' = [s \in AllServices |-> Id[current]]
  /\ plugins' = [plugins EXCEPT ![Id[current]] = current]
  /\ Abandon
  /\ UNCHANGED <<files, fvd, entries, alive, socket, starts>>

Register ==
  /\ step = "describe" /\ current \in alive
  /\ routes' = [s \in AllServices |-> IF s \in Services[current] THEN Id[current] ELSE routes[s]]
  /\ plugins' = [plugins EXCEPT ![Id[current]] = current]
  /\ Abandon
  /\ UNCHANGED <<files, fvd, entries, alive, socket, starts>>

Serve ==
  /\ fvd = "launching" /\ current = NoPlugin /\ entries = {}
  /\ fvd' = "serving"
  /\ UNCHANGED <<files, launch, alive, socket, registry, starts>>

\* fvd dies, or is stopped by an update: its sidecars are not children it reaps.
FvdDies ==
  /\ "crash" \in PluginFaults /\ fvd # "down"
  /\ fvd' = "down" /\ entries' = {} /\ Abandon
  /\ UNCHANGED <<files, alive, socket, registry, starts>>

SidecarDies(p) ==
  /\ "die" \in PluginFaults /\ p \in alive
  /\ alive' = alive \ {p}
  /\ UNCHANGED <<files, fvd, launch, socket, registry, starts>>

LaunchStep ==
  \/ \E p \in Plugins : Spawn(p)
  \/ Dial
  \/ LaunchFails
  \/ Register
  \/ Serve
----------------------------------------------------------------------------
(***************************************************************************)
(* route: what answers a call of service s.                                *)
(***************************************************************************)
Channel(s) == IF routes[s] = NoPlugin THEN NoPlugin ELSE plugins[routes[s]]

\* A channel that lost its sidecar dials the socket path again.
Answering(p) == IF p \in alive THEN p ELSE socket[Stem[p]]

Reaches(s) ==
  IF Channel(s) = NoPlugin THEN NoPlugin
  ELSE LET q == Answering(Channel(s)) IN IF q \in alive THEN q ELSE NoPlugin

HostNext ==
  \/ StartFvd \/ LaunchStep \/ Hang \/ FvdDies
  \/ \E p \in Installs : Stage(p) \/ Staged(p) \/ WriteManifest(p) \/ InstallDies(p)
  \/ \E p \in Plugins : SidecarDies(p)

\* fvd's launch goes on.
HostSpec == HostInit /\ [][HostNext]_hostVars /\ WF_hostVars(LaunchStep)
----------------------------------------------------------------------------
(***************************************************************************)
(* Properties.                                                             *)
(***************************************************************************)

\* No other plugin reports its id, or has its sidecar named alike.
Unique(p) == \A q \in Plugins \ {p} : Id[q] # Id[p] /\ Stem[q] # Stem[p]

\* QueryRPC: a call reaches a sidecar that implements its service, or none, even
\* after restarts of fvd that left sidecars behind; two plugins with one id or one
\* socket are taken for one another.
RoutesToImplementer ==
  fvd = "serving" =>
    \A s \in AllServices :
      Reaches(s) # NoPlugin /\ Unique(Channel(s)) => s \in Services[Reaches(s)]

\* fvd comes up however many plugins fail to, unless one hangs.
FvdServes == fvd = "launching" ~> fvd # "launching" \/ step = "hung"
============================================================================
