# fvkit, verified

TLA+ modules, TLC runs and TLAPS proofs for fvkit: the `fvd` daemon, the libraries behind it
(`crates/fvkit-core`, `crates/fvkit-bazel`) and the clients that share its state (the `fv` tool,
the menu-bar app, the Bazel credential helper). Paths below are relative to the repository's root;
`core/` stands for `crates/fvkit-core/src/`, `bazel/` for `crates/fvkit-bazel/src/` and `daemon/`
for `app/daemon/src/`.

fvkit calls fvd the single owner of mutable state, but nearly all of that state is files, keychain
items, directories, volumes and processes, which several programs reach and nothing locks. The
modules therefore cut each operation into the steps the rest of the world can come between: one read
of a file, one truncation, one external command, one dial. A promise of a comment is stated as a
property of those steps, and where the code keeps it only up to some event, the property names that
event; the events are collected under [Where the code parts from what it says](#where-the-code-parts-from-what-it-says).

## The system

| Part | State | Operations | What is hard about it |
|---|---|---|---|
| Connection registry (`core/connections.rs`, `secretstore.rs`, `credstore.rs`) | one protobuf file; keychain items; environment variables | `connect`, `disconnect`, `resolve`, `explain`, `load`, `save`, `persist` | unlocked read-modify-write from several processes, ids that two instances share, truncating saves, secrets and entries changed one after the other, backends that fail; a diagnosis that mirrors the hot path in code of its own |
| Request URI (`core/uri.rs`) | none | `parse_request_uri`, `host_of`, `path_of` | user info, ports, IPv6, queries and escapes around the host that decides who gets the secret |
| OAuth device flow (`core/oauth.rs`) | the poll interval, the device code on the server | `device_flow` (`refresh` is never called) | slow-downs, expiry, one lost answer among many polls, errors of other kinds |
| Identity (`core/identity.rs`, the PKCE half of `oauth.rs`, `daemon/auth.rs`) | the access token, the id_token, the registry entry, the redirect port | `login`, `logout`, `whoami`, `token` | one fixed port for all logins, tabs of earlier logins, a half-failed login, a tab nobody answers, a connection that says nothing |
| Client channel and daemon start (`core/ipc.rs`, `service.rs`, `daemon/main.rs`, `server.rs`) | the socket path, the daemon processes | `connect_channel_default`, `spawn_fvd`, `bind`, `serve` | several clients and launchd starting daemons for one path; time-outs racing late starts |
| Plugin host (`daemon/plugins.rs`, `server.rs`) | staged binaries and manifests, sidecar processes and sockets, the routes | `install`, `resolve_binary`, `launch_installed`, `launch_sidecar`, `route` | sidecars that are silent, hang, are unhealthy or die, and that outlive fvd; ids and socket names that clash; a reinstall under a running one |
| Scheduler (`daemon/sched.rs`) | where its cycle is, the last version notified of | one tick: sync, maintenance, update check | one step after the other, each of which may fail or hang, beside the RPCs that run them too |
| Maintenance (`bazel/maintain.rs`) | Bazel's disk cache and output bases, git's worktree entries | `run`: disk-cache-gc, output-base-gc, git-gc, worktree-prune | Bazel and other runners change the files during a run; volumes that are away; interrupted removals |
| Repository sync (`core/repos.rs`) | the checkouts, their worktrees and branches | `sync_sources`, `sync_one`, `worktree_add`, `worktree_remove`, `status` | the user works in the checkouts; git fails; names clash; a source that cannot be listed, or not in full; a half clone |
| Managed volumes (`bazel/volume.rs`) | volumes and mount points | `audit`, `create` | a prompt that stays open for minutes between the check and the act; a script that fails midway; unmounted volumes |
| Managed bazelrc region (`bazel/bazelrc.rs`) | `~/.bazelrc` | `splice`, `apply` | the user edits the file; markers are lost or reversed; a read that fails |
| Self-update (`core/update.rs`) | the app bundle, the fvd process | `check`, `apply` | replaces the program that runs it; a copy that fails; two updates at once |
| Configuration, service plist, Bazel tool paths, notifications, front ends | none, or one file written once | parsing, rendering, one process spawn | string handling, mostly |

How they interact. The gRPC handlers of `daemon/server.rs` call one library function each, some on a
blocking thread, others (`get_credentials`, `disconnect`, `bazelrc_apply`, `maintain_now`, `run_task`,
`worktree_add`) on a worker of the async runtime, which has several; either way handlers overlap. The CLI and
the GUI call the same functions in their own processes.
A credential request goes through the URI parser to the registry; a connect of an OAuth provider goes
through the device flow to the registry's `persist`, as the identity login does, whose logout ends in
`disconnect`. The scheduler calls sync, maintenance and the update check in turn. An update kills fvd;
fvd's death leaves its sidecars behind and its socket file on disk; the next start removes the file,
launches the plugins, and only then serves.

## The modules

Each component is a module of its own with its constants and assumptions, one action per step, and its
properties at the end; an `MC` module gives the instances TLC checks, and a `Proofs` module holds the
theorems. Definitions called mutants stand before the definition they are a plausible bug of: each
property is known to fail for at least one.

| Module | Models | Notes on the correspondence |
|---|---|---|
| `Connections` | the registry file and the secrets under `connect`, `disconnect`, `resolve` | A connection is reduced to id, matched hosts, secret locations and the legacy keychain item. The file is a set of ranked entries, `file.readable` says whether it decodes. `fs::write` is two steps, and `Overwritten` is what the second leaves in a file another writer filled in between. `Shares` is whether two connections keep their secret in one keychain item. `committed`, `promise` and `stored` are history |
| `ConnectionStore` | what the three operations promise, each in one step | abstract specification; no code of its own. `Connections!ImplementsStore` is the refinement |
| `ProviderPresets` | `preset`, host matching, env variable and keychain item names, which providers have a device endpoint and a client id | a host is the sequence of its labels (`LabelsOf`), so that suffix matching is one on sequences |
| `DeviceFlow` | `device_flow` against an authorization server | one action per request, answer or sleep; `interval` is the client's pace, `atLeast` the server's. `upset` is history: a request or its answer was lost, or answered with an error that says nothing of the code (`AnsweredOtherwise`) |
| `Uri` | `parse_request_uri`, `host_of`, `path_of` | a request is a sequence of pieces (delimiters, escapes and words) rather than characters; every split and search of the code is one on pieces |
| `Resolution` | the registry with its callers: request → URI → `resolve` or `explain`; provider → device flow → `connect` | composes `Connections` and `ProviderPresets` (by EXTENDS) with `DeviceFlow` and `Uri` (by INSTANCE). `asked` keeps next to what the program made of a request what the request is, and whether it is one of the two kinds that are read wrong (`bare`, `slashed`) |
| `Identity` | login, logout, what `Token` and `WhoAmI` read | The port's backlog is a queue, a tab is the nonce (`state`) it was opened with. Accepting a connection and reading its line are two steps; a silent connection has sent none, and may be one the browser uses later or one that never ends (`StrayConnection`, `Send`, `HangUp`). The registry is one value here; its steps are in `Connections`. `whole` is history: no operation stopped between its two stores, none overlapped another |
| `DaemonSocket` | clients, daemons and the socket path | 50 retries are a constant; "slow" lets the launch of plugins outlast them. `met` is history: the faults that have happened, and "overlap" once clients did not take turns |
| `PluginHost` | installation and reinstallation, the search for a binary, launch, routing, deaths | a sidecar's reported id, its socket name and its services are functions of the plugin, so clashes can be configured; `Elsewhere` are the plugins whose binary fvd's directory or PATH holds too |
| `DiskCacheGc` | the trim of the disk cache | the walk meets files one at a time; Bazel's additions and uses are actions. `met` is history: a file refused, or two runs that evict overlapped |
| `OutputBaseGc` | the removal of orphaned output bases | a base is whole, without its marker, or gone; the volume of the workspaces can be away. `since` is history: what happened to volume and workspaces since the run started |
| `Worktrees` | a maintenance run as a sequence of tasks, worktree-prune, and `fv worktree` | extends `OutputBaseGc`, whose workspaces are its worktrees; `todo` and `dry` are the run, `registered` git's entries, `branch` the worktree's branch (absent, as HEAD was, or ahead) |
| `RepoSync` | `sync_sources` with its listings, clones and pulls | `Verdicts` is `sync_one`'s decision; git's own refusals are external. `Dir` gives a repository its directory: its name, which two may share. `Listings` are what a listing may hold: everything, or of a source with more repositories than `Limit` (500 for `gh`) any so many. A clone that a crash stops leaves a directory that passes for a checkout ("partial"), one whose checkout fails a repository without its files ("hollow") |
| `Volumes` | audit and creation | the mount table is read once, each location after it, each addVolume of the script is a step. `met` is history: an unmount, a mount during a creation, two creations at once |
| `Bazelrc` | the splice and `apply` | a file is a sequence of markers, newlines, block bodies and user lines; `Splice` is the code's, on pieces instead of bytes |
| `Update` | update, restart, notice, and the scheduler's cycle | versions are numbers; `Odd` ones are the names `is_newer` cannot parse. `fv` and fvd as the program that updates differ in what a kill does. The removal of the app is two steps, which may leave it torn, and whose error is ignored. `cycle` is where `sched.rs` is; a sync or a maintenance run ends, well or badly, or hangs. `met` is history: a failed copy, a death in the replacement, two updates at once |
| `ConnectionsProofs`, `ResolutionProofs`, `IdentityProofs`, `DaemonProofs`, `MaintenanceProofs`, `RepoSyncProofs`, `UpdateProofs`, `SetupProofs` | the theorems | `DaemonProofs` is about `DaemonSocket` and `PluginHost`, `MaintenanceProofs` about `Worktrees` (and through it `OutputBaseGc`) and `DiskCacheGc`, `SetupProofs` about `Volumes` and `Bazelrc`; the definitions of the second module of each pair carry a prefix for it (`HostSpec`, `TrimSpec`, `RcSpec`, …). See [The proofs](#the-proofs) |

## The runs

One run per module with all of its actors and faults on at once. The registry has three: the promises of a single
caller and those of a race are different questions, and one promise of the first is refuted by a race.

| Run | Instance | Shows |
|---|---|---|
| `ConnSequential` | `Resolution`, one writer: GitHub, and two providers on one instance of their own (one host, so one id); an old registry; three tokens; requests that dress five hosts in every scheme, user, port, path and query; a server that slows clients down and errs, requests that are lost | `ConnectedIsListed`, `DisconnectErases`, `UniqueIds`, `AnswersTheRequest`, `ExplainAgrees`, `KeepsPace`, `GrantRedeemed`; `ImplementsStore`: the steps implement `ConnectionStore` |
| `ConnRaces` | two writers, two tokens, every fault; an instance of its own, the built-in GitLab, and GitLab on a host named "gitlab", which has the id and the keychain item of the built-in one | `TokenConfinement`: a token goes only to hosts of connections that share the keychain item of the one it was issued for; `StoredBeforeListed` |
| `ConnLostUpdate` | two writers, no fault | `ConnectedIsListed` is violated: two `persist`s overlap, and the later save drops the connection the earlier one returned |
| `Identity` | two callers, two logins, stray and silent connections, every fault | `OwnCodeOnly`: a login redeems only the code of its own tab; `TokenMatchesIdentity`; `LoginReturns` |
| `DaemonSocket` | two clients run three times, launchd, a dead daemon's socket; daemons slow, missing, dying | `SingleOwner`; `SomeoneAnswers`: the path ends up at a daemon that serves; `EveryDialEnds` |
| `DiskCacheGc` | two runs at once, three files of two sizes, Bazel adding and using, files that refuse | `TrimTypeOK`, `NoOverEviction`, `OldestFirst`, `TrimsToCap` |
| `Worktrees` | two worktrees removed, deleted by hand and added again, their volume unmounted, a stuck removal or a crash; runs of all tasks, of one, and previews | `OnlyOrphansRemoved`, `OrphansReclaimed`, `KeptStaysRegistered`, `StaleIsPruned`, `CommitsSurvive` |
| `RepoSync` | the scheduler's sync and another caller's, a preview or not; a source within the limit of a listing, with the meta repository, and one of two repositories beyond its limit of one, with a name that the first has too, whose listing may fail; the user editing, detaching and putting directories in the way of one repository, pushes to it; git failing, a checkout included, one crash | `OutcomesAreTrue`, `OkMeansAll`, `MissingIsCloned` |
| `Update` | fv and fvd updating, forced or not, two of three releases in any order, one of them with a name that does not compare; every fault; the scheduler beside them | `AppStays`, `NoDowngrade`, `NotifiesOnce`, `UpdateIsNoticed` |
| `PluginHost` | four plugins, two of one id and socket name and two of one service, one reinstalled and found elsewhere too, two starts, sidecars silent, hanging, unhealthy, dying; fvd dying | `RoutesToImplementer`, `FvdServes` |
| `Volumes` | two callers, two locations, a script that fails midway, mounts and unmounts | `OneVolumeEach`, `NeverMountedOver` |
| `Bazelrc` | two appliers, every well-marked file of up to two pieces on either side of at most one region, files with a lost begin or end marker or reversed ones, two edits, failing reads, crashes | `RcTypeOK`, `OneRegion`, `Preserves`, `NeverReversed` |

`DiskCacheGc` and `Bazelrc` keep their type invariants in the runs; those of the other modules are only
proved.

### Where the code parts from what it says

A promise that the code keeps only up to some event is stated with that event as its exception. The event
is an action of the module, so the run shows both that the promise holds without it and that nothing else
breaks it. Two need nothing but ordinary calls. That two connects lose an entry is what the run `ConnLostUpdate` shows.
That two instances share an id needs no race at all: connect GitLab on a host named "gitlab", and its token, kept in
`fastverk.gitlab`, answers the next request to the built-in gitlab.savvifi.com; `ConnRaces` has both connections, and
checks what is left.

| Said | Kept, except that | Property |
|---|---|---|
| `core/connections.rs:565-567`: connect stores, upserts and returns the persisted connection | two `persist`s that overlap lose one entry (`ConnLostUpdate`) | `ConnectedIsListed` |
| `core/connections.rs:375-377`: ids let the instances of one provider coexist | an instance whose host name is a provider's short name has the id and the keychain item of that provider's default instance, and the same host under two providers has one id | `TokenConfinement` is what is left; `TokensStayHome` is proved of instances that share no item |
| `core/connections.rs:622`: disconnect deletes the keychain secret | a keychain that refuses is ignored, and the entry goes all the same (`EraseSecret`) | `DisconnectErases`, checked without faults |
| `core/connections.rs:99-100`: the user registry wins | a request between the truncation and the write of a save sees none and falls to the defaults; a request without a scheme that holds "://" further on is answered for what follows it | `AnswersTheRequest`, checked with one caller |
| `core/connections.rs:146-147`: explain says exactly what the hot path would do | it looks at each secret twice, and one that goes in between is reported and not sent; the bare "://" again | `ExplainAgrees`, checked with one caller |
| `core/uri.rs:33`: the path is "/" when there is no explicit one | of a URI without a path, what follows a slash in its query or fragment is taken for the path | `ExplainAgrees` (`slashed`) |
| `core/oauth.rs:53-55`: the flow polls until the user authorizes | one request that fails, among all the polls, ends it, as does an answer with an error of any other kind or with neither token nor error (`:113-114`), and the grant is wasted | `GrantRedeemed` |
| `auth.proto:24-25`: Token is empty when not signed in | a login whose id_token does not verify has stored its access token already (`core/identity.rs:44`) | `TokenMatchesIdentity` |
| `auth.proto:16`: Login blocks until the flow is abandoned | abandoned, it blocks on, and holds the port; so it does behind a connection that it accepted and that sends nothing, whatever the user does: the read has no timeout (`core/oauth.rs:260-266`) | `LoginReturns` |
| `daemon/main.rs:4`: fvd is the single owner of mutable state | two clients at once, one that gave up on a slow daemon, or launchd beside a client start two | `SingleOwner` |
| `core/ipc.rs:20`: bind removes a stale socket | the same: it removes the socket of a daemon that serves | `SingleOwner` |
| `bazel/maintain.rs:121`: no-op under the threshold | a run does not count what another removed, and evicts on | `NoOverEviction` |
| `bazel/maintain.rs:128`: trims to the cap | files that refuse to go | `TrimsToCap` |
| `bazel/maintain.rs:176-180`: only bases whose workspace is gone | a volume unmounted at any moment of the run, a workspace made again | `OnlyOrphansRemoved` |
| `bazel/maintain.rs:185-186`: the cache never fills from churn | a removal cut short after the marker leaves a base no run knows | `OrphansReclaimed` |
| `bazel/maintain.rs:280-287`: worktrees are pruned across the managed repositories | their volume away at every prune, which then finds none | `StaleIsPruned` |
| `core/repos.rs:171`: every configured source is synced | the first that cannot be listed ends the sync, with an error | `MissingIsCloned`, `OkMeansAll` |
| `core/repos.rs:58`: every repository of a group is enumerated | `gh` lists 500 (`:72`); the rest is left out without a word | `OkMeansAll`, `MissingIsCloned` |
| `core/repos.rs:208`: missing repositories are cloned | what a crash left of a clone passes for a checkout, for good; so does a clone whose checkout failed (`:427`), which every later sync skips as dirty, or pulls in and calls up to date | `MissingIsCloned`, `OutcomesAreTrue` |
| `core/repos.rs:208`: clones into the repository's directory | two repositories of one name share it, and the second is reported as there | `OutcomesAreTrue` |
| `core/update.rs:144-146`: the recovery channel keeps working | the app is removed first: a copy that fails, a death, a second update leave none | `AppStays` |
| `core/update.rs:147-149`: only `force` installs what is not newer | an overlapping update that checked earlier installs last; an fvd that survived the last update compares with its own version | `NoDowngrade` |
| `core/update.rs:149-151`: relaunches | run by fvd, it kills fvd, and itself, before it opens the app | none (`KillFvd`) |
| `daemon/sched.rs:1-3`: updates are checked for in the background | a sync or a maintenance run that never returns; the scheduler off; fvd stopped | `UpdateIsNoticed` |
| `daemon/plugins.rs:42`: a service's plugin implements it | two plugins that report one id are taken for one another | `RoutesToImplementer` |
| `daemon/main.rs:27-28`: the launch of plugins is graceful | a sidecar that never answers Describe keeps fvd from listening | `FvdServes` |
| `daemon/plugins.rs:3`, `manifest.proto:35`: sidecars are supervised and kept alive | an unhealthy one is forgotten and runs on; a dead one stays dead | none (`LaunchFails`, `SidecarDies`) |
| `bazel/volume.rs:209-212`: only absent locations get a volume | an unmounted volume's location is absent; two creations may both look first | `OneVolumeEach` |
| `bazel/volume.rs:127-128`: never mounts over data | what appears while the admin prompt is open | `NeverMountedOver` |
| `fvd.proto:57`: applying the region is idempotent | a begin marker without its end: a region is appended, and the next apply cuts from the lost one | `OneRegion` |
| `bazel/bazelrc.rs:3-4`: anything outside is preserved | what is saved between the read and the write, and a file that cannot be read | `Preserves` |
| `bazel/bazelrc.rs:88`: the region is what is between the markers | an end marker that the user put before the begin marker makes the diff of every apply panic; an apply puts one there only where the user had already left an end marker without its begin | `NeverReversed` |

### Bounds

- Actors: two of a kind are enough for every race here, since each operation reads once and writes once and
  a lost or stale step needs one other actor in the gap. `DaemonSocket` has two clients and launchd, and five
  daemons: one dead before, one for each of three dials, and launchd's. The device flow has one client: two
  flows share nothing.
- Histories: `Tokens`, `Nonces`, `MaxRuns`, `MaxSyncs`, `MaxCalls`, `MaxConnects`, `MaxStarts`, `MaxApplies`,
  `MaxReleases`, `MaxCrashes`, `Edits` and `MaxFaults` bound how often something starts or fails. With two
  actors, one call each also gives one call after the other, so a retry and what an earlier operation left are
  in every run. The scheduler's runs (`RepoSync`, `Update`, `Worktrees`) are not bounded.
- Values: `MaxTime`, `MaxVersion`, `MaxRevs` and `MaxInterval` bound clocks and counters; the guard that keeps
  them is in the action of the environment, not in one of the code. `Update` has two facts to tell apart, what
  is installed and what is offered, and three versions for them; the last is the odd one.
- `RepoSync`: a limit of one, for a source of two repositories, gives every listing that a larger limit would tell
  apart: one that has a repository and one that has not. The source whose listing may fail is that one, so that the
  other must be reached and the failing one is not promised. Only one directory is worked in and pushed to, and only
  the scheduler pulls; the theorems are of any of both. The other caller clones or previews.
- `Identity` has two logins: one to wait, and one to wait for its port or to meet the tab the other left.
- `Retries` is 50 in the code and 1 in the run: "slow" and dying daemons may outlast any number.
- `DiskCacheGc` starts with any subset of the files, any of which may have been used at the same moment.
- Symmetry is used on tokens, actors, runners, configs and cache entries of one size, in runs without a liveness
  property.

### Deadlock

`Connections`, `Resolution`, `Identity`, `Worktrees` and `RepoSync` are checked for deadlock. The other
configurations say `CHECK_DEADLOCK FALSE`: their actors are calls and processes that end, and once the bounds on
calls, starts and versions are used up the whole instance has stopped, as it should.

### Fairness

- `Identity`: a caller that can take a step takes it (threads run; HTTP requests have time-outs), and the user
  does something with a tab: allows, denies or closes it. Waiting for a connection is not a step,
  nor is waiting for its line: a silent connection may stay open for ever (`HangUp` is not fair).
- `DaemonSocket`: each client and each daemon goes on; deaths and launchd's starts are never forced.
- `Worktrees`: a run that has started goes on, and the scheduler's loop starts one of all tasks again and again
  with `validate_only = false` (`daemon/sched.rs`). The start is strongly fair because other calls keep it from
  being enabled all the time. Faults are bounded by `MaxFaults`: the task cannot promise anything if every
  removal fails.
- `RepoSync`: the scheduler's loop starts a sync again and again, each run goes on, and a clone that is tried
  again and again by the scheduler succeeds some day: no repository fails to clone each time.
- `Update`: the scheduler's cycle goes on, except through a step that hangs, which has no time-out, and the
  check of a fvd that checks again and again reaches the release channel some day.
- `PluginHost`: fvd's launch goes on, except through a `Describe` that hangs, which has no time-out.

`Connections`, `Resolution`, `DiskCacheGc`, `Volumes` and `Bazelrc` state no fairness and have no liveness
property.

## The proofs

Every safety and action property that a run checks is proved, and so is the refinement of `ConnectionStore`. Each
theorem holds for every value of the constants: any number of actors (`Callers`, `Updaters`, `Syncs`, …), any
bound, every subset of the faults, any request. What a theorem is not true without is its hypothesis (one writer, no
such fault), never part of the specification. Each component's proof is laid out alike: a strengthened invariant
`Inv`, a lemma that the initial states satisfy it, one that every step preserves it with a step for each action, and
the theorems from both.

| Module | Proves | The inductive invariant |
|---|---|---|
| `ConnectionsProofs` | For any actors and faults, whatever connections share an item: `TypeCorrect`; `TokensConfined` (`TokenConfinement`); `StoredFirst` (`StoredBeforeListed`). Where connections that share an item have the same hosts: `TokensStayHome` (`InstancesCoexist`, which no run checks). For one writer and any readers: `IdsUnique` (`UniqueIds`), with every fault; `ConnectKept` (`ConnectedIsListed`), with a keychain that fails and a corrupt registry, but no full disk and no crash; `DisconnectKept` (`DisconnectErases`), with every fault but the keychain's. For a single actor without faults: `RegistryIsStore` (`ImplementsStore`) | The answer is made from a secret, a job's connection and a host that three different steps, of different actors, have put there. `JobInv`: a connect's token was issued for its connection, a resolve that reads matches its host. `TokenInv`: an item holds a token that was issued for a connection which keeps its secret there. `WriterInv`, for one writer: every snapshot is unique in ids, and nobody fills the file between the truncation and the write. `StoredInv`: no snapshot, on its way into the file, holds an id that was not stored. `ConnectedInv`: while the file is empty, the snapshot of the save holds what connect promised, and no other change names the item. `RemovedInv`: no snapshot brings back what is gone. `SoloInv`: between read and write, the registry is still what was read, so that each step is one of the store, or none |
| `ResolutionProofs` | `RequestsConfined`, `ChangesKept`, `RequestsSeeStore`: the theorems above hold with the callers in front. `PaceKept` (`KeepsPace`), `AuthorizationRedeemed` (`GrantRedeemed`). `RequestsAreRead`: the program finds the host and the path of every well-formed request that is neither `bare` nor `slashed`. For one caller: `RequestAnswered` (`AnswersTheRequest`), whatever the keychain refuses; `ExplanationAgrees` (`ExplainAgrees`), without faults | Every step of `Resolution` is one of `Connections`, or leaves the registry alone (`RegistryMoves`). `FlowInv`: the client's interval is no shorter than the server's, and a code it polls for is not redeemed. `ExplainInv`: of the locations an explanation has been through, the one it named is the first that holds a secret, and it still does |
| `IdentityProofs` | `TypeCorrect`; `OwnCode` (`OwnCodeOnly`); `StoredIsVerified` (`WhoAmITrustsVerified`); `StoresAgree` (`TokenMatchesIdentity`) | `FlowInv`: what a caller holds at each step, in particular that it keeps only a genuine id_token. `WholeInv`: while nothing stopped halfway or overlapped, who is between its two stores is alone, and has done the first |
| `DaemonProofs`, on `DaemonSocket` | `ChannelTypeCorrect`; `OneOwner` (`SingleOwner`); `PathAnswers` (`SomeoneAnswers`) | `TurnsInv`: while clients take turns, one daemon at most is coming or serving, and a client that is about to spawn has found none. `PathInv`: while no daemon dies, a path that names none that serves was there before any did, and one that is gone was removed by a daemon about to bind |
| `DaemonProofs`, on `PluginHost` | `PluginsTypeCorrect`; `RoutedToImplementer` (`RoutesToImplementer`) | `IndexInv`: a route names the id of some plugin with that service, and what is registered or listens under a name is a plugin of that name |
| `MaintenanceProofs`, on `Worktrees` | `WorktreesTypeCorrect`; `OnlyOrphansAreRemoved` (`OnlyOrphansRemoved`), `KeptAreRegistered` (`KeptStaysRegistered`), `CommitsOutlive` (`CommitsSurvive`); `RunsOutputBaseGc`: every step of a maintenance run is a step of `OutputBaseGc` or leaves it alone | `TaskInv`: as long as nothing happened to volume and workspaces since the run started, what it holds for orphans was deleted |
| `MaintenanceProofs`, on `DiskCacheGc` | `TrimTypeCorrect` (`TrimTypeOK`); `NeverOverEvicts` (`NoOverEviction`), `EvictsOldest` (`OldestFirst`), `TrimmedToCap` (`TrimsToCap`) | `TrimInv`: the run's count is exact for some set of the files it has met that holds all it has still to try (`Counts`; while nobody else evicts, one of files that are still there), what it sorted is in order (`Shape`), and no date it saw is later than the file's own; of what it has tried only what was used again is there, unless a file refused (`Dated`) |
| `RepoSyncProofs` | `TypeCorrect`; `OutcomesTrue` (`OutcomesAreTrue`); `NoneMissing` (`OkMeansAll`) | `CloneInv`: one sync at most clones into a directory, and what is there meanwhile is its half clone. `DiskInv`: a checkout is one of a repository of that name. `TruthInv`: what a real run has reported as cloned is a checkout, and what as done has its repository there. `CoverInv`: of each source it is through, a run has reported all of some listing, and of the one it is at the rest is still to do. For any names, colliding ones too |
| `UpdateProofs` | `TypeCorrect`; `AppIsKept` (`AppStays`); `NotifiedOnce` (`NotifiesOnce`); `NeverBack` (`NoDowngrade`) | `NoticesInv`: a version that was notified of is the last one, or was released and is the latest no more. `AppInv`: until something of `met` happens, who updates is alone, the app is whole but between its removal and the end of the copy, and what an update decided on is newer than what is installed |
| `SetupProofs`, on `Volumes` | `TypeCorrect`; `OneVolume` (`OneVolumeEach`); `NothingMountedOver` (`NeverMountedOver`) | `AloneInv`: one creation at a time unless two overlapped. `CountInv`, `AbsentInv`: what a creation has still to do has no volume and is absent, unless something was hidden or mounted meanwhile |
| `SetupProofs`, on `Bazelrc` | `BazelrcTypeCorrect` (`RcTypeOK`); `MarkersKeepOrder` (`NeverReversed`), `AppliedIsOneRegion` (`OneRegion`), `AppliedPreserves` (`Preserves`), for every file and any overlap of applies | `RcInv`: what an applier writes is a block of some config, spliced into a file in which no config stands outside of a region (`Wrapped`). The lemmas on `Splice` say where the first markers of its result are, and what is before and behind them |

Reading a request (`RequestsAreRead`). `Meant` says what a well-formed request is: a body with a string behind its
first `"uri"`, which decodes to a scheme, a user, a name or `[::1]`, a port, a path and a query or fragment, each free
of the delimiters that would end it. The program's searches and splits are shown to find these parts by three lemmas:
`FirstSplits` and `LastSplits`, that cutting a text at the first or last delimiter gives back the parts it was joined
from, and `MarkSplits`, the same for a mark of three pieces. The exceptions are a request that is `bare`, with no scheme and a
"://" further on, whose host and path may both be read wrong, and one that is `slashed`, with no path and a slash in
its query or fragment, whose path is. The requests of the run are `Meant`; `Meant` quantifies over all texts, which TLC cannot.

Assumptions. `ConstantTypes` (presets have at least one location, old entries a legacy item, the kinds of constants
are disjoint) and `ItemsSeparate`, on which the promises of a single writer rest: connections that keep their secret
in one keychain item have one id. The code gets it from the keychain service being `fastverk.<id>`; `MCResolution`
evaluates it on what `ProviderPresets` builds for every provider and host of the run, default hosts included, and TLC
on each instance's presets. That they also have the same hosts is not assumed, and not so for GitLab on a host named "gitlab": it is the
hypothesis of `TokensStayHome`, and `TokensConfined` does without it. `ResolutionConstants`: what is offered builds a preset, a host that is asked for is a
host. `SocketConstants`: launchd starts only some of the daemons. `DiskCacheGcConstants`: the cache holds finitely
many files, each of some size, and the clock has a date for each (`MaxTime` is this model's bound).
`BazelrcConstants` and `BazelrcFiles`: the user's text holds no marker and no block body except in a region.
`IdentityConstants`, `UpdateConstants`, `VolumesConstants`, `PluginHostConstants`, `OutputBaseGcConstants`,
`WorktreesConstants` and `RepoSyncConstants` say what kind of value each constant is. TLC evaluates all of them on every
instance. `Init` lets a registry have one old entry at most, in the proofs as in the runs.

Only model-checked: the liveness properties (`LoginReturns`, `EveryDialEnds`, `OrphansReclaimed`, `StaleIsPruned`,
`MissingIsCloned`, `UpdateIsNoticed`, `FvdServes`), since fairness and ENABLED are out of the prover's reach. No module uses
a RECURSIVE operator. `ConnectKept` leaves out the full disk and the crash because a save that stops after its
truncation empties the registry; `DisconnectKept` leaves out the keychain's failure because it is ignored.

## Not modelled

- `refresh` of `core/oauth.rs`: nothing calls it. GetCredentials hands out the stored token as it is.
- `FileStore` and `diagnose` of `core/secretstore.rs`: they read one file, and no connection the program builds
  refers to one.
- `status` and `worktree_list` of `core/repos.rs` only read. What `git gc` does inside a repository.
- The update off macOS, which only opens the image; the download file that two updates of one user share.
- The cadence that maintenance tasks declare: nothing reads it. Two maintenance runs over the output bases at
  once; two over the disk cache are in `DiskCacheGc`.
- A sidecar process that nobody owns is a state of `PluginHost`, and no property speaks of it.
- `config.rs`, `paths.rs`, `error.rs`, `notify.rs`, `platform/`, `bazel/tools.rs`, `bazel/invoke.rs`, the
  installation of the service, the front ends: pure functions, rendering, or one call of the daemon.
- Wall-clock time: no property depends on more than the order of events and the poll interval.

## Plan

The order so far: the registry, as the state everything else ends in; the daemon's socket and identity, as the
ways to it; then the tasks that delete or replace the user's data; then plugins and bazelrc; then what stands
before the registry (requests, presets, device flow) and what drives the tasks (scheduler, maintenance runs,
worktrees). Left, in this order:

1. Abstract specifications: a disk cache that only shrinks to its cap, implemented by one runner of `DiskCacheGc`;
   an atomic edit of the region, implemented by one applier of `Bazelrc`.
2. Proofs: `ExplanationAgrees` with a keychain that fails, once `explain` is modelled with it; for the liveness
   properties, the invariants and steps they rest on.
3. Models: overlapping maintenance runs over the output bases and the worktrees.
