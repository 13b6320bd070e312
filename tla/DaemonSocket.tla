---------------------------- MODULE DaemonSocket ----------------------------
(***************************************************************************)
(* How a client reaches fvd: it dials the socket path, starts a daemon if  *)
(* nothing answers, and dials again until one does or it gives up.  A      *)
(* starting daemon launches its plugins, then takes the path over: it      *)
(* removes the file it finds there and binds its own.                      *)
(*                                                                         *)
(* Nothing keeps two daemons from starting: two clients may find the path  *)
(* dead at once, a client may give up on a daemon that is still launching  *)
(* plugins and be run again, and launchd starts one of its own.            *)
(***************************************************************************)
EXTENDS Naturals, FiniteSets

CONSTANTS
  Clients,
  Daemons,      \* the daemon processes that may ever start
  Retries,      \* how often a client dials after starting a daemon (50 in the code)
  MaxConnects,  \* how often clients are run, all together
  Agents,       \* those of Daemons that launchd starts, not a client
  Faults,       \* what can go wrong: "slow", launching plugins outlasts a client's
                \* retries; "crash", daemons die; "missing", no fvd binary is found
  None

ASSUME SocketConstants ==
  /\ Retries \in Nat \ {0} /\ MaxConnects \in Nat \ {0}
  /\ Agents \subseteq Daemons /\ Agents # Daemons /\ Faults \subseteq {"slow", "crash", "missing"}
  /\ None \notin Daemons

VARIABLES
  path,     \* the daemon whose socket the path names, None if there is no file
  daemon,   \* each daemon's step
  client,   \* each client's step
  retries,  \* dials left to each client
  runs,     \* how often clients have been run
  met       \* history: the faults that have happened, and "overlap" once a client
            \* was run while another was trying or a daemon coming up, or launchd
            \* started a daemon while one served, too

vars == <<path, daemon, client, retries, runs, met>>

TypeOK ==
  /\ path \in Daemons \cup {None}
  /\ daemon \in [Daemons -> {"off", "launch", "check", "remove", "bind", "serving", "dead"}]
  /\ client \in [Clients -> {"idle", "dial", "spawn", "retry", "connected", "failed"}]
  /\ retries \in [Clients -> 0..Retries]
  /\ runs \in 0..MaxConnects
  /\ met \subseteq Faults \cup {"overlap"}

\* Either no file, or the socket a daemon left behind when it died.
Init ==
  /\ \/ path = None /\ daemon = [d \in Daemons |-> "off"]
     \/ /\ path = CHOOSE d \in Daemons : d \notin Agents
        /\ daemon = [d \in Daemons |-> IF d = path THEN "dead" ELSE "off"]
  /\ client = [c \in Clients |-> "idle"]
  /\ retries = [c \in Clients |-> 0]
  /\ runs = 0 /\ met = {}

Serving == {d \in Daemons : daemon[d] = "serving"}
Coming  == {d \in Daemons : daemon[d] \in {"launch", "check", "remove", "bind"}}
Answers == path # None /\ path \in Serving
Trying  == {c \in Clients : client[c] \in {"dial", "spawn", "retry"}}
Meet(faults) == met' = met \cup faults
Overlap == IF Trying \cup Coming # {} THEN {"overlap"} ELSE {}

\* A process of its own: which of those not started yet does not matter.
Unstarted == {d \in Daemons \ Agents : daemon[d] = "off"}
Started == CHOOSE d \in Unstarted : TRUE
----------------------------------------------------------------------------
(***************************************************************************)
(* The client: connect_channel_default.                                    *)
(***************************************************************************)
ClientAt(c, l) == client' = [client EXCEPT ![c] = l]

Run(c) ==
  /\ client[c] \in {"idle", "connected", "failed"} /\ runs < MaxConnects
  /\ runs' = runs + 1
  /\ ClientAt(c, "dial") /\ Meet(Overlap)
  /\ UNCHANGED <<path, daemon, retries>>

Connect(c) ==
  /\ client[c] \in {"dial", "retry"} /\ Answers
  /\ ClientAt(c, "connected")
  /\ UNCHANGED <<path, daemon, retries, runs, met>>

\* Mutant of DialFails: a client starts a daemon without dialling first.
SpawnUndialled(c) ==
  /\ client[c] = "dial"
  /\ ClientAt(c, "spawn")
  /\ UNCHANGED <<path, daemon, retries, runs, met>>

DialFails(c) ==
  /\ client[c] = "dial" /\ ~Answers
  /\ ClientAt(c, "spawn")
  /\ UNCHANGED <<path, daemon, retries, runs, met>>

SpawnFvd(c) ==
  /\ client[c] = "spawn" /\ Unstarted # {}
  /\ daemon' = [daemon EXCEPT ![Started] = "launch"]
  /\ retries' = [retries EXCEPT ![c] = Retries]
  /\ ClientAt(c, "retry")
  /\ UNCHANGED <<path, runs, met>>

SpawnFails(c) ==
  /\ client[c] = "spawn" /\ "missing" \in Faults
  /\ ClientAt(c, "failed") /\ Meet({"missing"})
  /\ UNCHANGED <<path, daemon, retries, runs>>

\* Mutant of RetryFails: the dials are not counted.
RetryUncounted(c) ==
  /\ client[c] = "retry" /\ retries[c] > 0 /\ ~Answers
  /\ UNCHANGED vars

\* A dial that fails, 100 ms after the last.
RetryFails(c) ==
  /\ client[c] = "retry" /\ retries[c] > 0 /\ ~Answers
  /\ retries' = [retries EXCEPT ![c] = @ - 1]
  /\ UNCHANGED <<path, daemon, client, runs, met>>

\* The last dial. All the dials together outlast the daemons that are coming up,
\* unless they are slow.
GiveUp(c) ==
  /\ client[c] = "retry" /\ retries[c] = 0 /\ ~Answers
  /\ "slow" \in Faults \/ Coming = {}
  /\ ClientAt(c, "failed") /\ Meet(IF Coming # {} THEN {"slow"} ELSE {})
  /\ UNCHANGED <<path, daemon, retries, runs>>
----------------------------------------------------------------------------
(***************************************************************************)
(* The daemon: main, launch_installed, then ipc::bind and serve.           *)
(***************************************************************************)
DaemonAt(d, l) == daemon' = [daemon EXCEPT ![d] = l]

AgentStarts(d) ==
  /\ d \in Agents /\ daemon[d] = "off"
  /\ DaemonAt(d, "launch")
  /\ Meet(IF Serving # {} THEN {"overlap"} ELSE Overlap)
  /\ UNCHANGED <<path, client, retries, runs>>

PluginsLaunched(d) ==
  /\ daemon[d] = "launch"
  /\ DaemonAt(d, "check")
  /\ UNCHANGED <<path, client, retries, runs, met>>

CheckPath(d) ==
  /\ daemon[d] = "check"
  /\ DaemonAt(d, IF path # None THEN "remove" ELSE "bind")
  /\ UNCHANGED <<path, client, retries, runs, met>>

RemoveSocket(d) ==
  /\ daemon[d] = "remove"
  /\ path' = None
  /\ DaemonAt(d, "bind")
  /\ UNCHANGED <<client, retries, runs, met>>

\* Mutant of BindSocket: a daemon that fails to bind removes the path as it ends.
BindOrCleanUp(d) ==
  /\ daemon[d] = "bind"
  /\ IF path = None THEN path' = d /\ DaemonAt(d, "serving")
                    ELSE path' = None /\ DaemonAt(d, "dead")
  /\ UNCHANGED <<client, retries, runs, met>>

\* A path that exists again fails the bind, and with it the daemon.
BindSocket(d) ==
  /\ daemon[d] = "bind"
  /\ IF path = None THEN path' = d /\ DaemonAt(d, "serving")
                    ELSE path' = path /\ DaemonAt(d, "dead")
  /\ UNCHANGED <<client, retries, runs, met>>

\* A daemon that dies, killed or crashed, leaves the path behind.
Die(d) ==
  /\ "crash" \in Faults /\ daemon[d] \in {"launch", "check", "remove", "bind", "serving"}
  /\ DaemonAt(d, "dead") /\ Meet({"crash"})
  /\ UNCHANGED <<path, client, retries, runs>>

ClientStep(c) ==
  Connect(c) \/ DialFails(c) \/ SpawnFvd(c) \/ SpawnFails(c) \/ RetryFails(c) \/ GiveUp(c)
DaemonStep(d) == PluginsLaunched(d) \/ CheckPath(d) \/ RemoveSocket(d) \/ BindSocket(d)

Next ==
  \/ \E c \in Clients : Run(c) \/ ClientStep(c)
  \/ \E d \in Daemons : AgentStarts(d) \/ DaemonStep(d) \/ Die(d)

\* Processes are scheduled: each client and each daemon keeps going.
Spec ==
  /\ Init /\ [][Next]_vars
  /\ \A c \in Clients : WF_vars(ClientStep(c))
  /\ \A d \in Daemons : WF_vars(DaemonStep(d))
----------------------------------------------------------------------------
(***************************************************************************)
(* Properties.                                                             *)
(***************************************************************************)

\* fvd is the single owner of mutable state: two daemons never serve at once, as
\* long as clients take their turns, and launchd starts fvd when there is none.
\* (A client that gives up on a slow daemon and is run again is an overlap, and so
\* is launchd's start beside a daemon that a client started: then two do.) So the
\* socket file that `bind` removes is a stale one, never that of a daemon that serves.
SingleOwner == "overlap" \notin met => Cardinality(Serving) <= 1

\* However many daemons race for the path, it ends up naming one that serves:
\* outside a takeover, if some daemon serves then a dial is answered (until
\* one dies).
SomeoneAnswers ==
  "crash" \notin met /\ Serving # {} /\ (\A d \in Daemons : daemon[d] # "bind") => Answers

\* A client that is run ends up connected, even if several start daemons at once,
\* launchd too, or the path is stale; it is told that fvd did not come up only
\* when a daemon was slow, died or was not found.
EveryDialEnds ==
  \A c \in Clients :
    client[c] = "dial" ~>
      client[c] = "connected" \/ (client[c] = "failed" /\ met \ {"overlap"} # {})
=============================================================================
