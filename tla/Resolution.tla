----------------------------- MODULE Resolution -----------------------------
(***************************************************************************)
(* The registry and its callers: the credential request a host is found    *)
(* in, the connections the providers' presets build, the device flow that  *)
(* precedes an OAuth connect, and `explain`, the diagnosis that mirrors    *)
(* `resolve` without sharing its code.                                     *)
(*                                                                         *)
(* The connections, the registry and the secrets are those of module       *)
(* Connections; its resolve begins here with a request, its connect with a *)
(* provider. One flow at a time: two flows share nothing.                  *)
(***************************************************************************)
EXTENDS Connections, ProviderPresets

CONSTANTS
  Offered,       \* the <<provider, host>> that are connected
  Given,         \* those of them that come with a client id of their own
  Environments,  \* the sets of environment variables that may be set
  Requests,      \* the requests: [body, host, path, bare, slashed], see `Asked`
  Intervals, MaxInterval, FlowFaults

VARIABLES
  step, interval, atLeast, grant, upset,  \* the device flow
  forWhom,  \* who runs it and what for: <<actor, provider, host>>, or <<>>
  asked,    \* the request each actor resolves or explains
  trace     \* each actor's explanation so far

flow    == <<step, interval, atLeast, grant, upset>>
callers == <<flow, forWhom, asked, trace>>
rvars   == <<vars, callers>>

Device == INSTANCE DeviceFlow
URI    == INSTANCE Uri

Built(provider, host) ==
  LET c == Preset(provider, host)
  IN  [id |-> c.id, hosts |-> c.hosts, refs |-> c.refs, legacy |-> None]

\* What the program makes of each request, next to what the request is: whether it
\* gets the path right, whether the request has no scheme and holds "://", and
\* whether it has no path and holds a slash in its query or fragment.
Asked ==
  {LET uri == URI!RequestUri(r.body)
   IN  [host |-> IF URI!HostOf(uri) = <<>> THEN None
                 ELSE IF Len(URI!HostOf(uri)) = 1 THEN URI!HostOf(uri)[1] ELSE "[::1]",
        pathRight |-> URI!PathOf(uri) = r.path,
        isHost |-> r.host, bare |-> r.bare, slashed |-> r.slashed]
   : r \in Requests}

ASSUME ResolutionConstants ==
  /\ \A o \in Offered : Built(o[1], o[2]) \in Presets
  /\ \A q \in Asked : q.host \in Hosts \cup {None}
  /\ Intervals \subseteq Nat

NoRequest == [host |-> None, pathRight |-> TRUE, isHost |-> None, bare |-> FALSE,
              slashed |-> FALSE]
NoTrace   == [at |-> "idle", conn |-> None, user |-> FALSE, next |-> 1, seen |-> FALSE,
              source |-> None]
RInit ==
  /\ Init /\ {l \in EnvLocs : secrets[l] = Ambient} \in Environments
  /\ Device!NoFlow /\ forWhom = <<>>
  /\ asked = [p \in Actors |-> NoRequest]
  /\ trace = [p \in Actors |-> NoTrace]

Free(p) == pc[p] = "idle" /\ trace[p].at = "idle" /\ (forWhom # <<>> => forWhom[1] # p)
----------------------------------------------------------------------------
(***************************************************************************)
(* Connecting. Over the RPC and in process alike, an OAuth provider goes   *)
(* through the flow; the API key of another comes from the settings        *)
(* window, since the RPC carries none. What is refused changes nothing.    *)
(***************************************************************************)
Connect(p, provider, host) ==
  /\ Free(p) /\ p \in Writers /\ forWhom = <<>>
  /\ AuthKind(provider) = "oauth" /\ HasDeviceEndpoint(provider)
  /\ HasClientId(provider, host, <<provider, host>> \in Given)
  /\ \E t \in Tokens : issuedFor[t] = None
  /\ Device!Start
  /\ forWhom' = <<p, provider, host>>
  /\ UNCHANGED <<vars, asked, trace>>

Flow == Device!FlowStep /\ UNCHANGED <<vars, forWhom, asked, trace>>

FlowGranted(p) ==
  /\ step = "token" /\ forWhom[1] = p
  /\ StartConnect(p, Built(forWhom[2], forWhom[3]))
  /\ Device!Reset /\ forWhom' = <<>>
  /\ UNCHANGED <<asked, trace>>

FlowFailed(p) ==
  /\ step = "failed" /\ forWhom[1] = p
  /\ Device!Reset /\ forWhom' = <<>>
  /\ UNCHANGED <<vars, asked, trace>>

ConnectApiKey(p, provider, host) ==
  /\ Free(p) /\ AuthKind(provider) = "api-key"
  /\ StartConnect(p, Built(provider, host))
  /\ UNCHANGED callers
----------------------------------------------------------------------------
(***************************************************************************)
(* Resolving and explaining a request.                                     *)
(***************************************************************************)

\* A request without a host is anonymous at once.
Resolve(p, q) ==
  /\ Free(p)
  /\ asked' = [asked EXCEPT ![p] = q]
  /\ IF q.host = None THEN answer' = [answer EXCEPT ![p] = NoAnswer]
                           /\ UNCHANGED <<file, secrets, issuedFor, pc, job, history>>
     ELSE StartResolve(p, q.host)
  /\ UNCHANGED <<flow, forWhom, trace>>

Explain(p, q) ==
  /\ Free(p)
  /\ asked' = [asked EXCEPT ![p] = q]
  /\ trace' = [trace EXCEPT ![p].at = IF q.host = None THEN "done" ELSE "load"]
  /\ UNCHANGED <<vars, flow, forWhom>>

LoadForExplain(p) ==
  LET mine  == Matching(IF file.readable THEN Loaded ELSE {}, asked[p].host)
      found == Match(IF file.readable THEN Loaded ELSE {}, asked[p].host) IN
  /\ trace[p].at = "load"
  /\ IF found = {} THEN trace' = [trace EXCEPT ![p].at = "done"]
     ELSE \E c \in found : trace' = [trace EXCEPT ![p].at = "ref", ![p].conn = c,
                                                  ![p].user = (mine # {})]
  /\ UNCHANGED <<vars, flow, forWhom, asked>>

\* `trace_ref`: does the ref yield?
TraceRef(p) ==
  LET t == trace[p] IN
  /\ t.at = "ref" /\ t.next <= Len(t.conn.refs)
  /\ trace' = [trace EXCEPT ![p].at = "choose",
                            ![p].seen = (secrets[t.conn.refs[t.next]] # None)]
  /\ UNCHANGED <<vars, flow, forWhom, asked>>

\* Mutant of ChooseRef: the last that yields is chosen.
ChooseRefLast(p) ==
  LET t == trace[p]
      chosen == t.seen /\ secrets[t.conn.refs[t.next]] # None IN
  /\ t.at = "choose"
  /\ trace' = [trace EXCEPT ![p].at = "ref", ![p].next = t.next + 1, ![p].seen = FALSE,
                            ![p].source = IF chosen THEN t.conn.refs[t.next] ELSE @]
  /\ UNCHANGED <<vars, flow, forWhom, asked>>

\* The first that yields is read once more, and chosen if it still does.
ChooseRef(p) ==
  LET t == trace[p]
      chosen == t.source = None /\ t.seen /\ secrets[t.conn.refs[t.next]] # None IN
  /\ t.at = "choose"
  /\ trace' = [trace EXCEPT ![p].at = "ref", ![p].next = t.next + 1, ![p].seen = FALSE,
                            ![p].source = IF chosen THEN t.conn.refs[t.next] ELSE @]
  /\ UNCHANGED <<vars, flow, forWhom, asked>>

EndTrace(p) ==
  /\ trace[p].at = "ref" /\ trace[p].next > Len(trace[p].conn.refs)
  /\ trace' = [trace EXCEPT ![p].at = "done"]
  /\ UNCHANGED <<vars, flow, forWhom, asked>>

Explained(p) ==
  /\ trace[p].at = "done"
  /\ trace' = [trace EXCEPT ![p] = NoTrace] /\ asked' = [asked EXCEPT ![p] = NoRequest]
  /\ UNCHANGED <<vars, flow, forWhom>>
----------------------------------------------------------------------------
\* The steps of module Connections.
Resolving(p) ==
  /\ LoadForResolve(p) \/ ReadSecret(p)
  /\ asked' = IF pc'[p] = "idle" THEN [asked EXCEPT ![p] = NoRequest] ELSE asked
  /\ UNCHANGED <<flow, forWhom, trace>>

Changing(p) ==
  /\ \/ \E id \in Ids : Free(p) /\ StartDisconnect(p, id)
     \/ StoreSecret(p) \/ StoreFails(p)
     \/ LoadForConnect(p) \/ LoadForDisconnect(p) \/ NothingToDisconnect(p) \/ LoadFails(p)
     \/ EraseSecret(p)
     \/ Truncate(p) \/ WriteAll(p) \/ SaveFails(p)
  /\ UNCHANGED callers

RNext ==
  \/ Flow
  \/ \E p \in Actors :
       \/ \E o \in Offered : Connect(p, o[1], o[2]) \/ ConnectApiKey(p, o[1], o[2])
       \/ FlowGranted(p) \/ FlowFailed(p)
       \/ \E q \in Asked : Resolve(p, q) \/ Explain(p, q)
       \/ LoadForExplain(p) \/ TraceRef(p) \/ ChooseRef(p) \/ EndTrace(p) \/ Explained(p)
       \/ Resolving(p) \/ Changing(p)

RSpec == RInit /\ [][RNext]_rvars
----------------------------------------------------------------------------
(***************************************************************************)
(* Properties.                                                             *)
(***************************************************************************)

\* What the registry saved last, and the built-in one behind it, say of a host.
Right(host) ==
  IF Matching(committed, host) # {} THEN {Migrate(c) : c \in FirstOf(Matching(committed, host))}
  ELSE {c \in Defaults : host \in c.hosts}

\* Whatever scheme, user, port, path and query a request is dressed in, the
\* connection that answers it is the one its own host has: the user's entry, then
\* the built-in preset, and nobody's if neither has the host. It is not so for a
\* request without a scheme that holds "://" further on: what follows is taken
\* for the host.
AnswersTheRequest ==
  [][\A p \in Actors : LoadForResolve(p) /\ ~asked[p].bare =>
       IF Right(asked[p].isHost) = {} THEN pc'[p] = "idle"
       ELSE pc'[p] = "read" /\ job'[p].conn \in Right(asked[p].isHost)]_rvars

\* `explain` "explains exactly what the hot path would do": the connection it
\* names and the source it says is sent are those a resolve of the same request
\* would use, and the path is the request's, "/" for a URI without one. The path is
\* not right for a URI without one that has a slash in its query or fragment: what
\* follows the slash is taken for it. With a single caller: a secret that goes while
\* `explain` looks at it twice is reported and not sent.
Yielding(c) == {i \in DOMAIN c.refs : secrets[c.refs[i]] # None}
ExplainAgrees ==
  \A p \in Actors : trace[p].at = "done" =>
    LET t == trace[p]
        found == Match(IF file.readable THEN Loaded ELSE {}, asked[p].host) IN
    /\ IF t.conn = None THEN found = {} /\ t.source = None
       ELSE /\ t.conn \in found /\ t.user = (Matching(Loaded, asked[p].host) # {})
            /\ IF Yielding(t.conn) = {} THEN t.source = None
               ELSE t.source = t.conn.refs[CHOOSE i \in Yielding(t.conn) :
                                             \A k \in Yielding(t.conn) : i <= k]
    /\ asked[p].pathRight \/ asked[p].bare \/ asked[p].slashed

\* The device flow keeps the pace the server asks for, and loses no authorization.
KeepsPace     == Device!KeepsPace
GrantRedeemed == Device!GrantRedeemed
============================================================================
