------------------------------ MODULE Identity ------------------------------
(***************************************************************************)
(* The fastverk identity: the browser login (authorization code with PKCE  *)
(* over a loopback redirect), what it stores, and the logout.              *)
(*                                                                         *)
(* A login binds the registered redirect port, opens a browser tab,        *)
(* accepts one connection on the port, reads its first line, exchanges the *)
(* code, stores the access token and the connection, then verifies the     *)
(* id_token and stores it.  `WhoAmI` answers from the id_token, `Token`    *)
(* from the access token.                                                  *)
(* fvd runs every Login RPC on a thread of its own and command-line tools  *)
(* log in too: several callers run at once, and the port is theirs to race *)
(* for.  The registry file is one value here; its steps are module         *)
(* Connections.                                                            *)
(***************************************************************************)
EXTENDS Naturals, Sequences, FiniteSets

CONSTANTS
  Callers,   \* threads and processes that log in and out
  Users,     \* the accounts a tab can authorize
  Nonces,    \* the `state` values of the logins: bounds how many start
  Faults,    \* the failures this instance admits
  None

FaultKinds == {"stray", "deny", "abandon", "exchange", "verify", "keychain", "corrupt"}

ASSUME IdentityConstants ==
  /\ Faults \subseteq FaultKinds
  /\ None \notin Callers \cup Users \cup Nonces \cup [user: Users, genuine: BOOLEAN]
  /\ None \notin [nonce: Nonces \cup {None}, user: Users \cup {None}, silent: BOOLEAN]

VARIABLES
  pc, flow,   \* each caller's step, and its login: [nonce, user, idToken]
  tabs,       \* the nonces whose browser tab is open and unanswered
  issued,     \* the nonces given out
  closed,     \* the nonces whose tab the user closed without answering
  port,       \* the caller that has the redirect port bound
  backlog,    \* the connections queued on the port: [nonce, user, silent]
  conn,       \* the connection the login that has the port accepted and reads
  access,     \* the account of the stored access token
  idToken,    \* the stored id_token: its account, and whether it is genuine
  registry,   \* whether the registry file lists the fastverk connection
  whole       \* history: no operation has stopped halfway, none overlapped another

vars == <<pc, flow, tabs, issued, closed, port, backlog, conn, access, idToken, registry, whole>>
browser == <<tabs, closed>>
storage == <<access, idToken, registry>>
ledger == <<issued, whole>>
net == <<port, backlog, conn>>

\* A connection says which tab it answers and with whose code; it says neither
\* when it is somebody else's or carries an error. A silent one has sent no line.
Call == [nonce: Nonces \cup {None}, user: Users \cup {None}, silent: BOOLEAN]
Says(n, u) == [nonce |-> n, user |-> u, silent |-> FALSE]
Silence == [nonce |-> None, user |-> None, silent |-> TRUE]

NoFlow == [nonce |-> None, from |-> None, user |-> None, idToken |-> "missing"]

TypeOK ==
  /\ pc \in [Callers -> {"idle", "open", "accept", "read", "exchange", "access", "register", "verify",
                         "keep", "forget", "unlist"}]
  /\ flow \in [Callers -> [nonce: Nonces \cup {None}, from: Nonces \cup {None},
                           user: Users \cup {None}, idToken: {"missing", "forged", "genuine"}]]
  /\ tabs \subseteq issued /\ closed \subseteq issued /\ issued \subseteq Nonces
  /\ port \in Callers \cup {None}
  /\ backlog \in Seq(Call) /\ conn \in Call \cup {None}
  /\ access \in Users \cup {None}
  /\ idToken \in [user: Users, genuine: BOOLEAN] \cup {None}
  /\ registry \in {"unlisted", "listed", "unreadable"}
  /\ whole \in BOOLEAN

Init ==
  /\ pc = [p \in Callers |-> "idle"]
  /\ flow = [p \in Callers |-> NoFlow]
  /\ tabs = {} /\ issued = {} /\ closed = {}
  /\ port = None /\ backlog = <<>> /\ conn = None
  /\ access = None /\ idToken = None
  /\ registry \in {"unlisted"} \cup (IF "corrupt" \in Faults THEN {"unreadable"} ELSE {})
  /\ whole = TRUE

Goto(p, l) == pc' = [pc EXCEPT ![p] = l]
Return(p)  == Goto(p, "idle") /\ flow' = [flow EXCEPT ![p] = NoFlow]
\* The listener is a local of `pkce_flow`: dropped, with its backlog, on return.
Unbind == port' = None /\ backlog' = <<>> /\ conn' = None
Alone(p) == \A q \in Callers \ {p} : pc[q] = "idle"
----------------------------------------------------------------------------
(***************************************************************************)
(* The login.                                                              *)
(***************************************************************************)

\* `bind_redirect` on the registered port, a fresh `state` in hand.
StartLogin(p) ==
  /\ pc[p] = "idle" /\ port = None
  /\ \E n \in Nonces \ issued :
       /\ issued' = issued \cup {n}
       /\ flow' = [flow EXCEPT ![p] = [NoFlow EXCEPT !.nonce = n]]
  /\ port' = p /\ backlog' = <<>> /\ conn' = None
  /\ whole' = (whole /\ Alone(p))
  /\ Goto(p, "open")
  /\ UNCHANGED <<browser, storage>>

\* A second login while the port is bound fails ("already in use?").
PortInUse(p) ==
  /\ pc[p] = "idle" /\ port # None
  /\ \E n \in Nonces \ issued : issued' = issued \cup {n}
  /\ UNCHANGED <<pc, flow, browser, net, storage, whole>>

OpenTab(p) ==
  /\ pc[p] = "open"
  /\ tabs' = tabs \cup {flow[p].nonce}
  /\ Goto(p, "accept")
  /\ UNCHANGED <<flow, ledger, closed, net, storage>>

\* `receive_code`: the first connection on the port decides, and none is accepted
\* after it.
Accept(p) ==
  /\ pc[p] = "accept" /\ backlog # <<>>
  /\ conn' = Head(backlog) /\ backlog' = Tail(backlog)
  /\ Goto(p, "read")
  /\ UNCHANGED <<flow, ledger, browser, port, storage>>

\* Mutant of AcceptCode: `receive_code` does not compare the state.
AcceptAnyCode(p) ==
  /\ pc[p] = "read" /\ ~conn.silent /\ conn.user # None
  /\ flow' = [flow EXCEPT ![p] = [@ EXCEPT !.user = conn.user, !.from = conn.nonce]]
  /\ conn' = None
  /\ Goto(p, "exchange")
  /\ UNCHANGED <<ledger, browser, port, backlog, storage>>

\* The read has no timeout: it waits until the connection has sent a line.
AcceptCode(p) ==
  /\ pc[p] = "read" /\ ~conn.silent
  /\ conn.nonce = flow[p].nonce /\ conn.user # None
  /\ flow' = [flow EXCEPT ![p] = [@ EXCEPT !.user = conn.user, !.from = conn.nonce]]
  /\ conn' = None
  /\ Goto(p, "exchange")
  /\ UNCHANGED <<ledger, browser, port, backlog, storage>>

\* Mutant of RejectRedirect: the login passes over what it rejects, and goes on
\* accepting although its own answer may have been that one.
SkipRedirect(p) ==
  /\ pc[p] = "read" /\ ~conn.silent
  /\ conn.nonce # flow[p].nonce \/ conn.user = None
  /\ conn' = None
  /\ Goto(p, "accept")
  /\ UNCHANGED <<flow, ledger, browser, port, backlog, storage>>

\* A line that is malformed, carries an error, or another login's state ends this
\* login.
RejectRedirect(p) ==
  /\ pc[p] = "read" /\ ~conn.silent
  /\ conn.nonce # flow[p].nonce \/ conn.user = None
  /\ Unbind /\ Return(p)
  /\ UNCHANGED <<ledger, browser, storage>>

\* `exchange_code`: the provider answers with the user's tokens.  "verify" lets
\* the id_token be absent or one that will not verify.
ExchangeCode(p) ==
  /\ pc[p] = "exchange"
  /\ \E t \in {"genuine"} \cup (IF "verify" \in Faults THEN {"missing", "forged"} ELSE {}) :
       flow' = [flow EXCEPT ![p].idToken = t]
  /\ Unbind
  /\ Goto(p, "access")
  /\ UNCHANGED <<ledger, browser, storage>>

ExchangeFails(p) ==
  /\ pc[p] = "exchange" /\ "exchange" \in Faults
  /\ Unbind /\ Return(p)
  /\ UNCHANGED <<ledger, browser, storage>>

\* `connections::persist`: the access token first, then the registry entry.
StoreAccess(p) ==
  /\ pc[p] = "access"
  /\ access' = flow[p].user
  /\ Goto(p, "register")
  /\ UNCHANGED <<flow, ledger, browser, net, idToken, registry>>

Register(p) ==
  /\ pc[p] = "register" /\ registry # "unreadable"
  /\ registry' = "listed"
  /\ Goto(p, "verify")
  /\ UNCHANGED <<flow, ledger, browser, net, access, idToken>>

\* An absent id_token, or one whose signature or claims do not verify (or whose
\* keys cannot be fetched), fails the login here: after `persist`.
Verify(p) ==
  /\ pc[p] = "verify" /\ flow[p].idToken = "genuine"
  /\ Goto(p, "keep")
  /\ UNCHANGED <<flow, ledger, browser, net, storage>>

KeepIdToken(p) ==
  /\ pc[p] = "keep"
  /\ idToken' = [user |-> flow[p].user, genuine |-> flow[p].idToken = "genuine"]
  /\ Return(p)
  /\ UNCHANGED <<ledger, browser, net, access, registry>>

LoginFails(p) ==
  /\ \/ pc[p] \in {"access", "keep"} /\ "keychain" \in Faults
     \/ pc[p] = "register" /\ registry = "unreadable"
     \/ pc[p] = "verify" /\ (flow[p].idToken # "genuine" \/ "verify" \in Faults)
  /\ whole' = (whole /\ pc[p] = "access")
  /\ Return(p)
  /\ UNCHANGED <<issued, browser, net, storage>>
----------------------------------------------------------------------------
(***************************************************************************)
(* The logout: the id_token best-effort, then `disconnect`, which stops at *)
(* a registry it cannot load and erases the access token best-effort.      *)
(***************************************************************************)
StartLogout(p) ==
  /\ pc[p] = "idle"
  /\ whole' = (whole /\ Alone(p))
  /\ Goto(p, "forget")
  /\ UNCHANGED <<flow, issued, browser, net, storage>>

\* Mutant of ForgetIdToken: `logout` leaves the id_token to `disconnect`.
ForgetNothing(p) ==
  /\ pc[p] = "forget"
  /\ Goto(p, "unlist")
  /\ UNCHANGED <<flow, ledger, browser, net, storage>>

ForgetIdToken(p) ==
  /\ pc[p] = "forget"
  /\ idToken' \in {None} \cup (IF "keychain" \in Faults THEN {idToken} ELSE {})
  /\ whole' = (whole /\ idToken' = None)
  /\ Goto(p, "unlist")
  /\ UNCHANGED <<flow, issued, browser, net, access, registry>>

Disconnect(p) ==
  /\ pc[p] = "unlist"
  /\ IF registry = "listed"
     THEN /\ registry' = "unlisted"
          /\ access' \in {None} \cup (IF "keychain" \in Faults THEN {access} ELSE {})
     ELSE UNCHANGED <<registry, access>>
  /\ whole' = (whole /\ (registry = "listed" => access' = None))
  /\ Return(p)
  /\ UNCHANGED <<issued, browser, net, idToken>>
----------------------------------------------------------------------------
(***************************************************************************)
(* The browser and the user.  A redirect to a port nobody has bound is     *)
(* lost; one to a bound port waits in its backlog, whoever bound it.       *)
(***************************************************************************)
Queue(c) ==
  /\ backlog' = IF port = None THEN backlog ELSE Append(backlog, c)
  /\ UNCHANGED conn

\* The browser may send its answer over a connection it opened ahead of it.
Send(c) ==
  \/ Queue(c)
  \/ /\ \E i \in DOMAIN backlog : backlog[i].silent /\ backlog' = [backlog EXCEPT ![i] = c]
     /\ UNCHANGED conn
  \/ conn = Silence /\ conn' = c /\ UNCHANGED backlog

Answer(n) ==
  /\ n \in tabs
  /\ tabs' = tabs \ {n}
  /\ \E u \in Users \cup (IF "deny" \in Faults THEN {None} ELSE {}) : Send(Says(n, u))
  /\ UNCHANGED <<pc, flow, ledger, closed, port, storage>>

CloseTab(n) ==
  /\ n \in tabs /\ "abandon" \in Faults
  /\ tabs' = tabs \ {n} /\ closed' = closed \cup {n}
  /\ UNCHANGED <<pc, flow, ledger, net, storage>>

\* Something else connects to the port, and says something or nothing: a
\* preconnect, a scanner.
StrayConnection ==
  /\ "stray" \in Faults /\ port # None /\ backlog = <<>>
  /\ \E c \in {Says(None, None), Silence} : Queue(c)
  /\ UNCHANGED <<pc, flow, ledger, browser, port, storage>>

\* A silent connection closes, and is read to its end: an empty line.
HangUp ==
  /\ conn = Silence /\ conn' = Says(None, None)
  /\ UNCHANGED <<pc, flow, ledger, browser, port, backlog, storage>>

Step(p) ==
  \/ OpenTab(p) \/ Accept(p) \/ AcceptCode(p) \/ RejectRedirect(p)
  \/ ExchangeCode(p) \/ ExchangeFails(p)
  \/ StoreAccess(p) \/ Register(p) \/ Verify(p) \/ KeepIdToken(p) \/ LoginFails(p)
  \/ ForgetIdToken(p) \/ Disconnect(p)

Next ==
  \/ \E p \in Callers : StartLogin(p) \/ PortInUse(p) \/ StartLogout(p) \/ Step(p)
  \/ \E n \in Nonces : Answer(n) \/ CloseTab(n)
  \/ StrayConnection \/ HangUp

\* Threads make progress and network calls time out; the user answers a tab in
\* the end, or closes it. A silent connection need not ever end.
Spec ==
  /\ Init /\ [][Next]_vars
  /\ \A p \in Callers : WF_vars(Step(p))
  /\ \A n \in Nonces : WF_vars(Answer(n))
----------------------------------------------------------------------------
(***************************************************************************)
(* Properties.                                                             *)
(***************************************************************************)

\* A login exchanges only the code of its own tab, whatever stale tabs of
\* earlier logins answer on the port they share (`receive_code`'s state check).
OwnCodeOnly == \A p \in Callers : flow[p].from \in {None, flow[p].nonce}

\* The id_token `WhoAmI` reads offline was verified when it was stored: no
\* failure and no concurrent login leaves an unverified one ("whoami later
\* trusts the stored, already-verified token").
WhoAmITrustsVerified == idToken # None => idToken.genuine

\* `WhoAmI` and `Token` speak of the same account between operations, both of the
\* last login's or both of none: `Token` is "empty when not signed in". Logins that
\* end before they store anything leave it so; only an operation that stops
\* between its two stores (a login whose id_token does not verify), or two that
\* overlap, can part them.
TokenMatchesIdentity ==
  whole /\ (\A p \in Callers : pc[p] \notin {"register", "verify", "keep", "unlist"}) =>
    access = (IF idToken = None THEN None ELSE idToken.user)

\* A login returns, with an identity or an error: the port is listening before the
\* tab opens, so that no redirect is missed ("blocks until the user authorizes (or
\* the flow is abandoned)"). It does not when the user closes its tab, nor when it
\* accepted a connection that never sends a line nor closes: the read has no
\* timeout, and the redirect waits behind it.
Stalled(p) == pc[p] = "read" /\ conn = Silence
LoginReturns ==
  \A p \in Callers :
    pc[p] = "accept" ~> pc[p] = "idle" \/ flow[p].nonce \in closed \/ []Stalled(p)
=============================================================================
