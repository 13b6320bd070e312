----------------------------- MODULE DeviceFlow -----------------------------
(***************************************************************************)
(* The OAuth device flow that `connect` runs: ask for a device code, show  *)
(* the user code, then sleep and poll the token endpoint until it answers  *)
(* with a token or an error. The authorization server is external, as the  *)
(* flow relies on it: it redeems a code once, and tells a client that      *)
(* polls too fast to slow down by five seconds.                            *)
(***************************************************************************)
EXTENDS Naturals

CONSTANTS
  Intervals,    \* the seconds between polls a server may ask for (5 if it names none)
  MaxInterval,  \* bound on them: the server stops asking for more
  FlowFaults    \* "net": a request fails, or its answer is not JSON;
                \* "other": the server answers with another error, or with neither
                \* a token nor an error;
                \* "hasty": the server slows down a client that keeps to its pace

VARIABLES
  step,      \* "idle", "authorize", "sleep", "poll", "token" or "failed"
  interval,  \* seconds the client sleeps before it polls
  atLeast,   \* seconds the server wants between two polls
  grant,     \* the device code: "none", "pending", "granted", "denied", "expired", "used"
  upset      \* history: what upset this flow: "none", a "request" lost (or its
             \* answer), or an "answer" that says nothing of the code

flow == <<step, interval, atLeast, grant, upset>>

FlowOK ==
  /\ step \in {"idle", "authorize", "sleep", "poll", "token", "failed"}
  /\ interval \in Nat /\ atLeast \in Nat /\ upset \in {"none", "request", "answer"}
  /\ grant \in {"none", "pending", "granted", "denied", "expired", "used"}

NoFlow == step = "idle" /\ interval = 0 /\ atLeast = 0 /\ grant = "none" /\ upset = "none"
Ended  == step \in {"token", "failed"}
----------------------------------------------------------------------------
\* With a client id and a device endpoint; without, there is no flow.
Start ==
  /\ step = "idle" /\ step' = "authorize"
  /\ UNCHANGED <<interval, atLeast, grant, upset>>

Authorize ==
  /\ step = "authorize" /\ step' = "sleep"
  /\ grant' = "pending" /\ atLeast' \in Intervals
  /\ interval' = IF atLeast' > 1 THEN atLeast' ELSE 1
  /\ UNCHANGED upset

Sleep == step = "sleep" /\ step' = "poll" /\ UNCHANGED <<interval, atLeast, grant, upset>>

\* A poll fails before or after the server has handled it.
RequestFails ==
  /\ step \in {"authorize", "poll"} /\ "net" \in FlowFaults
  /\ grant' \in {grant} \cup (IF grant = "granted" THEN {"used"} ELSE {})
  /\ step' = "failed" /\ upset' = "request"
  /\ UNCHANGED <<interval, atLeast>>

\* Mutant of SlowDown: the client slows down by one second.
SlowDownByOne ==
  /\ step = "poll" /\ atLeast + 5 <= MaxInterval
  /\ interval < atLeast \/ ("hasty" \in FlowFaults /\ grant = "pending")
  /\ atLeast' = atLeast + 5
  /\ interval' = interval + 1 /\ step' = "sleep"
  /\ UNCHANGED <<grant, upset>>

SlowDown ==
  /\ step = "poll" /\ atLeast + 5 <= MaxInterval
  /\ interval < atLeast \/ ("hasty" \in FlowFaults /\ grant = "pending")
  /\ atLeast' = atLeast + 5
  /\ interval' = interval + 5 /\ step' = "sleep"
  /\ UNCHANGED <<grant, upset>>

Pending ==
  /\ step = "poll" /\ interval >= atLeast /\ grant = "pending"
  /\ step' = "sleep"
  /\ UNCHANGED <<interval, atLeast, grant, upset>>

\* Mutant of Granted: the answer is not read, and the client polls again.
GrantedUnread ==
  /\ step = "poll" /\ interval >= atLeast /\ grant = "granted"
  /\ grant' = "used" /\ step' = "sleep"
  /\ UNCHANGED <<interval, atLeast, upset>>

Granted ==
  /\ step = "poll" /\ interval >= atLeast /\ grant = "granted"
  /\ grant' = "used" /\ step' = "token"
  /\ UNCHANGED <<interval, atLeast, upset>>

Refused ==
  /\ step = "poll" /\ interval >= atLeast /\ grant \in {"denied", "expired", "used"}
  /\ step' = "failed"
  /\ UNCHANGED <<interval, atLeast, grant, upset>>

\* Any error but the four, or neither a token nor an error, ends the flow whatever
\* has become of the code: the server's own trouble, or what stands before it.
AnsweredOtherwise ==
  /\ step = "poll" /\ "other" \in FlowFaults
  /\ grant' \in {grant} \cup (IF grant = "granted" THEN {"used"} ELSE {})
  /\ step' = "failed" /\ upset' = "answer"
  /\ UNCHANGED <<interval, atLeast>>

\* The user authorizes or denies, or lets the code expire.
Decide ==
  /\ step \in {"sleep", "poll"} /\ grant = "pending"
  /\ grant' \in {"granted", "denied", "expired"}
  /\ UNCHANGED <<step, interval, atLeast, upset>>

\* `connect` takes the token or the error, and the flow is over.
Reset ==
  /\ Ended /\ step' = "idle"
  /\ interval' = 0 /\ atLeast' = 0 /\ grant' = "none" /\ upset' = "none"

FlowStep ==
  \/ Authorize \/ Sleep \/ RequestFails \/ SlowDown \/ Pending \/ Granted \/ Refused
  \/ AnsweredOtherwise \/ Decide
----------------------------------------------------------------------------
\* The client keeps to the pace the server asks for, however often it is slowed
\* down: it is never the client's haste that makes the server put it off again.
KeepsPace == step = "poll" => interval >= atLeast

\* An authorization in time, before the code expires under the next poll, is
\* redeemed: of a code its user authorized, the flow fails only because one of its
\* requests was lost, or was answered with something that says nothing of the code.
\* (Once is enough: no poll that fails is repeated.)
GrantRedeemed == step = "failed" /\ grant \in {"granted", "used"} => upset # "none"
============================================================================
