--------------------------- MODULE IdentityProofs ---------------------------
(***************************************************************************)
(* Proofs about Identity, for any callers, accounts and logins and any     *)
(* faults: the types, whose code is redeemed, and what the two stored      *)
(* tokens say of each other.                                               *)
(***************************************************************************)
EXTENDS Identity, TLAPS

Bound == {"open", "accept", "read", "exchange"}
Entitled == {"exchange", "access", "register", "verify", "keep"}

\* Each login by itself: what it has learnt at each of its steps, and that the port
\* is its own, with the connection it reads.
FlowInv ==
  \A p \in Callers :
    /\ pc[p] \in {"open", "accept", "read"} => flow[p].nonce \in issued
    /\ pc[p] \in Bound => port = p
    /\ pc[p] = "read" => conn # None
    /\ pc[p] \in Entitled => flow[p].user \in Users
    /\ pc[p] = "keep" => flow[p].idToken = "genuine"
    /\ flow[p].from \in {None, flow[p].nonce}

\* As long as no operation has stopped halfway and none overlapped another, who is
\* between its two stores is alone, and has done the first.
WholeInv ==
  whole =>
    /\ \A p, q \in Callers : pc[p] # "idle" /\ pc[q] # "idle" => p = q
    /\ registry = "listed" \/ access = None \/ \E p \in Callers : pc[p] = "register"
    /\ \A p \in Callers :
         /\ pc[p] \in {"register", "verify", "keep"} => access = flow[p].user
         /\ pc[p] \in {"verify", "keep"} => registry = "listed"
         /\ pc[p] = "unlist" => idToken = None
    /\ TokenMatchesIdentity

Inv == TypeOK /\ FlowInv /\ WhoAmITrustsVerified /\ WholeInv

FlowType == [nonce: Nonces \cup {None}, from: Nonces \cup {None},
             user: Users \cup {None}, idToken: {"missing", "forged", "genuine"}]

LEMMA NoFlowType == NoFlow \in FlowType /\ NoFlow.from = None
BY DEF NoFlow, FlowType

LEMMA CallType ==
  /\ Silence \in Call
  /\ \A n \in Nonces \cup {None}, u \in Users \cup {None} : Says(n, u) \in Call
BY DEF Silence, Says, Call

LEMMA InvInit == Init => Inv
<1> SUFFICES ASSUME Init PROVE Inv
  OBVIOUS
<1> USE IdentityConstants, NoFlowType DEF Init
<1>1. \A p \in Callers : pc[p] = "idle" /\ flow[p] = NoFlow OBVIOUS
<1>2. TypeOK
  <2>1. flow \in [Callers -> FlowType] OBVIOUS
  <2>2. backlog \in Seq(Call) OBVIOUS
  <2> QED BY <2>1, <2>2 DEF TypeOK, FlowType, Call
<1>3. WholeInv BY <1>1 DEF WholeInv, TokenMatchesIdentity
<1> QED BY <1>1, <1>2, <1>3 DEF Inv, FlowInv, WhoAmITrustsVerified, Entitled, Bound

\* The first connection of a backlog that is not empty, and what is left of it.
LEMMA Backlog ==
  ASSUME NEW s \in Seq(Call)
  PROVE  /\ s # <<>> => Head(s) \in Call /\ Tail(s) \in Seq(Call)
         /\ \A c \in Call : Append(s, c) \in Seq(Call)
         /\ \A c \in Call, i \in DOMAIN s : [s EXCEPT ![i] = c] \in Seq(Call)
OBVIOUS
----------------------------------------------------------------------------
\* The types and each login's own invariant, one action at a time.
LEMMA FlowStep == Inv /\ [Next]_vars => TypeOK' /\ FlowInv' /\ WhoAmITrustsVerified'
<1> DEFINE Goal == TypeOK' /\ FlowInv' /\ WhoAmITrustsVerified'
<1> SUFFICES ASSUME Inv, [Next]_vars PROVE Goal
  OBVIOUS
<1>0. backlog \in Seq(Call) /\ flow \in [Callers -> FlowType]
  BY DEF Inv, TypeOK, Call, FlowType
<1>1. /\ <<>> \in Seq(Call)
      /\ backlog # <<>> => Head(backlog) \in Call /\ Tail(backlog) \in Seq(Call)
      /\ \A c \in Call : Append(backlog, c) \in Seq(Call)
  BY <1>0, Backlog
<1> USE <1>0, <1>1, IdentityConstants, NoFlowType
        DEF Inv, TypeOK, FlowInv, WhoAmITrustsVerified, FlowType, Call, Bound, Entitled,
            Goto, Return, Unbind, browser, storage, ledger, net
<1>2. ASSUME NEW p \in Callers, StartLogin(p) PROVE Goal
  <2>1. PICK n \in Nonces \ issued :
          /\ issued' = issued \cup {n}
          /\ flow' = [flow EXCEPT ![p] = [NoFlow EXCEPT !.nonce = n]]
    BY <1>2 DEF StartLogin
  <2>2. [NoFlow EXCEPT !.nonce = n] \in FlowType /\ [NoFlow EXCEPT !.nonce = n].nonce = n
        /\ [NoFlow EXCEPT !.nonce = n].from = None
    BY DEF NoFlow
  <2>3. flow' \in [Callers -> FlowType] /\ whole' \in BOOLEAN
    BY <1>2, <2>1, <2>2 DEF StartLogin, Alone
  <2> QED BY <1>2, <2>1, <2>2, <2>3 DEF StartLogin
<1>3. ASSUME NEW p \in Callers, PortInUse(p) PROVE Goal
  BY <1>3 DEF PortInUse
<1>4. ASSUME NEW p \in Callers, StartLogout(p) PROVE Goal
  BY <1>4 DEF StartLogout, Alone
<1>5. ASSUME NEW p \in Callers, OpenTab(p) PROVE Goal
  BY <1>5 DEF OpenTab
<1>19. ASSUME NEW p \in Callers, Accept(p) PROVE Goal
  BY <1>19 DEF Accept
<1>6. ASSUME NEW p \in Callers, AcceptCode(p) PROVE Goal
  <2>1. /\ conn \in Call /\ conn.user \in Users /\ conn.nonce = flow[p].nonce
        /\ flow' = [flow EXCEPT ![p] = [@ EXCEPT !.user = conn.user, !.from = conn.nonce]]
    <3>1. conn # None BY <1>6 DEF AcceptCode
    <3> QED BY <1>6, <3>1 DEF AcceptCode
  <2>2. flow' \in [Callers -> FlowType]
    <3>1. [flow[p] EXCEPT !.user = conn.user, !.from = conn.nonce] \in FlowType BY <2>1
    <3> QED BY <2>1, <3>1
  <2>3. flow'[p].user \in Users /\ flow'[p].from = flow'[p].nonce BY <2>1
  <2>4. \A q \in Callers \ {p} : flow'[q] = flow[q] BY <2>1
  <2> QED BY <1>6, <2>2, <2>3, <2>4 DEF AcceptCode
<1>7. ASSUME NEW p \in Callers, RejectRedirect(p) PROVE Goal
  BY <1>7 DEF RejectRedirect
<1>8. ASSUME NEW p \in Callers, ExchangeCode(p) PROVE Goal
  <2>1. PICK t \in {"missing", "forged", "genuine"} : flow' = [flow EXCEPT ![p].idToken = t]
    BY <1>8 DEF ExchangeCode
  <2>2. flow' \in [Callers -> FlowType] BY <2>1
  <2>3. \A q \in Callers : /\ flow'[q].user = flow[q].user /\ flow'[q].from = flow[q].from
                           /\ flow'[q].nonce = flow[q].nonce
                           /\ q # p => flow'[q] = flow[q]
    BY <2>1
  <2> QED BY <1>8, <2>2, <2>3 DEF ExchangeCode
<1>9. ASSUME NEW p \in Callers, ExchangeFails(p) PROVE Goal
  BY <1>9 DEF ExchangeFails
<1>10. ASSUME NEW p \in Callers, StoreAccess(p) \/ Register(p) \/ Verify(p) PROVE Goal
  BY <1>10 DEF StoreAccess, Register, Verify
<1>11. ASSUME NEW p \in Callers, KeepIdToken(p) PROVE Goal
  <2>1. idToken' \in [user: Users, genuine: BOOLEAN] /\ idToken'.genuine
    BY <1>11 DEF KeepIdToken
  <2> QED BY <1>11, <2>1 DEF KeepIdToken
<1>12. ASSUME NEW p \in Callers, LoginFails(p) PROVE Goal
  BY <1>12 DEF LoginFails
<1>13. ASSUME NEW p \in Callers, ForgetIdToken(p) PROVE Goal
  BY <1>13 DEF ForgetIdToken
<1>14. ASSUME NEW p \in Callers, Disconnect(p) PROVE Goal
  <2>1. access' \in Users \cup {None} /\ registry' \in {"unlisted", "listed", "unreadable"}
    BY <1>14 DEF Disconnect
  <2> QED BY <1>14, <2>1 DEF Disconnect
<1>15. ASSUME NEW n \in Nonces, Answer(n) PROVE Goal
  <2>1. PICK u \in Users \cup {None} : Send(Says(n, u))
    BY <1>15 DEF Answer
  <2>2. Says(n, u) \in Call BY CallType
  <2>3. /\ backlog' \in Seq(Call) /\ conn' \in Call \cup {None}
        /\ conn # None => conn' # None
    <3>1. CASE Queue(Says(n, u)) BY <2>2, <3>1 DEF Queue
    <3>2. CASE /\ \E k \in DOMAIN backlog : backlog[k].silent /\ backlog' = [backlog EXCEPT ![k] = Says(n, u)]
               /\ UNCHANGED conn
      BY <2>2, <3>2
    <3>3. CASE conn = Silence /\ conn' = Says(n, u) /\ UNCHANGED backlog
      BY <2>2, <3>3
    <3> QED BY <2>1, <3>1, <3>2, <3>3 DEF Send
  <2> QED BY <1>15, <2>3 DEF Answer
<1>16. ASSUME NEW n \in Nonces, CloseTab(n) PROVE Goal
  BY <1>16 DEF CloseTab
<1>17. CASE StrayConnection
  <2>1. PICK c \in {Says(None, None), Silence} : Queue(c) BY <1>17 DEF StrayConnection
  <2>2. c \in Call BY <2>1, CallType
  <2>3. backlog' \in Seq(Call) /\ conn' = conn BY <2>1, <2>2 DEF Queue
  <2> QED BY <1>17, <2>3 DEF StrayConnection
<1>20. CASE HangUp
  <2>1. conn' \in Call BY <1>20, CallType DEF HangUp
  <2> QED BY <1>20, <2>1 DEF HangUp
<1>18. CASE UNCHANGED vars BY <1>18 DEF vars
<1> QED
  BY <1>2, <1>3, <1>4, <1>5, <1>6, <1>7, <1>8, <1>9, <1>10, <1>11, <1>12, <1>13, <1>14, <1>15,
     <1>16, <1>17, <1>18, <1>19, <1>20 DEF Next, Step

\* What the two stores hold, while every operation runs alone and to its end.
LEMMA WholeStep == Inv /\ [Next]_vars => WholeInv'
<1> SUFFICES ASSUME Inv, [Next]_vars, whole' PROVE WholeInv'
  BY DEF WholeInv
<1>1. whole
  BY DEF Next, Step, StartLogin, PortInUse, StartLogout, OpenTab, Accept, AcceptCode, RejectRedirect,
     ExchangeCode, ExchangeFails, StoreAccess, Register, Verify, KeepIdToken, LoginFails,
     ForgetIdToken, Disconnect, Answer, CloseTab, StrayConnection, HangUp, vars, ledger
<1> USE <1>1, IdentityConstants
        DEF Inv, TypeOK, FlowInv, WholeInv, TokenMatchesIdentity, Entitled, Goto, Return, storage,
            ledger
<1>2. ASSUME NEW p \in Callers, StartLogin(p) PROVE WholeInv'
  BY <1>2 DEF StartLogin, Alone
<1>3. ASSUME NEW p \in Callers, StartLogout(p) PROVE WholeInv'
  BY <1>3 DEF StartLogout, Alone
<1>4. ASSUME NEW p \in Callers, OpenTab(p) PROVE WholeInv'
  BY <1>4 DEF OpenTab
<1>17. ASSUME NEW p \in Callers, Accept(p) PROVE WholeInv'
  BY <1>17 DEF Accept
<1>5. ASSUME NEW p \in Callers, AcceptCode(p) PROVE WholeInv'
  BY <1>5 DEF AcceptCode
<1>6. ASSUME NEW p \in Callers, RejectRedirect(p) PROVE WholeInv'
  BY <1>6 DEF RejectRedirect
<1>7. ASSUME NEW p \in Callers, ExchangeCode(p) PROVE WholeInv'
  BY <1>7 DEF ExchangeCode
<1>8. ASSUME NEW p \in Callers, ExchangeFails(p) PROVE WholeInv'
  BY <1>8 DEF ExchangeFails
<1>9. ASSUME NEW p \in Callers, StoreAccess(p) PROVE WholeInv'
  BY <1>9 DEF StoreAccess
<1>10. ASSUME NEW p \in Callers, Register(p) PROVE WholeInv'
  BY <1>10 DEF Register
<1>11. ASSUME NEW p \in Callers, Verify(p) PROVE WholeInv'
  BY <1>11 DEF Verify
<1>12. ASSUME NEW p \in Callers, KeepIdToken(p) PROVE WholeInv'
  <2>1. pc[p] = "keep" /\ registry = "listed" /\ \A q \in Callers \ {p} : pc[q] = "idle"
    BY <1>12 DEF KeepIdToken
  <2>2. \A q \in Callers : pc'[q] = "idle" BY <1>12, <2>1 DEF KeepIdToken
  <2>3. /\ idToken' = [user |-> access, genuine |-> flow[p].idToken = "genuine"]
        /\ access \in Users /\ access' = access /\ registry' = registry
    BY <1>12, <2>1 DEF KeepIdToken
  <2>4. idToken' \in [user: Users, genuine: BOOLEAN]
    <3>1. (flow[p].idToken = "genuine") \in BOOLEAN OBVIOUS
    <3> QED BY <2>3, <3>1
  <2>5. idToken' # None BY <2>4
  <2>6. idToken'.user = access BY <2>3
  <2> QED BY <2>1, <2>2, <2>3, <2>5, <2>6
<1>13. ASSUME NEW p \in Callers, LoginFails(p) PROVE WholeInv'
  <2>1. pc[p] = "access" BY <1>13 DEF LoginFails
  <2> QED BY <1>13, <2>1 DEF LoginFails
<1>14. ASSUME NEW p \in Callers, ForgetIdToken(p) PROVE WholeInv'
  <2>1. /\ pc[p] = "forget" /\ pc' = [pc EXCEPT ![p] = "unlist"] /\ idToken' = None
        /\ access' = access /\ registry' = registry
    BY <1>14 DEF ForgetIdToken
  <2>2. \A q \in Callers \ {p} : pc[q] = "idle" /\ pc'[q] = "idle" BY <2>1
  <2>3. registry = "listed" \/ access = None BY <2>1, <2>2
  <2> QED BY <2>1, <2>2, <2>3
<1>15. ASSUME NEW p \in Callers, Disconnect(p) PROVE WholeInv'
  <2>1. pc[p] = "unlist" /\ idToken = None /\ \A q \in Callers \ {p} : pc[q] = "idle"
    BY <1>15 DEF Disconnect
  <2>2. access' = None /\ idToken' = None
    <3>1. CASE registry = "listed" BY <1>15, <2>1, <3>1 DEF Disconnect
    <3>2. CASE registry # "listed" BY <1>15, <2>1, <3>2 DEF Disconnect
    <3> QED BY <3>1, <3>2
  <2> QED BY <1>15, <2>1, <2>2 DEF Disconnect
<1>16. CASE UNCHANGED <<pc, flow, storage, whole>> BY <1>16
<1> QED
  BY <1>2, <1>3, <1>4, <1>5, <1>6, <1>7, <1>8, <1>9, <1>10, <1>11, <1>12, <1>13, <1>14, <1>15,
     <1>16, <1>17 DEF Next, Step, PortInUse, Answer, CloseTab, StrayConnection, HangUp, vars
----------------------------------------------------------------------------
LEMMA Invariance == Spec => []Inv
<1>1. Inv /\ [Next]_vars => Inv' BY FlowStep, WholeStep DEF Inv
<1> QED BY <1>1, InvInit, PTL DEF Spec

\* The types of the logins, the browser's tabs, the port and the stores.
THEOREM TypeCorrect == Spec => []TypeOK
<1>1. Inv => TypeOK BY DEF Inv
<1> QED BY <1>1, Invariance, PTL

\* However many logins race for the port, and whatever stale tabs and strangers
\* send to it: a login exchanges no code but that of its own tab.
THEOREM OwnCode == Spec => []OwnCodeOnly
<1>1. Inv => OwnCodeOnly BY DEF Inv, FlowInv, OwnCodeOnly
<1> QED BY <1>1, Invariance, PTL

\* No interleaving and no failure leaves an id_token that was not verified.
THEOREM StoredIsVerified == Spec => []WhoAmITrustsVerified
<1>1. Inv => WhoAmITrustsVerified BY DEF Inv
<1> QED BY <1>1, Invariance, PTL

\* For any callers and accounts, the two stores agree between operations, until
\* one stops halfway or two overlap.
THEOREM StoresAgree == Spec => []TokenMatchesIdentity
<1>1. Inv => TokenMatchesIdentity BY DEF Inv, WholeInv, TokenMatchesIdentity
<1> QED BY <1>1, Invariance, PTL
============================================================================
