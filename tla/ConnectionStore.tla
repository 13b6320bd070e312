-------------------------- MODULE ConnectionStore --------------------------
(***************************************************************************)
(* What `connect`, `disconnect` and `resolve` promise: one atomic map from *)
(* ids to connections and one from locations to secrets, changed together. *)
(* Module Connections implements it when its changes are serialised and    *)
(* nothing fails (its ImplementsStore).                                    *)
(***************************************************************************)
EXTENDS Naturals, Sequences

CONSTANTS Actors, Presets, Known, Defaults, KeychainLocs, Locs, Tokens, Ambient, Hosts, None

VARIABLES listed,  \* the connections of the user's registry
          held,    \* what each secret location holds
          answer   \* what each actor's last resolve returned

storeVars == <<listed, held, answer>>

StoreInit ==
  /\ listed \subseteq Known
  /\ held \in [Locs -> Tokens \cup {Ambient, None}]
  /\ answer = [p \in Actors |-> [host |-> None, conn |-> None, token |-> None]]

\* The connection replaces the one of the same id, and its first keychain item
\* holds the token.
Put(c, t) ==
  /\ listed' = {d \in listed : d.id # c.id} \cup {c}
  /\ \E i \in DOMAIN c.refs :
       /\ c.refs[i] \in KeychainLocs
       /\ \A k \in 1..(i - 1) : c.refs[k] \notin KeychainLocs
       /\ held' = [held EXCEPT ![c.refs[i]] = t]
  /\ UNCHANGED answer

\* The connection goes, and its keychain items with it.
Take(c) ==
  /\ c \in listed
  /\ listed' = listed \ {c}
  /\ held' = [l \in Locs |-> IF l \in KeychainLocs /\ \E i \in DOMAIN c.refs : c.refs[i] = l
                             THEN None ELSE held[l]]
  /\ UNCHANGED answer

\* A listed connection that matches the host, else a built-in one, and the
\* first of its locations that holds something; none for a request without host.
Candidates(h) ==
  LET mine == {c \in listed : h \in c.hosts}
  IN  IF mine # {} THEN mine ELSE {c \in Defaults : h \in c.hosts}

FirstHeld(c) ==
  LET full == {i \in DOMAIN c.refs : held[c.refs[i]] # None}
  IN  IF full = {} THEN None
      ELSE held[c.refs[CHOOSE i \in full : \A k \in full : i <= k]]

Look(p, h) ==
  /\ \/ \E c \in Candidates(h) :
          answer' = [answer EXCEPT ![p] = [host |-> h, conn |-> c, token |-> FirstHeld(c)]]
     \/ /\ Candidates(h) = {}
        /\ answer' = [answer EXCEPT ![p] = [host |-> h, conn |-> None, token |-> None]]
  /\ UNCHANGED <<listed, held>>

StoreNext ==
  \/ \E c \in Presets, t \in Tokens : Put(c, t)
  \/ \E c \in Known : Take(c)
  \/ \E p \in Actors, h \in Hosts \cup {None} : Look(p, h)

StoreSpec == StoreInit /\ [][StoreNext]_storeVars
============================================================================
