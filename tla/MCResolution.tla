--------------------------- MODULE MCResolution ---------------------------
(***************************************************************************)
(* Instances of Resolution for TLC: GitHub, two providers on one instance  *)
(* of their own (same host, so same id, but not the same keychain item), a *)
(* GitHub entry of an old registry, and requests that dress the hosts in   *)
(* every combination of scheme, user, port, path and query.                *)
(***************************************************************************)
EXTENDS Resolution, TLC

MCLabels ==
  ("github.com" :> <<"github", "com">>) @@ ("acme.com" :> <<"acme", "com">>)
  @@ ("git.acme.com" :> <<"git", "acme", "com">>) @@ ("notacme.com" :> <<"notacme", "com">>)
  @@ ("gitlab.savvifi.com" :> <<"gitlab", "savvifi", "com">>) @@ ("[::1]" :> <<"[::1]">>)

MCHosts == DOMAIN MCLabels

MCOffered == {<<"github", "">>, <<"gitlab", "acme.com">>, <<"buildbuddy", "acme.com">>}
MCGiven   == {<<"gitlab", "acme.com">>}
MCPresets == {Built(o[1], o[2]) : o \in MCOffered}
MCDefaults == {Built("github", "")}
MCIds == {c.id : c \in MCPresets}

\* What Connections assumes of the presets, of every provider on every host and
\* on its default.
ASSUME PresetsSeparateItems ==
  \A p, q \in Providers, g, h \in MCHosts \cup {""} :
    Preset(p, g).refs[1] = Preset(q, h).refs[1] => Preset(p, g).id = Preset(q, h).id

OldItem == <<"keychain", "old", "github", "oauth">>
OneLegacy == {[id |-> "github", hosts |-> Built("github", "").hosts, refs |-> <<>>, legacy |-> OldItem]}

MCKeychain == {c.refs[1] : c \in MCPresets} \cup {OldItem}
MCEnv == UNION {RefsOf(c) : c \in MCPresets} \ MCKeychain
MCEnvironments == {{}, {EnvRef(<<"GH_TOKEN">>), CanonicalEnvVar("acme.com"), EnvRef(<<"GITLAB_TOKEN">>)}}

\* The requests, as their parts.
Names   == {<<"github.com">>, <<"git.acme.com">>, <<"notacme.com">>, <<"[", ":", ":", "1", "]">>, <<>>}
Schemes == {<<>>, <<"https", ":", "/", "/">>}
Users   == {<<>>, <<"u", ":", "pw", "@">>}
Ports   == {<<>>, <<":", "443">>}
Paths   == {<<>>, <<"/", "o", "\\u003d", "@", "r">>, <<"\\/", "o">>}
Queries == {<<>>, <<"?", "u", ":", "/", "/", "acme.com", "/", "r">>, <<"#", "f">>}

Decoded(s) == [i \in DOMAIN s |-> IF s[i] \in DOMAIN URI!Unescaped THEN URI!Unescaped[s[i]] ELSE s[i]]
Body(uri)  == <<"{", "\"", "uri", "\"", ":", "\"">> \o uri \o <<"\"", "}">>

MCRequests ==
  {[body |-> Body(s \o u \o h \o o \o f \o q),
    host |-> IF h = <<>> THEN None ELSE IF Len(h) = 1 THEN h[1] ELSE "[::1]",
    path |-> IF f # <<>> THEN Decoded(f) ELSE <<"/">>,
    bare |-> s = <<>> /\ Len(q) > 2, slashed |-> f = <<>> /\ Len(q) > 2]
   : s \in Schemes, u \in Users, h \in Names, o \in Ports, f \in Paths, q \in Queries}

TokenSymmetry == Permutations(Tokens)
============================================================================
