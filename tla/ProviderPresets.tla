-------------------------- MODULE ProviderPresets --------------------------
(***************************************************************************)
(* The connections the program can build: one per provider and instance    *)
(* host. What is kept of a connection is its id, the hosts its patterns    *)
(* match and where its secret may live; of its OAuth configuration,        *)
(* whether there is a client id and a device endpoint.                     *)
(***************************************************************************)
EXTENDS Sequences, SequencesExt

CONSTANT LabelsOf  \* the labels of each host name: "api.github.com" has three

Providers == {"github", "gitlab", "buildbuddy", "fastverk"}

DefaultHost ==
  [github |-> "github.com", gitlab |-> "gitlab.savvifi.com",
   buildbuddy |-> "remote.buildbuddy.io", fastverk |-> "botnoc-msoftware"]

Instance(provider, host) == IF host = "" THEN DefaultHost[provider] ELSE host

ConnectionId(provider, host) == IF host = DefaultHost[provider] THEN provider ELSE host

\* `*.suffix` matches the suffix and everything under it.
Exact(host) == [wild |-> FALSE, host |-> host]
Under(host) == [wild |-> TRUE, host |-> host]

HostMatches(pattern, host) ==
  IF pattern.wild THEN IsSuffix(LabelsOf[pattern.host], LabelsOf[host]) ELSE pattern.host = host

HostPatterns(provider, host) ==
  CASE provider = "github" /\ host = "github.com" ->
         {Exact("github.com"), Under("github.com"),
          Exact("raw.githubusercontent.com"), Exact("codeload.github.com")}
    [] provider = "gitlab" \/ (provider = "github" /\ host # "github.com") ->
         {Exact(host), Under(host)}
    [] provider = "buildbuddy" -> {Exact(host)}
    [] provider = "fastverk" -> {Exact("botnoc.msoftware.co")}

AuthKind(provider) == IF provider = "buildbuddy" THEN "api-key" ELSE "oauth"
HasDeviceEndpoint(provider) == provider \in {"github", "gitlab"}

\* A client id is bundled for the default instances only; a given one wins.
HasClientId(provider, host, given) ==
  given \/ (AuthKind(provider) = "oauth" /\ Instance(provider, host) = DefaultHost[provider])

(***************************************************************************)
(* Where a secret may live. An environment variable is named by its words: *)
(* every character that is not alphanumeric (here: the dot) becomes "_".   *)
(***************************************************************************)
KeychainRef(id, account) == <<"keychain", "fastverk", id, account>>
EnvRef(words) == <<"env">> \o words

CanonicalEnvVar(id) ==
  EnvRef(<<"FASTVERK_TOKEN">> \o (IF id \in Providers THEN <<id>> ELSE LabelsOf[id]))

EnvAliases(provider, host) ==
  IF host = "gitlab.savvifi.com"
  THEN <<CanonicalEnvVar(host), EnvRef(<<"AION_NPM_TOKEN">>),
         EnvRef(<<"GITLAB_SAVVIFI_TOKEN">>), EnvRef(<<"GITLAB_TOKEN">>)>>
  ELSE CASE provider = "github"     -> <<EnvRef(<<"GITHUB_TOKEN">>), EnvRef(<<"GH_TOKEN">>)>>
         [] provider = "gitlab"     -> <<EnvRef(<<"GITLAB_TOKEN">>)>>
         [] provider = "buildbuddy" -> <<EnvRef(<<"BUILDBUDDY_API_KEY">>)>>
         [] OTHER -> <<>>

\* The refs in the order they are tried; an environment ref is its name and then
\* each of its aliases.
SecretRefs(provider, host, id) ==
  <<KeychainRef(id, AuthKind(provider)), CanonicalEnvVar(id)>> \o EnvAliases(provider, host)

Preset(provider, given) ==
  LET host == Instance(provider, given)
      id   == ConnectionId(provider, host)
  IN  [id |-> id, refs |-> SecretRefs(provider, host, id),
       hosts |-> {h \in DOMAIN LabelsOf :
                    \E pattern \in HostPatterns(provider, host) : HostMatches(pattern, h)}]

\* Their hosts are disjoint, so the order in the registry does not show.
DefaultRegistry == {Preset(provider, "") : provider \in {"github", "gitlab", "buildbuddy"}}
============================================================================
