--------------------------- MODULE MCConnections ---------------------------
(***************************************************************************)
(* Instances of Connections for TLC: the GitHub and GitLab presets of the  *)
(* built-in registry, a self-hosted instance, and one whose host name is   *)
(* "gitlab": the id, so the keychain item, of the built-in GitLab preset.  *)
(***************************************************************************)
EXTENDS Connections, TLC

Github == [id |-> "github", hosts |-> {"github.com"}, refs |-> <<"kc:github", "env:GITHUB">>,
           legacy |-> None]
GheAcme == [id |-> "acme", hosts |-> {"acme.com"}, refs |-> <<"kc:acme">>,
            legacy |-> None]
Gitlab == [id |-> "gitlab", hosts |-> {"gitlab.savvifi.com"}, refs |-> <<"kc:gitlab">>,
           legacy |-> None]
GitlabAtGitlab == [id |-> "gitlab", hosts |-> {"gitlab"}, refs |-> <<"kc:gitlab">>,
                   legacy |-> None]

TwoPresets    == {Github, GheAcme}
MCDefaults    == {Github}
MCKeychain    == {"kc:github", "kc:acme"}
MCEnv         == {"env:GITHUB"}
MCHosts       == {"github.com", "acme.com"}
MCIds         == {"github", "acme"}
ClashPresets  == {GheAcme, GitlabAtGitlab}
ClashDefaults == {Gitlab}
ClashKeychain == {"kc:acme", "kc:gitlab"}
ClashHosts    == {"acme.com", "gitlab.savvifi.com", "gitlab"}
ClashIds      == {"acme", "gitlab"}
AllFaults     == FaultKinds

RaceSymmetry  == Permutations(Tokens) \cup Permutations(Writers)
============================================================================
