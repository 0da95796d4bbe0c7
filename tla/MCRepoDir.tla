----------------------------- MODULE MCRepoDir -----------------------------
(* A client started together with a second client, with a server, or with  *)
(* openDMD -s, on file systems with and without the ancestors of the       *)
(* repositories; the client and the server share theirs.                   *)
EXTENDS RepoDir

MCDatabaseRepo == <<"opt", "db">>
MCClientRepo == <<"opt", "dmd", "repo">>
MCServerRepo == <<"opt", "dmd", "repo">>
MCClients == <<"client-01">>

MCCasts == {[a |-> "client", b |-> r] : r \in Roles}

\* Nothing there, the top directory, and all but the repositories
MCFileSystems ==
    {{}, {<<"opt">>}, {<<"opt">>, <<"opt", "db">>, <<"opt", "dmd">>}}
=============================================================================
