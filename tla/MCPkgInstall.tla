---------------------------- MODULE MCPkgInstall ----------------------------
EXTENDS PkgInstall, TLC

CONSTANTS server, other, m

const_Hosts == {server, other}
const_Macs == {m}

\* Sizes: a full chunk and a rest, and no such file; one chunk exactly, and one
\* byte; more than a file may hold.
const_Catalogs == {0 :> 3 @@ 1 :> -1, 0 :> 2 @@ 1 :> 1, 0 :> 5 @@ 1 :> -1}
=============================================================================
