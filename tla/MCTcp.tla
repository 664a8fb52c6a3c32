------------------------------- MODULE MCTcp -------------------------------
EXTENDS Tcp, TLC

CONSTANTS c1, c2, c3

const_Clients == {c1, c2, c3}

\* One of the peers starts just below the point where numbers wrap.
const_Iss == c1 :> 1 @@ c2 :> 7 @@ c3 :> 3
=============================================================================
