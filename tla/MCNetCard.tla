----------------------------- MODULE MCNetCard -----------------------------
EXTENDS NetCard, TLC

CONSTANTS h1, h2, m1, a1, a2

const_Hosts == {h1, h2}

\* ARP frames are short, echo requests long.
const_Words == "arp_request" :> 1 @@ "arp_reply" :> 1 @@ "echo_request" :> 2
                   @@ "echo_reply" :> 2 @@ "other" :> 3
=============================================================================
