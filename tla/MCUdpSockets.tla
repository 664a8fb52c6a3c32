---------------------------- MODULE MCUdpSockets ----------------------------
EXTENDS UdpSockets, TLC

CONSTANTS h1, h2, h3, m1, m2

const_Hosts == {h1, h2, h3}
const_Macs == {m1, m2}

const_Symmetry == Permutations(const_Hosts) \cup Permutations(const_Macs)
=============================================================================
