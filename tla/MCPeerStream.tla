---------------------------- MODULE MCPeerStream ----------------------------
EXTENDS PeerStream

\* The acceptor copies more than the dialer takes, then what it does take.
MCCopies == [e \in End |-> IF e = "dialer" THEN <<2>> ELSE <<3, 1>>]
MCLimit == [e \in End |-> IF e = "dialer" THEN 2 ELSE 3]

=============================================================================
