---------------------------- MODULE MCPeerTable ----------------------------
\* Small instances of PeerTable for TLC.
EXTENDS PeerTable, TLC

\* Every address behind one ip, as when all peers share a machine or a NAT.
OneIp == [a \in Addrs |-> CHOOSE i \in Ips : TRUE]

Symmetry ==
    Permutations(Addrs \ Dialled) \cup Permutations(Keys) \cup Permutations(Entries)
        \cup Permutations(Punchers) \cup Permutations(Sids)

\* States that differ in dicts no thread can reach are the same state.
View ==
    <<peers, [e \in Entries |-> IF e \in Reachable THEN entry[e] ELSE None],
      peerByPubkey, threads, settings>>

=============================================================================
