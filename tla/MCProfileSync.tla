--------------------------- MODULE MCProfileSync ---------------------------
\* Small instances of ProfileSync for TLC.
EXTENDS ProfileSync, TLC

Symmetry ==
    Permutations(Addrs) \cup Permutations(Keys) \cup Permutations(Dicts)
        \cup Permutations(Values \ {Empty})

\* States that differ in dicts no thread can reach are the same state.
View ==
    <<profile, peers, [d \in Dicts \ Free |-> <<dict[d], greeted[d]>>], recv, disc, ui, told>>

=============================================================================
