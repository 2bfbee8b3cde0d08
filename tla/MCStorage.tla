----------------------------- MODULE MCStorage -----------------------------
\* Small instances of Storage for TLC.
EXTENDS Storage, TLC

Symmetry ==
    Permutations(Clients) \cup Permutations(Rooms) \cup Permutations(Names)
        \cup Permutations(SecretKeys)

\* The tables of a transaction that is over are of no consequence.
View == <<db, IF lock = None THEN None ELSE draft, lock, client>>

=============================================================================
