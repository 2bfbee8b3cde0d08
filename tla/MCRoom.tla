------------------------------- MODULE MCRoom -------------------------------
\* Small instances of Room for TLC.
EXTENDS Room, TLC

\* Packets that may still be read: none to a node that does not come back, and
\* no control packet for a session that is over.
Readable(p) ==
    /\ In(p.to) \/ (p.to # Host /\ In(Host) /\ sess[p.to] < MaxSessions)
    /\ p \in Controls => In(p.to) /\ p.for = sess[p.to]

\* What becomes of the session a guest is in, and what CodeNeeded asks of it.
Joined(g) ==
    [code |-> code[g], clean |-> g \in clean, inbox |-> {c \in inbox[g] : Authentic(g, c)},
     had |-> g \in clean => code[g] \in offered[g]]

\* States that differ only in packets nobody reads any more, in what the next
\* session of a guest sets anew or in a longer history are the same state.
View ==
    <<In(Host), sess, peers, banned, punching, handling,
      IF In(Host) THEN code[Host] ELSE None,
      [g \in {m \in Guests : In(m)} |-> Joined(g)],
      {p \in net : Readable(p)}>>

=============================================================================
