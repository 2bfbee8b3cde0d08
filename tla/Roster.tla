------------------------------- MODULE Roster -------------------------------
(***************************************************************************)
(* What the peer table of a session promises to the rest of the program:   *)
(* a limited number of slots, each of which a peer takes, is connected in, *)
(* and leaves.  It says nothing of dicts, keys, locks or threads.          *)
(* PeerTable implements it.                                                *)
(***************************************************************************)
EXTENDS Naturals, FiniteSets

CONSTANTS Addrs, Slots

VARIABLE status  \* of the peer at each address

Present == {a \in Addrs : status[a] # "absent"}

Init == status = [a \in Addrs |-> "absent"]

\* A peer takes a free slot.
Take(a) ==
    /\ status[a] = "absent" /\ Cardinality(Present) < Slots
    /\ status' = [status EXCEPT ![a] = "waiting"]

\* The handshake of the peer at a is completed.
Connect(a) ==
    /\ status[a] = "waiting"
    /\ status' = [status EXCEPT ![a] = "connected"]

Leave(a) ==
    /\ status[a] # "absent"
    /\ status' = [status EXCEPT ![a] = "absent"]

\* The peer at a is heard from b: its slot moves and its handshake starts again.
Move(a, b) ==
    /\ a # b /\ status[a] # "absent"
    /\ status' = [status EXCEPT ![a] = "absent", ![b] = "waiting"]

Next ==
    \/ \E a \in Addrs : Take(a) \/ Connect(a) \/ Leave(a)
    \/ \E a, b \in Addrs : Move(a, b)

Spec == Init /\ [][Next]_status

=============================================================================
