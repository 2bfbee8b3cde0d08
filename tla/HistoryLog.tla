----------------------------- MODULE HistoryLog -----------------------------
(***************************************************************************)
(* What the chat history promises: for each room, the last Limit messages  *)
(* logged, in the order they were logged, whoever logs at the same time    *)
(* and whatever happens in other rooms.                                    *)
(***************************************************************************)
EXTENDS Naturals, Sequences

CONSTANTS Rooms, Bodies, Limit

VARIABLES
    log,     \* what is shown of each room
    logged   \* how many messages were ever logged, in all rooms

vars == <<log, logged>>

LastN(s, n) == IF Len(s) <= n THEN s ELSE SubSeq(s, Len(s) - n + 1, Len(s))

Init == log = [r \in Rooms |-> <<>>] /\ logged = 0

Post(r, b) ==
    /\ log' = [log EXCEPT ![r] = LastN(Append(@, b), Limit)]
    /\ logged' = logged + 1

Next == \E r \in Rooms, b \in Bodies : Post(r, b)

Spec == Init /\ [][Next]_vars

=============================================================================
