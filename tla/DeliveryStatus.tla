--------------------------- MODULE DeliveryStatus ---------------------------
(***************************************************************************)
(* What the verdict on an outgoing message promises: the message is        *)
(* pending until it is resolved, it is resolved once, and the verdict is   *)
(* "ok" only if every recipient the message was addressed to has received  *)
(* it, "partial" only if some recipient has.  "fail" promises nothing: the *)
(* acks may have been lost.                                                *)
(***************************************************************************)
CONSTANTS Msgs, Peers

VARIABLES
    status,      \* the verdict on each message
    recipients,  \* whom each message was addressed to
    received     \* who received it

vars == <<status, recipients, received>>

Final == {"ok", "partial", "fail"}

Init ==
    /\ status = [m \in Msgs |-> "none"]
    /\ recipients = [m \in Msgs |-> {}]
    /\ received = [m \in Msgs |-> {}]

\* The user sends m to the peers present at that moment.
Address(m, R) ==
    /\ status[m] = "none" /\ recipients[m] = {}
    /\ recipients' = [recipients EXCEPT ![m] = R]
    /\ UNCHANGED <<status, received>>

Arrive(m, p) ==
    /\ p \in recipients[m]
    /\ received' = [received EXCEPT ![m] = @ \cup {p}]
    /\ UNCHANGED <<status, recipients>>

Await(m) ==
    /\ status[m] = "none"
    /\ status' = [status EXCEPT ![m] = "pending"]
    /\ UNCHANGED <<recipients, received>>

Resolve(m, s) ==
    /\ status[m] = "pending"
    /\ s = "ok" => recipients[m] \subseteq received[m]
    /\ s = "partial" => recipients[m] \cap received[m] # {}
    /\ s = "fail" => recipients[m] # {}
    /\ status' = [status EXCEPT ![m] = s]
    /\ UNCHANGED <<recipients, received>>

Next ==
    \E m \in Msgs :
        \/ \E R \in SUBSET Peers : Address(m, R)
        \/ \E p \in Peers : Arrive(m, p)
        \/ Await(m)
        \/ \E s \in Final : Resolve(m, s)

Spec == Init /\ [][Next]_vars

=============================================================================
