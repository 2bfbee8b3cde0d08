------------------------------ MODULE Delivery ------------------------------
(***************************************************************************)
(* Delivery of the local user's chat messages and their acknowledgement    *)
(* (src/session.py: _MsgTracker, the chat branch of _send_loop, and the    *)
(* ack and chat branches of _recv_loop).  Three kinds of thread meet here: *)
(* the input thread sends a message to each peer, prints it as pending,    *)
(* makes its tracker and registers it; the receive thread looks trackers   *)
(* up and counts acks; a timer per tracker gives up on the rest.  A        *)
(* tracker hands its verdict to the update function of its message, which  *)
(* writes it at a fixed row of the terminal: the verdict (status) and what *)
(* the user sees on the message's line (shown) are two things.             *)
(*                                                                         *)
(* The remote peers are the same program: on a chat message they send an   *)
(* ack and print it, as often as it arrives.  The network loses, delays,   *)
(* reorders and duplicates: a packet sent may be delivered any number of   *)
(* times, or never.  A peer may leave, and may move to a new address.      *)
(***************************************************************************)
EXTENDS Naturals, FiniteSets

CONSTANTS
    Msgs,      \* outgoing messages, named by their msg_id
    Peers,     \* remote sessions
    MaxMoves,  \* bound: how often a peer changes its address
    None

ASSUME DeliveryAssumption ==
    /\ MaxMoves \in Nat
    /\ None \notin Msgs \cup (Peers \X (0..MaxMoves))

\* The address of a peer after n moves.
Addrs == Peers \X (0..MaxMoves)

VARIABLES
    session,   \* each remote session: to come, listed in _peers or gone
    moves,     \* how often each peer has moved
    sender,    \* the input thread and its locals
    status,    \* each message's verdict, as handed to its update function
    shown,     \* the indicator on each message's line
    lastLine,  \* the message printed last, None if something else was
    targets,   \* the addresses each message was sent to
    tracker,   \* the pending set and the done flag of each _MsgTracker
    trackers,  \* the messages registered in _ack_trackers
    timers,    \* the trackers whose timer is running
    ackr,      \* the receive thread while it handles an ack
    chat,      \* chat packets sent: message and address
    acks,      \* ack packets sent: message and source address
    received   \* the peers that acknowledged and printed each message

screen == <<shown, lastLine>>
vars == <<session, moves, sender, status, screen, targets, tracker, trackers, timers,
          ackr, chat, acks, received>>
network == <<chat, acks, received>>

Address(p) == <<p, moves[p]>>
Listed(p) == session[p] = "listed"
Present == {Address(p) : p \in {q \in Peers : Listed(q)}}

Final == {"ok", "partial", "fail"}

TypeOK ==
    /\ session \in [Peers -> {"coming", "listed", "gone"}]
    /\ moves \in [Peers -> 0..MaxMoves]
    /\ sender \in [pc : {"idle", "send", "track", "register", "crashed"},
                   msg : Msgs \cup {None}, left : SUBSET Addrs]
    /\ sender.pc \in {"send", "track", "register"} => sender.msg # None
    /\ status \in [Msgs -> {"none", "pending"} \cup Final]
    /\ shown \in [Msgs -> {"none", "pending"} \cup Final]
    /\ lastLine \in Msgs \cup {None}
    /\ targets \in [Msgs -> SUBSET Addrs]
    /\ tracker \in [Msgs -> [pending : SUBSET Addrs, done : BOOLEAN]]
    /\ trackers \subseteq Msgs
    /\ timers \subseteq Msgs
    /\ ackr \in [pc : {"idle", "lookup", "count"}, msg : Msgs \cup {None},
                 addr : Addrs \cup {None}]
    /\ ackr.pc # "idle" => ackr.msg # None /\ ackr.addr # None
    /\ chat \subseteq Msgs \X Addrs
    /\ acks \subseteq Msgs \X Addrs
    /\ received \in [Msgs -> SUBSET Peers]

-----------------------------------------------------------------------------
(* The input thread: one message after the other.                          *)

\* print_msg_pending prints message m on the last line of the scroll region.
PrintLine(m) ==
    /\ status' = [status EXCEPT ![m] = "pending"]
    /\ shown' = [shown EXCEPT ![m] = "pending"]
    /\ lastLine' = m

\* The update function of message m, called once by its tracker: the icon is
\* written where the last line of the region is, whosever line that is by now.
Update(m, verdict) ==
    /\ status' = [status EXCEPT ![m] = verdict]
    /\ shown' = [n \in Msgs |-> IF n = lastLine THEN verdict ELSE shown[n]]
    /\ UNCHANGED lastLine

IdleSender == [pc |-> "idle", msg |-> None, left |-> {}]

\* A new msg_id; the recipients are listed under _peers_lock.
Snapshot(m) ==
    /\ sender.pc = "idle"
    /\ status[m] = "none" /\ m \notin trackers
    /\ targets' = [targets EXCEPT ![m] = Present]
    /\ sender' = [pc |-> "send", msg |-> m, left |-> Present]
    /\ UNCHANGED <<session, moves, status, screen, tracker, trackers, timers, ackr,
                   network>>

\* The box of the next recipient is looked up under the lock taken anew; an
\* address that is gone is a KeyError, which ends the thread.
SendTo(a) ==
    /\ sender.pc = "send" /\ a \in sender.left
    /\ IF a \in Present
       THEN /\ chat' = chat \cup {<<sender.msg, a>>}
            /\ sender' = [sender EXCEPT !.left = @ \ {a}]
       ELSE /\ sender' = [IdleSender EXCEPT !.pc = "crashed"]
            /\ UNCHANGED chat
    /\ UNCHANGED <<session, moves, status, screen, targets, tracker, trackers,
                   timers, ackr, acks, received>>

PrintPendingForgets ==
    /\ sender.pc = "send" /\ sender.left = {}
    /\ PrintLine(sender.msg)
    /\ sender' = [IdleSender EXCEPT !.pc = "track"]
    /\ UNCHANGED <<session, moves, targets, tracker, trackers, timers, ackr, network>>

\* print_msg_pending prints the message with its pending indicator.
PrintPending ==
    /\ sender.pc = "send" /\ sender.left = {}
    /\ PrintLine(sender.msg)
    /\ sender' = [sender EXCEPT !.pc = "track"]
    /\ UNCHANGED <<session, moves, targets, tracker, trackers, timers, ackr, network>>

\* _MsgTracker.__init__: without recipients the message is done at once.
MakeTracker ==
    /\ sender.pc = "track"
    /\ LET m == sender.msg
           nobody == targets[m] = {}
       IN /\ tracker' = [tracker EXCEPT ![m] = [pending |-> targets[m],
                                                done |-> nobody]]
          /\ IF nobody THEN Update(m, "ok") ELSE UNCHANGED <<status, screen>>
          /\ timers' = IF nobody THEN timers ELSE timers \cup {m}
    /\ sender' = [sender EXCEPT !.pc = "register"]
    /\ UNCHANGED <<session, moves, targets, trackers, ackr, network>>

RegisterNothing ==
    /\ sender.pc = "register"
    /\ sender' = IdleSender
    /\ UNCHANGED <<session, moves, status, screen, targets, tracker, trackers,
                   timers, ackr, network>>

\* Only now can the receive thread find the tracker.
Register ==
    /\ sender.pc = "register"
    /\ trackers' = trackers \cup {sender.msg}
    /\ sender' = IdleSender
    /\ UNCHANGED <<session, moves, status, screen, targets, tracker, timers, ackr,
                   network>>

-----------------------------------------------------------------------------
(* The receive thread and the timers.                                      *)

IdleAckr == [pc |-> "idle", msg |-> None, addr |-> None]

\* An ack from a listed address is received and decrypted.
HearAck(m, a) ==
    /\ ackr.pc = "idle"
    /\ <<m, a>> \in acks /\ a \in Present
    /\ ackr' = [pc |-> "lookup", msg |-> m, addr |-> a]
    /\ UNCHANGED <<session, moves, sender, status, screen, targets, tracker,
                   trackers, timers, network>>

\* Under _ack_lock; an ack without a tracker is dropped.
FindTracker ==
    /\ ackr.pc = "lookup"
    /\ ackr' = IF ackr.msg \in trackers THEN [ackr EXCEPT !.pc = "count"] ELSE IdleAckr
    /\ UNCHANGED <<session, moves, sender, status, screen, targets, tracker,
                   trackers, timers, network>>

CountAckLate(m, a) ==
    LET pending == tracker[m].pending \ {a} IN
    /\ tracker' = [tracker EXCEPT ![m] = [pending |-> pending, done |-> pending = {}]]
    /\ IF pending = {} THEN Update(m, "ok") ELSE UNCHANGED <<status, screen>>

CountAckAny(m, a) ==
    /\ tracker' = [tracker EXCEPT ![m] = [pending |-> {}, done |-> TRUE]]
    /\ IF tracker[m].done THEN UNCHANGED <<status, screen>> ELSE Update(m, "ok")

\* _MsgTracker.ack, under the tracker's lock.
CountAck(m, a) ==
    IF tracker[m].done THEN UNCHANGED <<tracker, status, screen>>
    ELSE LET pending == tracker[m].pending \ {a} IN
         /\ tracker' = [tracker EXCEPT ![m] = [pending |-> pending,
                                               done |-> pending = {}]]
         /\ IF pending = {} THEN Update(m, "ok") ELSE UNCHANGED <<status, screen>>

Ack ==
    /\ ackr.pc = "count"
    /\ CountAck(ackr.msg, ackr.addr)
    /\ ackr' = IdleAckr
    /\ UNCHANGED <<session, moves, sender, targets, trackers, timers, network>>

VerdictSwapped(m) ==
    IF tracker[m].pending = targets[m] THEN "partial" ELSE "fail"

\* How a tracker whose time is up is shown.
Verdict(m) ==
    IF tracker[m].pending = targets[m] THEN "fail" ELSE "partial"

TimeoutUnresolved(m) ==
    /\ m \in timers
    /\ timers' = timers \ {m}
    /\ UNCHANGED <<tracker, status, screen>>
    /\ UNCHANGED <<session, moves, sender, targets, trackers, ackr, network>>

\* _MsgTracker._timeout, MSG_ACK_TIMEOUT after the tracker was made.
Timeout(m) ==
    /\ m \in timers
    /\ timers' = timers \ {m}
    /\ IF tracker[m].done THEN UNCHANGED <<tracker, status, screen>>
       ELSE /\ tracker' = [tracker EXCEPT ![m].done = TRUE]
            /\ Update(m, Verdict(m))
    /\ UNCHANGED <<session, moves, sender, targets, trackers, ackr, network>>

-----------------------------------------------------------------------------
(* The remote peers.                                                       *)

\* The peer, still at that address, acknowledges and prints the message.
Deliver(m, p) ==
    /\ <<m, Address(p)>> \in chat
    /\ Listed(p)
    /\ received' = [received EXCEPT ![m] = @ \cup {p}]
    /\ acks' = acks \cup {<<m, Address(p)>>}
    /\ UNCHANGED <<session, moves, sender, status, screen, targets, tracker,
                   trackers, timers,
                   ackr, chat>>

\* The handshake with the peer completes.
JoinRoom(p) ==
    /\ session[p] = "coming"
    /\ session' = [session EXCEPT ![p] = "listed"]
    /\ UNCHANGED <<moves, sender, status, screen, targets, tracker, trackers, timers,
                   ackr,
                   network>>

\* The peer disconnects and is dropped.  Its key dies with its session: who
\* comes back is another peer.
LeaveRoom(p) ==
    /\ Listed(p)
    /\ session' = [session EXCEPT ![p] = "gone"]
    /\ UNCHANGED <<moves, sender, status, screen, targets, tracker, trackers, timers,
                   ackr,
                   network>>

\* The peer reappears at a new address and its dict is migrated there.
Move(p) ==
    /\ Listed(p) /\ moves[p] < MaxMoves
    /\ moves' = [moves EXCEPT ![p] = @ + 1]
    /\ UNCHANGED <<session, sender, status, screen, targets, tracker, trackers,
                   timers, ackr, network>>

\* Anything else is printed: a message received, a join, a notice.
PrintOther ==
    /\ lastLine # None
    /\ lastLine' = None
    /\ UNCHANGED <<session, moves, sender, status, shown, targets, tracker, trackers,
                   timers, ackr, network>>

-----------------------------------------------------------------------------
Init ==
    /\ session \in [Peers -> {"coming", "listed"}]
    /\ moves = [p \in Peers |-> 0]
    /\ sender = IdleSender
    /\ status = [m \in Msgs |-> "none"]
    /\ shown = [m \in Msgs |-> "none"] /\ lastLine = None
    /\ targets = [m \in Msgs |-> {}]
    /\ tracker = [m \in Msgs |-> [pending |-> {}, done |-> FALSE]]
    /\ trackers = {} /\ timers = {}
    /\ ackr = IdleAckr
    /\ chat = {} /\ acks = {}
    /\ received = [m \in Msgs |-> {}]

SendStep == (\E a \in Addrs : SendTo(a)) \/ PrintPending \/ MakeTracker \/ Register

Next ==
    \/ \E m \in Msgs : Snapshot(m)
    \/ SendStep
    \/ \E m \in Msgs, a \in Addrs : HearAck(m, a)
    \/ FindTracker \/ Ack
    \/ \E m \in Msgs : Timeout(m)
    \/ PrintOther
    \/ \E m \in Msgs, p \in Peers : Deliver(m, p)
    \/ \E p \in Peers : LeaveRoom(p) \/ JoinRoom(p) \/ Move(p)

Spec == Init /\ [][Next]_vars

\* A message begun is carried through and a timer started fires.  Nothing is
\* assumed of the network or of the peers.
Fairness ==
    /\ WF_vars(SendStep)
    /\ \A m \in Msgs : WF_vars(Timeout(m))

FairSpec == Spec /\ Fairness

-----------------------------------------------------------------------------
(* Properties.                                                             *)

\* No message gets the verdict "ok" while a recipient has not received it,
\* whatever is lost, repeated or late.
OkMeansReceived ==
    \A m \in Msgs : status[m] = "ok" => \A a \in targets[m] : a[1] \in received[m]

\* A tracker is done exactly when it has given its verdict, so that a late ack
\* cannot change the verdict of the timer, nor the timer that of the acks.
DoneMatchesStatus == \A m \in Msgs : tracker[m].done <=> status[m] \in Final

\* DeliveryStatus says what a verdict promises.
Promise == INSTANCE DeliveryStatus WITH
    recipients <- [m \in Msgs |-> {a[1] : a \in targets[m]}]

\* The send loop, the trackers and the ack branch together keep that promise.
KeepsPromise == Promise!Spec

\* Every message printed gets a verdict in the end: its update function is
\* called, whether its acks come, are lost, or find no tracker.
EveryMessageResolved ==
    \A m \in Msgs : status[m] = "pending" ~> status[m] \in Final

\* An ack finds no tracker only while its own message is still on its way to
\* _ack_trackers (lines 1357 to 1373), or if the input thread died of a peer
\* that was dropped: once the message is registered, no ack of it is lost.
AckDroppedOnlyEarly ==
    [][ackr.pc = "lookup" /\ ackr'.pc = "idle"
         => \/ sender.msg = ackr.msg /\ sender.pc \in {"send", "track", "register"}
            \/ sender.pc = "crashed"]_vars

-----------------------------------------------------------------------------
(* What the docstring of print_msg_pending says and the code does not keep. *)

\* A message whose line shows a verdict has got that verdict: the icon of one
\* message is never written onto the line of another.
IndicatorIsOwn == \A m \in Msgs : shown[m] \in Final => shown[m] = status[m]

=============================================================================
