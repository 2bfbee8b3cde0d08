-------------------------------- MODULE Room --------------------------------
(***************************************************************************)
(* Several p2p_chat processes on one LAN (src/session.py, src/client.py,   *)
(* src/discovery.py): the host of a room and the guests who find it by     *)
(* scanning, hear its beacons, shake hands, leave, are kicked and come     *)
(* back for another session with a new key on the same address.  The       *)
(* handler of a handshake packet is two steps, since the answer goes out   *)
(* before the sender is connected; any other handler is one, and PeerTable *)
(* has the finer interleavings of one process.                             *)
(*                                                                         *)
(* A datagram sent stays in net: it arrives any number of times, in any    *)
(* order, or never.                                                        *)
(***************************************************************************)
EXTENDS Naturals, FiniteSets

CONSTANTS
    Host,         \* the node with is_host set
    Guests,       \* the other nodes
    Codes,        \* effective room codes: room code and passcode
    Open,         \* the one of them without a passcode
    MaxPeers,     \* the slots of the room
    MaxSessions,  \* bound: sessions a guest runs
    None

ASSUME RoomAssumption ==
    /\ Host \notin Guests /\ IsFiniteSet(Guests) /\ None \notin Guests \cup {Host}
    /\ Open \in Codes
    /\ MaxPeers \in Nat /\ MaxPeers >= 2
    /\ MaxSessions \in Nat \ {0}

Nodes == Guests \cup {Host}

VARIABLES
    place,     \* whether each node is in a session or in its menu; "closed" is
               \* the menu of a host that has closed the room
    sess,      \* the number of each node's last session; it stands for its key
    code,      \* the code each node has: the host's own, or the one joined with
    offered,   \* history: the codes the host has had in each guest's session
    clean,     \* history: the guests whose session began when nothing of an
               \* earlier one was under way
    inbox,     \* beacons in the discovery socket of each guest
    peers,     \* the table _peers of each node
    banned,    \* _banned_ips of the host
    punching,  \* the addresses each node has a punch thread for
    handling,  \* the sender of the handshake packet each receive thread is at
    net        \* the datagrams sent

vars == <<place, sess, code, offered, clean, inbox, peers, banned, punching, handling,
          net>>
lobby == <<place, sess, code, offered, clean, banned>>

\* An entry of _peers: no key (0) means there is no box.
Entry == [listed : BOOLEAN, key : 0..MaxSessions, connected : BOOLEAN]
Absent == [listed |-> FALSE, key |-> 0, connected |-> FALSE]
Fresh == [Absent EXCEPT !.listed = TRUE]

\* PUNCH and PUNCH_ACK carry the sender's key in the clear; the others are
\* encrypted for the key the sender knows of the recipient, but for PUNCH_BAN.
Handshakes == [type : {"PUNCH", "PUNCH_ACK"}, from : Nodes, to : Nodes,
               key : 1..MaxSessions]
Controls == [type : {"DISCONNECT", "ROOM_CLOSED", "KICK", "BAN"}, from : Nodes,
             to : Nodes, key : 1..MaxSessions, for : 1..MaxSessions]
Rejections == [type : {"PUNCH_BAN"}, from : Nodes, to : Nodes]

TypeOK ==
    /\ place \in [Nodes -> {"menu", "in", "closed"}]
    /\ sess \in [Nodes -> 0..MaxSessions]
    /\ \A n \in Nodes : place[n] = "in" => sess[n] # 0
    /\ code \in [Nodes -> Codes]
    /\ offered \in [Guests -> SUBSET Codes] /\ clean \subseteq Guests
    /\ inbox \in [Guests -> SUBSET Codes]
    /\ peers \in [Nodes -> [Nodes -> Entry]]
    /\ \A n, m \in Nodes : peers[n][m].key # 0 \/ peers[n][m].connected
                                => peers[n][m].listed
    /\ banned \subseteq Guests
    /\ punching \in [Nodes -> SUBSET Nodes]
    /\ handling \in [Nodes -> Nodes \cup {None}]
    /\ net \subseteq Handshakes \cup Controls \cup Rejections

-----------------------------------------------------------------------------
In(n) == place[n] = "in"
Listed(n) == {m \in Nodes : peers[n][m].listed}
RoomFull(n) == Cardinality(Listed(n)) >= MaxPeers - 1
Connected(n) == {m \in Nodes : peers[n][m].connected}
Boxed(n) == {m \in Nodes : peers[n][m].key # 0}

Hello(n, m, type) == [type |-> type, from |-> n, to |-> m, key |-> sess[n]]
Rejection(n, m) == [type |-> "PUNCH_BAN", from |-> n, to |-> m]
Control(n, m, type) == [type |-> type, from |-> n, to |-> m, key |-> sess[n],
                        for |-> peers[n][m].key]

\* _broadcast.
ToAll(n, type) == {Control(n, m, type) : m \in Connected(n) \cap Boxed(n)}

\* The session of n is over, with its threads and its table.
EndSession(n, where) ==
    /\ place' = [place EXCEPT ![n] = where]
    /\ peers' = [peers EXCEPT ![n] = [m \in Nodes |-> Absent]]
    /\ punching' = [punching EXCEPT ![n] = {}]
    /\ handling' = [handling EXCEPT ![n] = None]
    /\ UNCHANGED <<sess, code, offered, clean, banned, inbox>>

-----------------------------------------------------------------------------
(* Finding the room.                                                       *)

\* One turn of the host's _discover_loop: the beacon, rebuilt if the passcode
\* has changed, is broadcast.  Sessions without host mode send none.
Beacon ==
    /\ In(Host)
    /\ inbox' = [g \in Guests |-> IF In(g) THEN inbox[g] \cup {code[Host]} ELSE inbox[g]]
    /\ UNCHANGED <<lobby, peers, punching, handling, net>>

\* /passcode.
ChangePasscode(c) ==
    /\ In(Host)
    /\ code' = [code EXCEPT ![Host] = c]
    /\ offered' = [g \in Guests |-> IF In(g) THEN offered[g] \cup {c} ELSE offered[g]]
    /\ UNCHANGED <<place, sess, clean, banned, inbox, peers, punching, handling, net>>

\* The guest picks the room and is asked for a passcode if there is one; it may
\* type a wrong one.
Typed(c) == code[Host] = Open => c = Open

\* The packets that may still arrive when g comes back: all of them, or none to
\* it or from it, when they have been lost or handled by then.
StillUnderWay(g) == {net, {p \in net : g \notin {p.from, p.to}}}

\* The host is not about to punch g, or to connect it, for an earlier session.
HostAtRest(g) == g \notin punching[Host] /\ handling[Host] # g

\* scan_active_rooms hears a beacon, which tells the room code and whether a
\* passcode is needed.  A passcode changed in between is one changed just after.
Join(g, c) ==
    /\ place[g] = "menu" /\ sess[g] < MaxSessions /\ In(Host)
    /\ Typed(c)
    /\ place' = [place EXCEPT ![g] = "in"]
    /\ sess' = [sess EXCEPT ![g] = @ + 1]
    /\ code' = [code EXCEPT ![g] = c]
    /\ offered' = [offered EXCEPT ![g] = {code[Host]}]
    /\ inbox' = [inbox EXCEPT ![g] = {}]
    /\ net' \in StillUnderWay(g)
    /\ clean' = IF HostAtRest(g) /\ \A p \in net' : g \notin {p.from, p.to}
                THEN clean \cup {g} ELSE clean \ {g}
    /\ UNCHANGED <<banned, peers, punching, handling>>

AlwaysAuthentic(g, c) == TRUE

\* The tag of a beacon made with the code c is the one node g computes.
Authentic(g, c) == c = code[g]

\* A guest's _discover_loop drops a beacon that is not authenticated with the
\* code it joined with; of any other it adds the sender, if there is room.
HearBeacon(g, c) ==
    /\ In(g) /\ c \in inbox[g] /\ Authentic(g, c)
    /\ inbox' = [inbox EXCEPT ![g] = @ \ {c}]
    /\ IF ~peers[g][Host].listed /\ ~RoomFull(g)
       THEN /\ peers' = [peers EXCEPT ![g][Host] = Fresh]
            /\ punching' = [punching EXCEPT ![g] = @ \cup {Host}]
       ELSE UNCHANGED <<peers, punching>>
    /\ UNCHANGED <<lobby, handling, net>>

-----------------------------------------------------------------------------
(* The handshake.                                                          *)

\* One turn of the loop of _punch.
SendPunch(n, m) ==
    /\ m \in punching[n] /\ ~peers[n][m].connected
    /\ net' = net \cup {Hello(n, m, "PUNCH")}
    /\ UNCHANGED <<lobby, inbox, peers, punching, handling>>

\* _punch ends: connected, or never begun for want of an entry, or PUNCH_TIMEOUT
\* has passed since its first PUNCH and the slot is freed.
PunchEnds(n, m) ==
    /\ m \in punching[n]
    /\ \/ peers[n][m].connected \/ ~peers[n][m].listed
       \/ Hello(n, m, "PUNCH") \in net
    /\ punching' = [punching EXCEPT ![n] = @ \ {m}]
    /\ peers' = IF peers[n][m].connected THEN peers
                ELSE [peers EXCEPT ![n][m] = Absent]
    /\ UNCHANGED <<lobby, inbox, handling, net>>

\* The receive thread of n is at recvfrom.
Listening(n) == In(n) /\ handling[n] = None

BannedAt(n) == IF n = Host THEN banned ELSE {}

HearPunchWithoutAdding(p) ==
    LET n == p.to  m == p.from IN
    /\ p.type = "PUNCH" /\ Listening(n) /\ m \notin BannedAt(n)
    /\ peers' = [peers EXCEPT ![n][m].key = p.key]
    /\ handling' = [handling EXCEPT ![n] = m]
    /\ net' = net \cup {Hello(n, m, "PUNCH_ACK")}
    /\ UNCHANGED <<lobby, inbox, punching>>

HearPunchOnce(p) ==
    LET n == p.to  m == p.from IN
    /\ p.type = "PUNCH" /\ Listening(n) /\ m \notin BannedAt(n)
    /\ peers[n][m].listed \/ ~RoomFull(n)
    /\ peers' = IF peers[n][m].connected THEN peers
                ELSE [peers EXCEPT ![n][m] = [@ EXCEPT !.listed = TRUE, !.key = p.key]]
    /\ punching' = IF peers[n][m].listed THEN punching
                   ELSE [punching EXCEPT ![n] = @ \cup {m}]
    /\ handling' = [handling EXCEPT ![n] = m]
    /\ net' = net \cup {Hello(n, m, "PUNCH_ACK")}
    /\ UNCHANGED <<lobby, inbox>>

\* PUNCH from a known address, or from an unknown one while there is room: the
\* sender has an entry and a box, and its answer is sent ...
HearPunch(p) ==
    LET n == p.to  m == p.from IN
    /\ p.type = "PUNCH" /\ Listening(n) /\ m \notin BannedAt(n)
    /\ peers[n][m].listed \/ ~RoomFull(n)
    /\ peers' = [peers EXCEPT ![n][m] = [@ EXCEPT !.listed = TRUE, !.key = p.key]]
    /\ punching' = IF peers[n][m].listed THEN punching
                   ELSE [punching EXCEPT ![n] = @ \cup {m}]
    /\ handling' = [handling EXCEPT ![n] = m]
    /\ net' = net \cup {Hello(n, m, "PUNCH_ACK")}
    /\ UNCHANGED <<lobby, inbox>>

\* PUNCH_ACK counts from a known address only ...
HearAck(p) ==
    LET n == p.to  m == p.from IN
    /\ p.type = "PUNCH_ACK" /\ Listening(n) /\ m \notin BannedAt(n)
    /\ peers[n][m].listed
    /\ peers' = [peers EXCEPT ![n][m].key = p.key]
    /\ handling' = [handling EXCEPT ![n] = m]
    /\ UNCHANGED <<lobby, inbox, punching, net>>

\* ... then the entry is connected, if there still is one.
MarkConnected(n) ==
    LET m == handling[n] IN
    /\ m # None
    /\ peers' = IF peers[n][m].listed
                THEN [peers EXCEPT ![n][m].connected = TRUE] ELSE peers
    /\ handling' = [handling EXCEPT ![n] = None]
    /\ UNCHANGED <<lobby, inbox, punching, net>>

\* A banned address gets a rejection in the clear, and nothing else.
RejectPunch(p) ==
    /\ p.type = "PUNCH" /\ Listening(p.to) /\ p.from \in BannedAt(p.to)
    /\ net' = net \cup {Rejection(p.to, p.from)}
    /\ UNCHANGED <<lobby, inbox, peers, punching, handling>>

-----------------------------------------------------------------------------
(* Leaving it.                                                             *)

\* /exit of a guest.
LeaveRoom(g) ==
    /\ In(g)
    /\ net' = net \cup ToAll(g, "DISCONNECT")
    /\ EndSession(g, "menu")

\* A node is gone without a word: killed, its socket failed, or its wait for a
\* first peer timed out.
Vanish(n) ==
    /\ In(n)
    /\ EndSession(n, "menu")
    /\ UNCHANGED net

\* /exit or /close of the host.
CloseRoom ==
    /\ In(Host)
    /\ net' = net \cup ToAll(Host, "ROOM_CLOSED")
    /\ EndSession(Host, "closed")

\* The guest is told, once, if it has a box, and its entry removed.
Drop(g, type) ==
    /\ net' = net \cup {Control(Host, m, type) : m \in {g} \cap Boxed(Host)}
    /\ peers' = [peers EXCEPT ![Host][g] = Absent]

\* _kick_peer and _ban_peer.
Kick(g) ==
    /\ g \in Connected(Host)
    /\ Drop(g, "KICK")
    /\ UNCHANGED <<lobby, inbox, punching, handling>>

Ban(g) ==
    /\ g \in Connected(Host)
    /\ Drop(g, "BAN")
    /\ banned' = banned \cup {g}
    /\ UNCHANGED <<place, sess, code, offered, clean, inbox, punching, handling>>

\* The box of the sender's address opens a datagram if both ends know the keys
\* of each other.
Opens(p) ==
    /\ Listening(p.to)
    /\ peers[p.to][p.from].key = p.key
    /\ sess[p.to] = p.for

ReceiveDisconnect(p) ==
    /\ p.type = "DISCONNECT" /\ p.from \notin BannedAt(p.to) /\ Opens(p)
    /\ peers' = [peers EXCEPT ![p.to][p.from] = Absent]
    /\ UNCHANGED <<lobby, inbox, punching, handling, net>>

ReceiveEndOfMembers(p) ==
    /\ p.type \in {"KICK", "BAN", "ROOM_CLOSED"}
    /\ Opens(p)
    /\ EndSession(p.to, "menu")
    /\ UNCHANGED net

\* KICK, BAN and ROOM_CLOSED end the session, and so does any PUNCH_BAN.
ReceiveEnd(p) ==
    /\ \/ p.type \in {"KICK", "BAN", "ROOM_CLOSED"} /\ Opens(p)
       \/ p.type = "PUNCH_BAN" /\ Listening(p.to)
    /\ EndSession(p.to, "menu")
    /\ UNCHANGED net

-----------------------------------------------------------------------------
Init ==
    /\ place = [n \in Nodes |-> IF n = Host THEN "in" ELSE "menu"]
    /\ sess = [n \in Nodes |-> IF n = Host THEN 1 ELSE 0]
    /\ code \in {[n \in Nodes |-> IF n = Host THEN c ELSE Open] : c \in Codes}
    /\ offered = [g \in Guests |-> {}]
    /\ clean = {}
    /\ inbox = [g \in Guests |-> {}]
    /\ peers = [n \in Nodes |-> [m \in Nodes |-> Absent]]
    /\ banned = {}
    /\ punching = [n \in Nodes |-> {}]
    /\ handling = [n \in Nodes |-> None]
    /\ net = {}

Meet ==
    \/ Beacon
    \/ \E g \in Guests, c \in Codes : Join(g, c) \/ HearBeacon(g, c)
    \/ \E n, m \in Nodes : SendPunch(n, m) \/ PunchEnds(n, m)
    \/ \E p \in net : HearPunch(p) \/ HearAck(p) \/ RejectPunch(p)
    \/ \E n \in Nodes : MarkConnected(n)

Part ==
    \/ \E c \in Codes : ChangePasscode(c)
    \/ CloseRoom
    \/ \E n \in Nodes : Vanish(n)
    \/ \E g \in Guests : LeaveRoom(g) \/ Kick(g) \/ Ban(g)
    \/ \E p \in net : ReceiveDisconnect(p) \/ ReceiveEnd(p)

Next == Meet \/ Part

Spec == Init /\ [][Next]_vars

\* The packet is handled before the entry's deadline passes.
MarkListed(n) == MarkConnected(n) /\ handling[n] \in Listed(n)

\* Loops turn and threads are scheduled: a handler ends, and does not for ever
\* take longer than the seconds of PUNCH_TIMEOUT.  Of the packets a session sends
\* again and again, the host's beacons, the guest's punches and the answer to
\* each, one arrives in the end.  Nothing is assumed of packets sent once or by
\* an earlier session, or of the users.
Fairness ==
    /\ WF_vars(Beacon)
    /\ \A n \in Nodes : WF_vars(MarkConnected(n)) /\ SF_vars(MarkListed(n))
    /\ \A g \in Guests :
          /\ WF_vars(\E c \in Codes : HearBeacon(g, c))
          /\ WF_vars(SendPunch(g, Host))
          /\ SF_vars(LET p == Hello(g, Host, "PUNCH") IN
                     p \in net /\ (HearPunch(p) \/ RejectPunch(p)))
          /\ SF_vars(\/ LET p == Hello(Host, g, "PUNCH_ACK") IN
                        p \in net /\ peers[Host][g].key = sess[g] /\ HearAck(p)
                     \/ LET p == Rejection(Host, g) IN p \in net /\ ReceiveEnd(p))

FairSpec == Spec /\ Fairness

\* The behaviours of FairSpec in which nobody leaves, the passcode stays, no
\* deadline passes, and the host connects a guest before it punches it.
Quiet ==
    /\ Meet
    /\ \A n \in Nodes : Listed(n) \subseteq Listed(n)'
    /\ \A p \in net' : p.type = "PUNCH" => p.to = Host
QuietSpec == Init /\ [][Quiet]_vars /\ Fairness

-----------------------------------------------------------------------------
(* Properties.                                                             *)

\* A guest of which nothing older was under way believes to be connected only
\* with a code the host has had since that guest began its session.  The
\* handshake does not carry the code: only the beacons are authenticated, and
\* only who hears one sends the first PUNCH.
CodeNeeded ==
    \A g \in clean : In(g) /\ peers[g][Host].connected => code[g] \in offered[g]

\* The slots of the host are taken by others than g.
FullOfOthers(g) == Cardinality(Listed(Host) \ {g}) >= MaxPeers - 1

\* The host has removed g from this session, whether the packet arrives or not.
Dismissed(g) ==
    \E p \in net : p.type \in {"KICK", "BAN"} /\ p.to = g /\ p.for = sess[g]

\* Both ends are connected with the keys of these sessions; or the deadline of
\* the host passed between its answer and the connecting, and it has forgotten
\* the guest altogether.  It never goes on with the key of an earlier session.
MeetsHost(g) ==
    /\ peers[g][Host].connected
    /\ peers[Host][g].listed => peers[Host][g].connected /\ peers[Host][g].key = sess[g]

\* Who keeps trying with the right code meets the host, through any number of
\* lost beacons, punches and answers and of expired deadlines, also when the
\* host still has the guest of an earlier session in its table.
GuestMeetsHost ==
    \A g \in Guests :
        In(g) /\ In(Host) /\ code[g] = code[Host] /\ g \in clean
            ~> \/ MeetsHost(g)
               \/ ~In(g) \/ ~In(Host) \/ code[g] # code[Host]
               \/ FullOfOthers(g) \/ g \in banned \/ Dismissed(g)

\* A banned guest that keeps knocking does not wait for its deadline in vain:
\* it is turned away (line 697), unless a packet from before connected it.
BannedTurnedAway ==
    \A g \in Guests :
        In(g) /\ In(Host) /\ code[g] = code[Host] /\ g \in banned
            ~> \/ ~In(g) \/ peers[g][Host].connected
               \/ ~In(Host) \/ code[g] # code[Host]

-----------------------------------------------------------------------------
(* What the README and the notices say and the code does not keep.         *)

\* "new peers join automatically without interrupting the chat": when all are
\* connected to the host, they get to know each other.
JoinersMeet ==
    (\A g \in Guests : peers[g][Host].connected)
        ~> \/ \A g, k \in Guests : g # k => peers[g][k].connected
           \/ \E n \in Nodes : ~In(n)

\* "Passcode changed. New joiners need the new code.": the host gives a slot to
\* no guest that has another code than its own.
NewJoinersNeedNewCode ==
    [][\A g \in Guests : g \in Listed(Host)' \ Listed(Host)
                            => code[g] = code[Host]]_vars

\* "Locked rooms require a passcode": who is connected typed a code the room has
\* had since.
LockedNeedsPasscode ==
    \A g \in Guests : In(g) /\ peers[g][Host].connected => code[g] \in offered[g]

\* "Close the room, force-disconnecting all peers immediately": who is connected
\* to a host that has closed the room has been told to leave.
ClosingReachesAll ==
    place[Host] = "closed" =>
        \A g \in clean : In(g) /\ peers[g][Host].connected =>
            \E p \in net : /\ p.type \in {"KICK", "BAN", "ROOM_CLOSED"}
                           /\ p.to = g /\ p.for = sess[g]

=============================================================================
