---------------------------- MODULE ProfileSync ----------------------------
(***************************************************************************)
(* How a session tells its peers its profile (src/session.py): the         *)
(* username and, being host, the message of the day.  The receive thread   *)
(* sends both to a peer it marks connected (_send_meta_to); the input      *)
(* thread broadcasts each change (/nick, /motd).  They share the profile   *)
(* and the peers' dicts, no lock covers the reading and the sending, and   *)
(* the discovery and punch threads move and remove dicts meanwhile.        *)
(*                                                                         *)
(* The index of keys and the room's capacity are in PeerTable: here a key  *)
(* may be indexed at any address, and a place be found for any dict.  The  *)
(* two threads that test a dict and then remove it do both in one step:    *)
(* what the receive thread may do in between, it does outside the lock and *)
(* to the dict it holds, and it can do the same after the removal.  What   *)
(* the network does with our packets is left out: the module says what was *)
(* sent, to which address and for which session.                           *)
(***************************************************************************)
CONSTANTS
    Addrs,
    Keys,    \* the remote sessions
    Dicts,   \* identities of the per-peer dicts
    Values,  \* usernames and messages of the day
    Empty,   \* the message of the day that is not set
    None

ASSUME ProfileAssumption ==
    /\ Empty \in Values
    /\ None \notin Addrs \cup Keys \cup Dicts \cup Values \cup (Addrs \X Keys)

Fields == {"name", "motd"}

VARIABLES
    profile,  \* username and motd
    peers,    \* _peers: the dict at each address, or None
    dict,     \* the contents of each dict
    recv,     \* the receive thread and its locals
    disc,     \* the discovery thread and its locals
    ui,       \* the input thread and its locals
    told,     \* history: the fields sent, with their current values
    greeted   \* history: the address and session each dict was greeted as

vars == <<profile, peers, dict, recv, disc, ui, told, greeted>>

Sessions == Addrs \X Keys

TypeOK ==
    /\ profile \in [Fields -> Values]
    /\ peers \in [Addrs -> Dicts \cup {None}]
    /\ dict \in [Dicts -> [box : Keys \cup {None}, connected : BOOLEAN]]
    /\ recv \in [pc : {"idle", "add", "build", "fetch", "mark", "greet", "send"},
                 addr : Addrs \cup {None}, key : Keys \cup {None},
                 dict : Dicts \cup {None}, field : Fields, value : Values \cup {None}]
    /\ recv.pc # "idle" => recv.addr # None /\ recv.key # None
    /\ recv.pc \in {"add", "mark"} => recv.dict # None
    /\ recv.pc = "send" => recv.value # None
    /\ disc \in [addr : Addrs \cup {None}, dict : Dicts \cup {None}]
    /\ disc.dict # None <=> disc.addr # None
    /\ ui \in [pc : {"idle", "list", "send"}, field : Fields,
               value : Values \cup {None}, to : SUBSET Sessions]
    /\ ui.pc # "idle" => ui.value # None
    /\ told \subseteq Sessions \X Fields
    /\ greeted \in [Dicts -> Sessions \cup {None}]

Listed == {a \in Addrs : peers[a] # None}
Connected(a) == a \in Listed /\ dict[peers[a]].connected

\* Dicts that no thread has in its hands.
Free == Dicts \ ({peers[a] : a \in Addrs} \cup {recv.dict, disc.dict})

\* _add_peer starts a dict's handshake, for a dict it gets as for a fresh one.
Unconnected == [box |-> None, connected |-> FALSE]
AddPeer(a, d) ==
    /\ peers' = [peers EXCEPT ![a] = d]
    /\ dict' = [dict EXCEPT ![d] = Unconnected]

\* A datagram that tells session s the value of field f.
Tell(s, f, value) ==
    told' = IF value = profile[f] THEN told \cup {<<s, f>>} ELSE told

-----------------------------------------------------------------------------
(* The receive thread.                                                     *)

IdleRecv == [pc |-> "idle", addr |-> None, key |-> None, dict |-> None,
             field |-> "name", value |-> None]
Packet(a, k, pc) == [IdleRecv EXCEPT !.pc = pc, !.addr = a, !.key = k]

\* PUNCH or PUNCH_ACK of session k from an address that is listed.
HearKnown(a, k) ==
    /\ recv.pc = "idle" /\ a \in Listed
    /\ recv' = Packet(a, k, "build")
    /\ UNCHANGED <<profile, peers, dict, disc, ui, told, greeted>>

\* PUNCH from an address that is not, of a session that is new.
HearNew(a, k) ==
    /\ recv.pc = "idle" /\ a \notin Listed
    /\ \E d \in Free : AddPeer(a, d)
    /\ recv' = Packet(a, k, "build")
    /\ UNCHANGED <<profile, disc, ui, told, greeted>>

\* PUNCH from an address that is not, of a session known elsewhere: its dict is
\* taken out ...
HearMoved(a, k, old) ==
    /\ recv.pc = "idle" /\ a \notin Listed /\ old \in Listed
    /\ peers' = [peers EXCEPT ![old] = None]
    /\ recv' = [Packet(a, k, "add") EXCEPT !.dict = peers[old]]
    /\ UNCHANGED <<profile, dict, disc, ui, told, greeted>>

\* ... and put in again, unless another thread has added the address.
RecvAddPeer ==
    /\ recv.pc = "add"
    /\ IF recv.addr \in Listed THEN UNCHANGED <<peers, dict>>
       ELSE AddPeer(recv.addr, recv.dict)
    /\ recv' = [recv EXCEPT !.pc = "build", !.dict = None]
    /\ UNCHANGED <<profile, disc, ui, told, greeted>>

\* _build_box at the address a, where the dict d is (None: it has gone).
Boxed(a, d) ==
    IF d = None THEN UNCHANGED <<dict, greeted>>
    ELSE /\ dict' = [dict EXCEPT ![d] = [box |-> recv.key, connected |-> @.connected]]
         /\ greeted' = [greeted EXCEPT ![d] = IF dict[d].box = recv.key THEN @ ELSE None]

\* The key is indexed here or nowhere.
BuildBox ==
    /\ recv.pc = "build"
    /\ Boxed(recv.addr, peers[recv.addr])
    /\ recv' = [recv EXCEPT !.pc = "fetch"]
    /\ UNCHANGED <<profile, peers, disc, ui, told>>

\* The key is indexed at old: that dict moves here and starts anew.
BuildBoxMoved(old) ==
    /\ recv.pc = "build"
    /\ old \in Listed \ {recv.addr}
    /\ peers' = [peers EXCEPT ![old] = None, ![recv.addr] = peers[old]]
    /\ dict' = [dict EXCEPT ![peers[old]] = [box |-> recv.key, connected |-> FALSE]]
    /\ greeted' = [greeted EXCEPT ![peers[old]] = None]
    /\ recv' = [recv EXCEPT !.pc = "fetch"]
    /\ UNCHANGED <<profile, disc, ui, told>>

FetchPeer ==
    /\ recv.pc = "fetch"
    /\ recv' = IF recv.addr \in Listed
               THEN [recv EXCEPT !.pc = "mark", !.dict = peers[recv.addr]]
               ELSE IdleRecv
    /\ UNCHANGED <<profile, peers, dict, disc, ui, told, greeted>>

\* The username is read before the peer is connected, and sent afterwards.
MarkConnectedLate ==
    /\ recv.pc = "mark"
    /\ IF dict[recv.dict].connected
       THEN recv' = IdleRecv /\ UNCHANGED <<dict, greeted>>
       ELSE IF recv.value = None
       THEN recv' = [recv EXCEPT !.value = profile.name] /\ UNCHANGED <<dict, greeted>>
       ELSE /\ dict' = [dict EXCEPT ![recv.dict].connected = TRUE]
            /\ greeted' = [greeted EXCEPT ![recv.dict] = <<recv.addr, recv.key>>]
            /\ recv' = [recv EXCEPT !.pc = "send", !.dict = None]
    /\ UNCHANGED <<profile, peers, disc, ui, told>>

\* Outside the lock, wherever the dict is by now.  Only a dict that is not
\* connected yet is greeted.
MarkConnected ==
    /\ recv.pc = "mark"
    /\ IF dict[recv.dict].connected
       THEN recv' = IdleRecv /\ UNCHANGED <<dict, greeted>>
       ELSE /\ dict' = [dict EXCEPT ![recv.dict].connected = TRUE]
            /\ greeted' = [greeted EXCEPT ![recv.dict] = <<recv.addr, recv.key>>]
            /\ recv' = [recv EXCEPT !.pc = "greet", !.dict = None]
    /\ UNCHANGED <<profile, peers, disc, ui, told>>

\* _send_meta_to reads the username for META, later the motd for MOTD, which
\* is left out when there is none.
ReadField ==
    /\ recv.pc = "greet"
    /\ recv' = IF recv.field = "motd" /\ profile.motd = Empty THEN IdleRecv
               ELSE [recv EXCEPT !.pc = "send", !.value = profile[recv.field]]
    /\ UNCHANGED <<profile, peers, dict, disc, ui, told, greeted>>

\* The datagram may go out after the profile has changed.
SendField ==
    /\ recv.pc = "send"
    /\ Tell(<<recv.addr, recv.key>>, recv.field, recv.value)
    /\ recv' = IF recv.field = "name"
               THEN [recv EXCEPT !.pc = "greet", !.field = "motd", !.value = None]
               ELSE IdleRecv
    /\ UNCHANGED <<profile, peers, dict, disc, ui, greeted>>

\* DISCONNECT.
DropPeer(a) ==
    /\ recv.pc = "idle" /\ a \in Listed
    /\ peers' = [peers EXCEPT ![a] = None]
    /\ UNCHANGED <<profile, dict, recv, disc, ui, told, greeted>>

-----------------------------------------------------------------------------
(* The discovery and punch threads.                                        *)

IdleDisc == [addr |-> None, dict |-> None]

\* A beacon of a session that has not completed the handshake at a: its dict
\* is to go to b.
DiscTake(a, b) ==
    /\ disc = IdleDisc
    /\ a \in Listed /\ ~Connected(a) /\ a # b
    /\ peers' = [peers EXCEPT ![a] = None]
    /\ disc' = IF b \in Listed THEN IdleDisc ELSE [addr |-> b, dict |-> peers[a]]
    /\ UNCHANGED <<profile, dict, recv, ui, told, greeted>>

\* Its handshake may have been completed in the meantime, or be completed later.
DiscAddPeer ==
    /\ disc # IdleDisc
    /\ IF disc.addr \in Listed THEN UNCHANGED <<peers, dict>>
       ELSE AddPeer(disc.addr, disc.dict)
    /\ disc' = IdleDisc
    /\ UNCHANGED <<profile, recv, ui, told, greeted>>

\* A beacon of a session not heard before.
DiscAddNew(a) ==
    /\ disc = IdleDisc /\ a \notin Listed
    /\ \E d \in Free : AddPeer(a, d)
    /\ UNCHANGED <<profile, recv, disc, ui, told, greeted>>

\* The handshake did not complete in time.
PunchTimeout(a) ==
    /\ a \in Listed /\ ~Connected(a)
    /\ peers' = [peers EXCEPT ![a] = None]
    /\ UNCHANGED <<profile, dict, recv, disc, ui, told, greeted>>

-----------------------------------------------------------------------------
(* The input thread.                                                       *)

IdleUi == [pc |-> "idle", field |-> "name", value |-> None, to |-> {}]

\* /nick with another name, /motd with any text: the profile first ...
Change(f, value) ==
    /\ ui.pc = "idle"
    /\ f = "name" => value \notin {Empty, profile.name}
    /\ profile' = [profile EXCEPT ![f] = value]
    /\ told' = {t \in told : t[2] # f \/ value = profile[f]}
    /\ ui' = [pc |-> "list", field |-> f, value |-> value, to |-> {}]
    /\ UNCHANGED <<peers, dict, recv, disc, greeted>>

\* ... then _broadcast: the connected peers that have a box, under the lock ...
Targets == {<<a, dict[peers[a]].box>> :
                a \in {b \in Addrs : Connected(b) /\ dict[peers[b]].box # None}}

ListTargets ==
    /\ ui.pc = "list"
    /\ ui' = [ui EXCEPT !.pc = "send", !.to = Targets]
    /\ UNCHANGED <<profile, peers, dict, recv, disc, told, greeted>>

SendChangeForgets(s) ==
    /\ ui.pc = "send" /\ s \in ui.to
    /\ Tell(s, ui.field, ui.value)
    /\ ui' = [ui EXCEPT !.to = @ \ {s}, !.value = None]
    /\ UNCHANGED <<profile, peers, dict, recv, disc, greeted>>

\* ... and a datagram to each, at the address of that moment.
SendChange(s) ==
    /\ ui.pc = "send" /\ s \in ui.to
    /\ Tell(s, ui.field, ui.value)
    /\ ui' = [ui EXCEPT !.to = @ \ {s}]
    /\ UNCHANGED <<profile, peers, dict, recv, disc, greeted>>

Sent ==
    /\ ui.pc = "send" /\ ui.to = {}
    /\ ui' = IdleUi
    /\ UNCHANGED <<profile, peers, dict, recv, disc, told, greeted>>

\* Kicked or banned.
RemovePeer(a) ==
    /\ ui.pc = "idle" /\ Connected(a)
    /\ peers' = [peers EXCEPT ![a] = None]
    /\ UNCHANGED <<profile, dict, recv, disc, ui, told, greeted>>

-----------------------------------------------------------------------------
Init ==
    /\ profile \in [Fields -> Values] /\ profile.name # Empty
    /\ peers = [a \in Addrs |-> None]
    /\ dict = [d \in Dicts |-> Unconnected]
    /\ recv = IdleRecv /\ disc = IdleDisc /\ ui = IdleUi
    /\ told = {}
    /\ greeted = [d \in Dicts |-> None]

RecvLoop ==
    \/ \E a \in Addrs, k \in Keys : HearKnown(a, k) \/ HearNew(a, k)
    \/ \E a, old \in Addrs, k \in Keys : HearMoved(a, k, old)
    \/ RecvAddPeer \/ BuildBox \/ (\E old \in Addrs : BuildBoxMoved(old))
    \/ FetchPeer \/ MarkConnected \/ ReadField \/ SendField
    \/ \E a \in Addrs : DropPeer(a)

OtherLoops ==
    \/ \E a, b \in Addrs : DiscTake(a, b)
    \/ DiscAddPeer
    \/ \E a \in Addrs : DiscAddNew(a) \/ PunchTimeout(a)

User ==
    \/ \E f \in Fields, value \in Values : Change(f, value)
    \/ ListTargets \/ (\E s \in Sessions : SendChange(s)) \/ Sent
    \/ \E a \in Addrs : RemovePeer(a)

Next == RecvLoop \/ OtherLoops \/ User

Spec == Init /\ [][Next]_vars

-----------------------------------------------------------------------------
(* Properties.                                                             *)

\* Neither thread is in the middle of telling a peer something.
Quiet == recv.pc = "idle" /\ ui.pc = "idle"

\* The peer at a was greeted there, as the session it is.
Greeted(a) ==
    /\ Connected(a) /\ dict[peers[a]].box # None
    /\ greeted[peers[a]] = <<a, dict[peers[a]].box>>

\* A peer greeted at its address was sent the current username and message of
\* the day there, whichever thread had to tell it: no change falls between the
\* greeting and the broadcast, though dicts move and go meanwhile.
ProfileSent ==
    Quiet => \A a \in Addrs : Greeted(a) =>
                \A f \in Fields :
                    \/ profile[f] = Empty
                    \/ <<<<a, dict[peers[a]].box>>, f>> \in told

-----------------------------------------------------------------------------
(* What the README says and the code does not keep.                        *)

\* Every peer that has joined was sent the message of the day.  A dict that the
\* discovery thread moves while the handshake completes is connected, has no
\* box, and was greeted at the address it has left.
JoinersTold ==
    Quiet /\ profile.motd # Empty =>
        \A a \in Addrs : Connected(a) =>
            \E k \in Keys : dict[peers[a]].box = k /\ <<<<a, k>>, "motd">> \in told

\* Every peer that has joined and has a box was sent it.  A new session that
\* joins at the address of one that is still connected was not.
RejoinersTold ==
    Quiet /\ profile.motd # Empty =>
        \A a \in Addrs : Connected(a) /\ dict[peers[a]].box # None =>
            <<<<a, dict[peers[a]].box>>, "motd">> \in told

=============================================================================
