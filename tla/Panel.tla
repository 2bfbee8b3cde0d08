------------------------------- MODULE Panel -------------------------------
(***************************************************************************)
(* The status bar and the selection of a peer in it (src/session.py:       *)
(* _statusbar and the Tab, Escape, k and B keys of _readline_styled;       *)
(* src/ui.py: _paint_panel).  The bar is a picture of the connected peers, *)
(* in the order of the dict _peers, painted by whichever thread changed    *)
(* something; the k key acts on the table as it is, not on the picture.    *)
(*                                                                         *)
(* Of the table there is what the bar depends on: which addresses are      *)
(* listed, in which order, and which are connected.  A list, of different  *)
(* addresses, is the set of the pairs <<a, b>> in which a is at or before  *)
(* the place of b.                                                         *)
(***************************************************************************)
EXTENDS Integers, FiniteSets

CONSTANTS
    Addrs,     \* addresses of peers
    MaxPeers,  \* slots of the room
    None

ASSUME PanelAssumption ==
    /\ IsFiniteSet(Addrs) /\ None \notin Addrs
    /\ MaxPeers \in Nat /\ MaxPeers >= 2

VARIABLES
    order,     \* the keys of _peers in the order of the dict
    online,    \* those whose connected event is set
    dropped,   \* history: dicts lost in a move, and not painted over since
    tab,       \* _tab_selected
    bar,       \* on screen: the peers shown and the one highlighted
    recv,      \* the receive thread and its locals
    input,     \* the input thread and its locals
    painter,   \* the thread that holds print_lock to paint
    snap       \* the list it has read

vars == <<order, online, dropped, tab, bar, recv, input, painter, snap>>
table == <<order, online, dropped>>
paint == <<bar, painter, snap>>

Elements(l) == {a \in Addrs : <<a, a>> \in l}
Size(l) == Cardinality(Elements(l))
Outside(l, S) == {p \in l : p[1] \notin S /\ p[2] \notin S}
Without(l, a) == Outside(l, {a})
With(l, a) == l \cup ((Elements(l) \cup {a}) \X {a})

Listed == Elements(order)
RoomFull == Size(order) >= MaxPeers - 1
ConnectedList == order \cap (online \X online)

\* The place of a in a list, from 1.
Place(l, a) == Cardinality({b \in Addrs : <<b, a>> \in l})

\* The peer an index stands for in a list; the list may have changed since.
Selected(l, i) ==
    IF i >= 0 /\ l # {}
    THEN CHOOSE a \in Elements(l) : Place(l, a) = (i % Size(l)) + 1
    ELSE None

IsList(l) ==
    /\ l \subseteq Elements(l) \X Elements(l)
    /\ \A a, b \in Elements(l) :
          /\ <<a, b>> \in l \/ <<b, a>> \in l
          /\ <<a, b>> \in l /\ <<b, a>> \in l => a = b
    /\ \A a, b, c \in Elements(l) : <<a, b>> \in l /\ <<b, c>> \in l => <<a, c>> \in l

TypeOK ==
    /\ IsList(order) /\ Size(order) < MaxPeers
    /\ online \subseteq Listed /\ dropped \subseteq Addrs
    /\ tab \in -1..(MaxPeers - 2)
    /\ IsList(bar.shown)
    /\ bar.highlight \in Elements(bar.shown) \cup {None}
    /\ recv \in [pc : {"idle", "add", "mark", "paint"}, addr : Addrs \cup {None},
                 old : Addrs \cup {None}]
    /\ input \in [pc : {"idle", "kick", "paint"}, target : Addrs \cup {None}]
    /\ painter \in {"none", "recv", "input"}
    /\ IsList(snap)

-----------------------------------------------------------------------------
(* The receive thread.                                                     *)

IdleRecv == [pc |-> "idle", addr |-> None, old |-> None]
RecvUnchanged == UNCHANGED <<tab, input, paint>>

\* A handshake packet from b, a listed address or one that is given a slot.
Handshake(b) ==
    /\ recv.pc = "idle"
    /\ b \in Listed \/ ~RoomFull
    /\ order' = IF b \in Listed THEN order ELSE With(order, b)
    /\ recv' = [IdleRecv EXCEPT !.pc = "mark", !.addr = b]
    /\ RecvUnchanged /\ UNCHANGED <<online, dropped>>

\* A PUNCH from the unknown address b by the peer listed at a: its dict is
\* taken out ...
TakeOut(a, b) ==
    /\ recv.pc = "idle" /\ a \in Listed /\ b \notin Listed
    /\ order' = Without(order, a)
    /\ online' = online \ {a}
    /\ recv' = [pc |-> "add", addr |-> b, old |-> a]
    /\ RecvUnchanged /\ UNCHANGED dropped

PutBackAlways ==
    /\ recv.pc = "add"
    /\ order' = With(order, recv.addr)
    /\ recv' = [recv EXCEPT !.pc = "mark"]
    /\ RecvUnchanged /\ UNCHANGED <<online, dropped>>

\* ... and put back under b by _add_peer, or lost if that refuses it.
PutBack ==
    /\ recv.pc = "add"
    /\ IF recv.addr \in Listed \/ RoomFull
       THEN dropped' = dropped \cup {recv.old} /\ UNCHANGED order
       ELSE order' = With(order, recv.addr) /\ UNCHANGED dropped
    /\ recv' = [recv EXCEPT !.pc = "mark"]
    /\ RecvUnchanged /\ UNCHANGED online

\* The same from a listed b: _build_box puts the dict in the place of b's.
Migrate(a, b) ==
    /\ recv.pc = "idle" /\ {a, b} \subseteq Listed /\ a # b
    /\ order' = Without(order, a)
    /\ online' = online \ {a, b}
    /\ recv' = [pc |-> "mark", addr |-> b, old |-> a]
    /\ RecvUnchanged /\ UNCHANGED dropped

\* connected.set(), after which the panel is painted.
Mark ==
    /\ recv.pc = "mark"
    /\ IF recv.addr \in Listed \ online
       THEN /\ online' = online \cup {recv.addr}
            /\ recv' = [IdleRecv EXCEPT !.pc = "paint"]
       ELSE recv' = IdleRecv /\ UNCHANGED online
    /\ RecvUnchanged /\ UNCHANGED <<order, dropped>>

DisconnectUnpainted(a) ==
    /\ recv.pc = "idle" /\ a \in Listed
    /\ order' = Without(order, a)
    /\ online' = online \ {a}
    /\ RecvUnchanged /\ UNCHANGED <<dropped, recv>>

\* DISCONNECT.
Disconnect(a) ==
    /\ recv.pc = "idle" /\ a \in Listed
    /\ order' = Without(order, a)
    /\ online' = online \ {a}
    /\ recv' = [IdleRecv EXCEPT !.pc = "paint"]
    /\ RecvUnchanged /\ UNCHANGED dropped

\* META, NICK, MOTD and chat packets are printed.
Message ==
    /\ recv.pc = "idle"
    /\ recv' = [IdleRecv EXCEPT !.pc = "paint"]
    /\ RecvUnchanged /\ UNCHANGED table

-----------------------------------------------------------------------------
(* The discovery and punch threads, which do not paint.                    *)

\* _add_peer for a beacon.
DiscAdd(b) ==
    /\ b \notin Listed /\ ~RoomFull
    /\ order' = With(order, b)
    /\ UNCHANGED <<online, dropped, recv, tab, input, paint>>

\* The punch deadline of an address that is not connected; it may strike the
\* one whose handshake is in progress.
Expire(b) ==
    /\ b \in Listed \ online
    /\ order' = Without(order, b)
    /\ dropped' = IF recv.pc = "mark" /\ recv.addr = b /\ recv.old # None
                  THEN dropped \cup {recv.old, b} ELSE dropped
    /\ UNCHANGED <<online, recv, tab, input, paint>>

-----------------------------------------------------------------------------
(* The input thread of a host.                                             *)

ToPaint == [pc |-> "paint", target |-> None]

Tab ==
    /\ input.pc = "idle" /\ online # {}
    /\ tab' = IF tab < 0 THEN 0 ELSE (tab + 1) % Size(ConnectedList)
    /\ input' = ToPaint
    /\ UNCHANGED <<table, recv, paint>>

\* Escape, or Enter, after which the message or the new prompt is painted.
Deselect ==
    /\ input.pc = "idle"
    /\ tab' = -1
    /\ input' = ToPaint
    /\ UNCHANGED <<table, recv, paint>>

PressKShifted ==
    /\ input.pc = "idle" /\ tab >= 0
    /\ LET target == Selected(ConnectedList, tab + 1) IN
       input' = IF target = None THEN ToPaint ELSE [pc |-> "kick", target |-> target]
    /\ tab' = -1
    /\ UNCHANGED <<table, recv, paint>>

\* k or B while a peer is selected: the index is looked up in the list of now.
PressK ==
    /\ input.pc = "idle" /\ tab >= 0
    /\ LET target == Selected(ConnectedList, tab) IN
       input' = IF target = None THEN ToPaint ELSE [pc |-> "kick", target |-> target]
    /\ tab' = -1
    /\ UNCHANGED <<table, recv, paint>>

\* _kick_peer or _ban_peer of that address, if it is still there.
KickPeer ==
    /\ input.pc = "kick"
    /\ order' = Without(order, input.target)
    /\ online' = online \ {input.target}
    /\ input' = ToPaint
    /\ UNCHANGED <<dropped, recv, tab, paint>>

-----------------------------------------------------------------------------
(* Painting, under print_lock.                                             *)

WantsPaint(t) ==
    \/ t = "recv" /\ recv.pc = "paint"
    \/ t = "input" /\ input.pc = "paint"

\* _statusbar reads the list under _peers_lock ...
PaintRead(t) ==
    /\ WantsPaint(t) /\ painter = "none"
    /\ painter' = t
    /\ snap' = ConnectedList
    /\ dropped' = {}
    /\ UNCHANGED <<order, online, tab, bar, recv, input>>

\* ... then the selection, and the bar is written.
PaintWrite ==
    /\ painter # "none"
    /\ bar' = [shown |-> snap, highlight |-> Selected(snap, tab)]
    /\ painter' = "none"
    /\ recv' = IF painter = "recv" THEN IdleRecv ELSE recv
    /\ input' = IF painter = "input" THEN [pc |-> "idle", target |-> None] ELSE input
    /\ UNCHANGED <<table, tab, snap>>

-----------------------------------------------------------------------------
Init ==
    /\ order = {} /\ online = {} /\ dropped = {}
    /\ tab = -1
    /\ bar = [shown |-> {}, highlight |-> None]
    /\ recv = IdleRecv
    /\ input = [pc |-> "idle", target |-> None]
    /\ painter = "none" /\ snap = {}

Next ==
    \/ \E a \in Addrs : Handshake(a) \/ Disconnect(a) \/ DiscAdd(a) \/ Expire(a)
    \/ \E a, b \in Addrs : TakeOut(a, b) \/ Migrate(a, b)
    \/ PutBack \/ Mark \/ Message
    \/ Tab \/ Deselect \/ PressK \/ KickPeer
    \/ \E t \in {"recv", "input"} : PaintRead(t)
    \/ PaintWrite

Spec == Init /\ [][Next]_vars

-----------------------------------------------------------------------------
(* Properties.                                                             *)

\* No thread is between a change and its paint.
Settled == recv.pc = "idle" /\ input.pc = "idle" /\ painter = "none"

\* Whatever the order in which the threads change the table and paint, in the
\* end the bar shows the connected peers and highlights the selected one.  The
\* exception is a dict lost in a move, which stays on screen (line 734).
BarCurrent ==
    Settled =>
        /\ Outside(bar.shown, dropped) = ConnectedList
        /\ dropped = {} => bar.highlight = Selected(ConnectedList, tab)

\* The peer that k kicks is the highlighted one, unless a change has not been
\* painted yet (lines 1083 to 1109).
KicksHighlighted ==
    [][Settled /\ dropped = {} /\ input'.pc = "kick"
         => input'.target = bar.highlight]_vars

=============================================================================
