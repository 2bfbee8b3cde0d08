---------------------------- MODULE PanelProofs ----------------------------
(***************************************************************************)
(* Proofs about Panel, for every finite set of addresses and every number  *)
(* of slots.  First what the operators on lists do, then the types, then   *)
(* what the bar shows while a paint is owed, under way or done.            *)
(***************************************************************************)
EXTENDS Panel, FiniteSetTheorems, TLAPS

-----------------------------------------------------------------------------
(* Lists.                                                                  *)

\* Leaving addresses out of a list ...
LEMMA ListOutside ==
    ASSUME NEW l, IsList(l), NEW S
    PROVE  IsList(Outside(l, S)) /\ Elements(Outside(l, S)) = Elements(l) \ S
<1>1. \A a, b : <<a, b>> \in Outside(l, S) <=> <<a, b>> \in l /\ a \notin S /\ b \notin S
  BY DEF Outside
<1>2. Elements(Outside(l, S)) = Elements(l) \ S
  BY <1>1 DEF Elements
<1>3. Outside(l, S) \subseteq Elements(Outside(l, S)) \X Elements(Outside(l, S))
  BY <1>2 DEF IsList, Outside
<1>. QED
  BY <1>1, <1>2, <1>3 DEF IsList

\* ... keeping some of its addresses ...
LEMMA ListWithin ==
    ASSUME NEW l, IsList(l), NEW S
    PROVE  IsList(l \cap (S \X S)) /\ Elements(l \cap (S \X S)) = Elements(l) \cap S
<1>. DEFINE k == l \cap (S \X S)
<1>1. \A a, b : <<a, b>> \in k <=> <<a, b>> \in l /\ a \in S /\ b \in S
  OBVIOUS
<1>2. Elements(k) = Elements(l) \cap S
  BY <1>1 DEF Elements
<1>3. k \subseteq Elements(k) \X Elements(k)
  BY <1>2 DEF IsList
<1>. HIDE DEF k
<1>4. IsList(k)
  BY <1>1, <1>2, <1>3 DEF IsList
<1>. QED
  BY <1>2, <1>4 DEF k

\* ... and a new address at its end, all leave a list.
LEMMA ListWith ==
    ASSUME NEW l, IsList(l), NEW a \in Addrs, a \notin Elements(l)
    PROVE  IsList(With(l, a)) /\ Elements(With(l, a)) = Elements(l) \cup {a}
<1>1. \A b, c : <<b, c>> \in With(l, a) <=>
        <<b, c>> \in l \/ (b \in Elements(l) \cup {a} /\ c = a)
  BY DEF With
<1>2. \A b, c : <<b, c>> \in l => b \in Elements(l) /\ c \in Elements(l)
  BY DEF IsList
<1>3. Elements(With(l, a)) = Elements(l) \cup {a}
  BY <1>1 DEF Elements
<1>4. With(l, a) \subseteq Elements(With(l, a)) \X Elements(With(l, a))
  BY <1>3 DEF IsList, With
<1>. QED
  BY <1>1, <1>2, <1>3, <1>4 DEF IsList

LEMMA ListEmpty == IsList({}) /\ Elements({}) = {}
BY DEF IsList, Elements

\* A list is as long as it has addresses.
LEMMA ListSize ==
    ASSUME NEW l
    PROVE  /\ IsFiniteSet(Elements(l)) /\ Size(l) \in Nat
           /\ Size(l) = 0 <=> Elements(l) = {}
<1>1. IsFiniteSet(Elements(l))
  BY PanelAssumption, FS_Subset DEF Elements
<1>. QED
  BY <1>1, FS_CardinalityType, FS_EmptySet DEF Size

\* Places are different and from 1 to the length, so that each has its address.
LEMMA EveryPlace ==
    ASSUME NEW l, IsList(l), NEW k \in 1..Size(l)
    PROVE  \E a \in Elements(l) : Place(l, a) = k
<1>. DEFINE E == Elements(l)
            To(a) == {b \in Addrs : <<b, a>> \in l}
            f == [a \in E |-> Place(l, a)]
<1>1. IsFiniteSet(E) /\ Size(l) \in Nat /\ Cardinality(E) = Size(l)
  BY ListSize DEF Size
<1>2. ASSUME NEW a \in E
      PROVE  To(a) \subseteq E /\ a \in To(a)
  BY DEF IsList, Elements
<1>3. ASSUME NEW a \in E
      PROVE  /\ IsFiniteSet(To(a)) /\ Cardinality(To(a)) \in 1..Size(l)
  <2>1. IsFiniteSet(To(a)) /\ Cardinality(To(a)) <= Cardinality(E)
    BY <1>1, <1>2, FS_Subset
  <2>2. Cardinality(To(a)) \in Nat /\ Cardinality(To(a)) # 0
    BY <1>2, <2>1, FS_CardinalityType, FS_EmptySet
  <2>. QED
    BY <1>1, <2>1, <2>2
<1>4. ASSUME NEW a \in E, NEW b \in E, <<a, b>> \in l, Cardinality(To(a)) = Cardinality(To(b))
      PROVE  a = b
  <2>1. To(a) \subseteq To(b)
    BY <1>2, <1>4 DEF IsList
  <2>2. To(a) = To(b)
    BY <1>3, <1>4, <2>1, FS_Subset
  <2>3. <<b, a>> \in l
    BY <1>2, <2>2
  <2>. QED
    BY <1>4, <2>3 DEF IsList
<1>5. f \in Injection(E, 1..Size(l))
  <2>1. f \in [E -> 1..Size(l)]
    BY <1>3 DEF Place
  <2>2. ASSUME NEW a \in E, NEW b \in E, f[a] = f[b]
        PROVE  a = b
    <3>1. Cardinality(To(a)) = Cardinality(To(b))
      BY <2>2 DEF Place
    <3>2. <<a, b>> \in l \/ <<b, a>> \in l
      BY DEF IsList
    <3>. QED
      BY <1>4, <3>1, <3>2
  <2>. QED
    BY <2>1, <2>2 DEF Injection, IsInjective
<1>6. IsFiniteSet(1..Size(l)) /\ Cardinality(1..Size(l)) = Size(l)
  BY <1>1, FS_Interval
<1>7. f \in Surjection(E, 1..Size(l))
  BY <1>1, <1>5, <1>6, FS_Injection
<1>8. PICK a \in E : f[a] = k
  BY <1>7 DEF Surjection
<1>. QED
  BY <1>8

\* An index of a list stands for one of its addresses.
LEMMA SelectedListed ==
    ASSUME NEW l, IsList(l), NEW i \in Int
    PROVE  Selected(l, i) \in Elements(l) \cup {None}
<1>1. CASE i >= 0 /\ l # {}
  <2>1. Size(l) \in Nat \ {0}
    BY <1>1, ListSize DEF IsList
  <2>2. (i % Size(l)) + 1 \in 1..Size(l)
    BY <1>1, <2>1
  <2>. QED
    BY <1>1, <2>2, EveryPlace DEF Selected
<1>. QED
  BY <1>1 DEF Selected

-----------------------------------------------------------------------------
(* The types.                                                              *)

TableInv ==
    /\ IsList(order) /\ Size(order) < MaxPeers
    /\ online \subseteq Listed /\ dropped \subseteq Addrs

ScreenInv ==
    /\ tab \in -1..(MaxPeers - 2)
    /\ IsList(bar.shown)
    /\ bar.highlight \in Elements(bar.shown) \cup {None}
    /\ IsList(snap)

Recvs == [pc : {"idle", "add", "mark", "paint"}, addr : Addrs \cup {None},
          old : Addrs \cup {None}]
Inputs == [pc : {"idle", "kick", "paint"}, target : Addrs \cup {None}]

\* A move is in progress.
Moving == recv.pc \in {"add", "mark"} /\ recv.old # None

\* What a thread has in hand where it works on something; nobody but the
\* receive thread connects the two addresses of a move.
ThreadsInv ==
    /\ recv \in Recvs /\ input \in Inputs /\ painter \in {"none", "recv", "input"}
    /\ recv.pc \in {"add", "mark"} => recv.addr \in Addrs
    /\ recv.pc = "add" => recv.old \in Addrs
    /\ Moving => recv.old \notin online /\ recv.addr \notin online
    /\ input.pc = "kick" => input.target \in Addrs
    /\ painter = "recv" => recv.pc = "paint"
    /\ painter = "input" => input.pc = "paint"

PanelInv == TableInv /\ ScreenInv /\ ThreadsInv

\* The types follow.
LEMMA PanelType == PanelInv => TypeOK
BY DEF PanelInv, TableInv, ScreenInv, ThreadsInv, Recvs, Inputs, TypeOK

\* The table without an address ...
LEMMA RemoveAddr ==
    ASSUME TableInv, NEW a, order' = Without(order, a)
    PROVE  IsList(order') /\ Size(order') < MaxPeers /\ Listed' = Listed \ {a}
<1>1. IsList(order') /\ Elements(order') = Elements(order) \ {a}
  BY ListOutside DEF TableInv, Without
<1>2. Cardinality(Elements(order')) <= Cardinality(Elements(order))
  BY <1>1, ListSize, FS_Subset
<1>3. Size(order) \in Nat /\ Size(order') \in Nat
  BY ListSize
<1>. QED
  BY <1>1, <1>2, <1>3, PanelAssumption DEF TableInv, Size, Listed

\* ... and with one more.
LEMMA AddAddr ==
    ASSUME TableInv, NEW a \in Addrs, a \notin Listed, ~RoomFull, order' = With(order, a)
    PROVE  IsList(order') /\ Size(order') < MaxPeers /\ Listed' = Listed \cup {a}
<1>1. IsList(order') /\ Elements(order') = Elements(order) \cup {a}
  BY ListWith DEF TableInv, Listed
<1>2. Cardinality(Elements(order')) = Cardinality(Elements(order)) + 1
  BY <1>1, ListSize, FS_AddElement DEF Listed
<1>3. Size(order) \in Nat
  BY ListSize
<1>. QED
  BY <1>1, <1>2, <1>3, PanelAssumption DEF RoomFull, Size, Listed

\* The connected peers, in order.
LEMMA ListConnected ==
    ASSUME TableInv
    PROVE  IsList(ConnectedList) /\ Elements(ConnectedList) = online
<1>1. IsList(order) /\ Elements(order) \cap online = online
  BY DEF TableInv, Listed
<1>2. /\ IsList(order \cap (online \X online))
      /\ Elements(order \cap (online \X online)) = Elements(order) \cap online
  BY <1>1, ListWithin
<1>. QED
  BY <1>1, <1>2 DEF ConnectedList

\* The records of the receive thread.
LEMMA RecvRecords ==
    /\ IdleRecv \in Recvs /\ IdleRecv.pc = "idle"
    /\ LET r == [IdleRecv EXCEPT !.pc = "paint"] IN r \in Recvs /\ r.pc = "paint"
    /\ \A b \in Addrs : LET r == [IdleRecv EXCEPT !.pc = "mark", !.addr = b] IN
          r \in Recvs /\ r.pc = "mark" /\ r.addr = b /\ r.old = None
BY DEF IdleRecv, Recvs

LEMMA MarkRecord ==
    ASSUME recv \in Recvs, recv' = [recv EXCEPT !.pc = "mark"]
    PROVE  recv' \in Recvs /\ recv'.pc = "mark" /\ recv'.addr = recv.addr /\ recv'.old = recv.old
BY DEF Recvs

\* An empty table and screen.
LEMMA InitPanel == Init => PanelInv
<1>. SUFFICES ASSUME Init PROVE PanelInv
  OBVIOUS
<1>1. IsList({}) /\ Elements({}) = {} /\ Size({}) = 0
  BY ListEmpty, FS_EmptySet DEF Size
<1>2. TableInv
  BY <1>1, PanelAssumption DEF Init, TableInv, Listed
<1>3. ScreenInv
  BY <1>1, PanelAssumption DEF Init, ScreenInv
<1>4. ThreadsInv
  BY RecvRecords DEF Init, ThreadsInv, Inputs, Moving
<1>. QED
  BY <1>2, <1>3, <1>4 DEF PanelInv

\* A step of the receive thread that leaves the screen and the others alone.
LEMMA RecvKeeps ==
    ASSUME PanelInv, RecvUnchanged, TableInv', recv.pc # "paint", recv' \in Recvs,
           recv'.pc \in {"add", "mark"} => recv'.addr \in Addrs,
           recv'.pc = "add" => recv'.old \in Addrs,
           Moving' => recv'.old \notin online' /\ recv'.addr \notin online'
    PROVE  PanelInv'
<1>1. UNCHANGED <<tab, input, bar, painter, snap>>
  BY DEF RecvUnchanged, paint
<1>2. ScreenInv'
  BY <1>1 DEF PanelInv, ScreenInv
<1>3. ThreadsInv'
  BY <1>1 DEF PanelInv, ThreadsInv
<1>. QED
  BY <1>2, <1>3 DEF PanelInv

\* A step of another thread that connects nobody.
LEMMA OthersKeep ==
    ASSUME PanelInv, TableInv', ScreenInv', UNCHANGED recv, online' \subseteq online,
           input' \in Inputs, painter' \in {"none", "recv", "input"},
           input'.pc = "kick" => input'.target \in Addrs,
           painter' = "recv" => recv.pc = "paint",
           painter' = "input" => input'.pc = "paint"
    PROVE  PanelInv'
BY DEF PanelInv, ThreadsInv, Moving

\* Every step keeps PanelInv.
LEMMA StepPanel ==
    ASSUME PanelInv, [Next]_vars
    PROVE  PanelInv'
<1>0. TableInv /\ ScreenInv /\ ThreadsInv
  BY DEF PanelInv
<1>1. CASE UNCHANGED vars
  BY <1>1 DEF vars, PanelInv, TableInv, ScreenInv, ThreadsInv, Moving, Listed
<1>2. ASSUME NEW b \in Addrs, Handshake(b)
      PROVE  PanelInv'
  <2>1. /\ RecvUnchanged /\ UNCHANGED <<online, dropped>> /\ recv.pc = "idle"
        /\ recv' = [IdleRecv EXCEPT !.pc = "mark", !.addr = b]
        /\ \/ b \in Listed /\ order' = order
           \/ b \notin Listed /\ ~RoomFull /\ order' = With(order, b)
    BY <1>2 DEF Handshake
  <2>2. IsList(order') /\ Size(order') < MaxPeers /\ Listed \subseteq Listed'
    BY <1>0, <2>1, AddAddr DEF TableInv, Listed
  <2>3. TableInv'
    BY <1>0, <2>1, <2>2 DEF TableInv
  <2>4. recv' \in Recvs /\ recv'.pc = "mark" /\ recv'.addr = b /\ recv'.old = None
    BY <2>1, RecvRecords
  <2>. QED
    BY <2>1, <2>3, <2>4, RecvKeeps DEF Moving
<1>3. ASSUME NEW a \in Addrs, NEW b \in Addrs, TakeOut(a, b)
      PROVE  PanelInv'
  <2>1. /\ RecvUnchanged /\ UNCHANGED dropped /\ recv.pc = "idle" /\ b \notin Listed
        /\ order' = Without(order, a) /\ online' = online \ {a}
        /\ recv' = [pc |-> "add", addr |-> b, old |-> a]
    BY <1>3 DEF TakeOut
  <2>2. TableInv'
    BY <1>0, <2>1, RemoveAddr DEF TableInv
  <2>3. /\ recv' \in Recvs /\ recv'.pc = "add" /\ recv'.addr = b /\ recv'.old = a
    BY <2>1 DEF Recvs
  <2>. QED
    BY <1>0, <2>1, <2>2, <2>3, RecvKeeps DEF TableInv
<1>4. ASSUME NEW a \in Addrs, NEW b \in Addrs, Migrate(a, b)
      PROVE  PanelInv'
  <2>1. /\ RecvUnchanged /\ UNCHANGED dropped /\ recv.pc = "idle"
        /\ order' = Without(order, a) /\ online' = online \ {a, b}
        /\ recv' = [pc |-> "mark", addr |-> b, old |-> a]
    BY <1>4 DEF Migrate
  <2>2. TableInv'
    BY <1>0, <2>1, RemoveAddr DEF TableInv
  <2>3. /\ recv' \in Recvs /\ recv'.pc = "mark" /\ recv'.addr = b /\ recv'.old = a
    BY <2>1 DEF Recvs
  <2>. QED
    BY <2>1, <2>2, <2>3, RecvKeeps
<1>5. CASE PutBack
  <2>1. /\ RecvUnchanged /\ UNCHANGED online /\ recv.pc = "add"
        /\ recv' = [recv EXCEPT !.pc = "mark"]
        /\ \/ order' = order /\ dropped' = dropped \cup {recv.old}
           \/ /\ recv.addr \notin Listed /\ ~RoomFull
              /\ order' = With(order, recv.addr) /\ dropped' = dropped
    BY <1>5 DEF PutBack
  <2>2. recv.addr \in Addrs /\ recv.old \in Addrs /\ recv \in Recvs
    BY <1>0, <2>1 DEF ThreadsInv
  <2>3. IsList(order') /\ Size(order') < MaxPeers /\ Listed \subseteq Listed'
    BY <1>0, <2>1, <2>2, AddAddr DEF TableInv, Listed
  <2>4. TableInv'
    BY <1>0, <2>1, <2>2, <2>3 DEF TableInv
  <2>5. /\ recv' \in Recvs /\ recv'.pc = "mark"
        /\ recv'.addr = recv.addr /\ recv'.old = recv.old
    BY <2>1, <2>2, MarkRecord
  <2>6. Moving' => recv'.old \notin online' /\ recv'.addr \notin online'
    BY <1>0, <2>1, <2>5 DEF ThreadsInv, Moving
  <2>. QED
    BY <2>1, <2>2, <2>4, <2>5, <2>6, RecvKeeps
<1>6. CASE Mark
  <2>1. /\ RecvUnchanged /\ UNCHANGED <<order, dropped>> /\ recv.pc = "mark"
        /\ \/ online' = online \cup {recv.addr} /\ recv.addr \in Listed
           \/ online' = online
        /\ recv' \in {IdleRecv, [IdleRecv EXCEPT !.pc = "paint"]}
    BY <1>6 DEF Mark
  <2>2. TableInv'
    BY <1>0, <2>1 DEF TableInv, Listed
  <2>3. recv' \in Recvs /\ recv'.pc \in {"idle", "paint"}
    BY <2>1, RecvRecords
  <2>. QED
    BY <2>1, <2>2, <2>3, RecvKeeps DEF Moving
<1>7. ASSUME NEW a \in Addrs, Disconnect(a)
      PROVE  PanelInv'
  <2>1. /\ RecvUnchanged /\ UNCHANGED dropped /\ recv.pc = "idle"
        /\ order' = Without(order, a) /\ online' = online \ {a}
        /\ recv' = [IdleRecv EXCEPT !.pc = "paint"]
    BY <1>7 DEF Disconnect
  <2>2. TableInv'
    BY <1>0, <2>1, RemoveAddr DEF TableInv
  <2>3. recv' \in Recvs /\ recv'.pc = "paint"
    BY <2>1, RecvRecords
  <2>. QED
    BY <2>1, <2>2, <2>3, RecvKeeps DEF Moving
<1>8. CASE Message
  <2>1. /\ RecvUnchanged /\ UNCHANGED <<order, online, dropped>> /\ recv.pc = "idle"
        /\ recv' = [IdleRecv EXCEPT !.pc = "paint"]
    BY <1>8 DEF Message, table
  <2>2. TableInv'
    BY <1>0, <2>1 DEF TableInv, Listed
  <2>3. recv' \in Recvs /\ recv'.pc = "paint"
    BY <2>1, RecvRecords
  <2>. QED
    BY <2>1, <2>2, <2>3, RecvKeeps DEF Moving
<1>9. ASSUME NEW b \in Addrs, DiscAdd(b)
      PROVE  PanelInv'
  <2>1. /\ UNCHANGED <<online, dropped, recv, tab, input, bar, painter, snap>>
        /\ b \notin Listed /\ ~RoomFull /\ order' = With(order, b)
    BY <1>9 DEF DiscAdd, paint
  <2>2. TableInv'
    BY <1>0, <2>1, AddAddr DEF TableInv
  <2>3. ScreenInv'
    BY <1>0, <2>1 DEF ScreenInv
  <2>. QED
    BY <1>0, <2>1, <2>2, <2>3, OthersKeep DEF ThreadsInv
<1>10. ASSUME NEW b \in Addrs, Expire(b)
       PROVE  PanelInv'
  <2>1. /\ UNCHANGED <<online, recv, tab, input, bar, painter, snap>>
        /\ b \notin online /\ order' = Without(order, b)
        /\ \/ dropped' = dropped
           \/ recv.pc = "mark" /\ recv.old # None /\ dropped' = dropped \cup {recv.old, b}
    BY <1>10 DEF Expire, paint
  <2>2. recv.old \in Addrs \cup {None}
    BY <1>0 DEF ThreadsInv, Recvs
  <2>3. TableInv'
    BY <1>0, <2>1, <2>2, RemoveAddr DEF TableInv
  <2>4. ScreenInv'
    BY <1>0, <2>1 DEF ScreenInv
  <2>. QED
    BY <1>0, <2>1, <2>3, <2>4, OthersKeep DEF ThreadsInv
\* The input thread.
<1>11. ASSUME UNCHANGED <<order, online, dropped, recv, bar, painter, snap>>, input.pc = "idle",
              tab' \in -1..(MaxPeers - 2), input' \in Inputs,
              input'.pc = "kick" => input'.target \in Addrs
       PROVE  PanelInv'
  <2>1. TableInv' /\ ScreenInv'
    BY <1>0, <1>11 DEF TableInv, ScreenInv, Listed
  <2>2. painter # "input"
    BY <1>0, <1>11 DEF ThreadsInv
  <2>. QED
    BY <1>0, <1>11, <2>1, <2>2, OthersKeep DEF ThreadsInv
<1>12. ToPaint \in Inputs /\ ToPaint.pc = "paint"
  BY DEF ToPaint, Inputs
<1>13. CASE Tab
  <2>1. /\ UNCHANGED <<order, online, dropped, recv, bar, painter, snap>> /\ input.pc = "idle"
        /\ online # {} /\ input' = ToPaint
        /\ tab' = IF tab < 0 THEN 0 ELSE (tab + 1) % Size(ConnectedList)
    BY <1>13 DEF Tab, table, paint
  <2>2. /\ Size(ConnectedList) \in Nat /\ Size(ConnectedList) # 0
        /\ Size(ConnectedList) <= MaxPeers - 1
    <3>1. Elements(ConnectedList) = online
      BY <1>0, ListConnected
    <3>2. Cardinality(online) <= Cardinality(Listed)
      BY <1>0, ListSize, FS_Subset DEF TableInv, Listed
    <3>3. Size(order) \in Nat
      BY ListSize
    <3>. QED
      BY <1>0, <2>1, <3>1, <3>2, <3>3, ListSize, PanelAssumption DEF Size, Listed, TableInv
  <2>3. tab \in Int /\ (tab < 0 \/ tab + 1 >= 0)
    BY <1>0, PanelAssumption DEF ScreenInv
  <2>4. tab' \in -1..(MaxPeers - 2)
    <3>1. CASE tab < 0
      BY <2>1, <3>1, PanelAssumption
    <3>2. CASE ~(tab < 0)
      <4>1. tab + 1 \in Nat /\ tab' = (tab + 1) % Size(ConnectedList)
        BY <2>1, <2>3, <3>2
      <4>2. tab' \in 0..(Size(ConnectedList) - 1)
        BY <2>2, <4>1
      <4>. QED
        BY <2>2, <4>2, PanelAssumption
    <3>. QED
      BY <3>1, <3>2
  <2>. QED
    BY <1>11, <1>12, <2>1, <2>4
<1>14. CASE Deselect
  <2>1. /\ UNCHANGED <<order, online, dropped, recv, bar, painter, snap>> /\ input.pc = "idle"
        /\ input' = ToPaint /\ tab' = -1
    BY <1>14 DEF Deselect, table, paint
  <2>. QED
    BY <1>11, <1>12, <2>1, PanelAssumption
<1>15. CASE PressK
  <2>. DEFINE target == Selected(ConnectedList, tab)
  <2>1. /\ UNCHANGED <<order, online, dropped, recv, bar, painter, snap>> /\ input.pc = "idle"
        /\ tab' = -1
        /\ input' = IF target = None THEN ToPaint ELSE [pc |-> "kick", target |-> target]
    BY <1>15 DEF PressK, table, paint
  <2>2. target \in Addrs \cup {None}
    <3>1. IsList(ConnectedList) /\ Elements(ConnectedList) = online
      BY <1>0, ListConnected
    <3>2. tab \in Int
      BY <1>0, PanelAssumption DEF ScreenInv
    <3>3. target \in Elements(ConnectedList) \cup {None}
      BY <3>1, <3>2, SelectedListed
    <3>4. Elements(ConnectedList) \subseteq Addrs
      BY DEF Elements
    <3>. QED
      BY <3>3, <3>4
  <2>. HIDE DEF target
  <2>3. input' \in Inputs /\ (input'.pc = "kick" => input'.target \in Addrs)
    BY <1>12, <2>1, <2>2 DEF Inputs
  <2>. QED
    BY <1>11, <2>1, <2>3, PanelAssumption
<1>16. CASE KickPeer
  <2>1. /\ UNCHANGED <<dropped, recv, tab, bar, painter, snap>> /\ input.pc = "kick"
        /\ order' = Without(order, input.target) /\ online' = online \ {input.target}
        /\ input' = ToPaint
    BY <1>16 DEF KickPeer, paint
  <2>2. TableInv'
    BY <1>0, <2>1, RemoveAddr DEF TableInv
  <2>3. ScreenInv'
    BY <1>0, <2>1 DEF ScreenInv
  <2>. QED
    BY <1>0, <1>12, <2>1, <2>2, <2>3, OthersKeep DEF ThreadsInv
<1>17. ASSUME NEW t \in {"recv", "input"}, PaintRead(t)
       PROVE  PanelInv'
  <2>1. /\ UNCHANGED <<order, online, tab, bar, recv, input>> /\ WantsPaint(t)
        /\ painter' = t /\ snap' = ConnectedList /\ dropped' = {}
    BY <1>17 DEF PaintRead
  <2>2. TableInv' /\ ScreenInv'
    BY <1>0, <2>1, ListConnected DEF TableInv, ScreenInv, Listed
  <2>. QED
    BY <1>0, <2>1, <2>2, OthersKeep DEF ThreadsInv, WantsPaint
<1>18. CASE PaintWrite
  <2>1. /\ UNCHANGED <<order, online, dropped, tab, snap>>
        /\ bar' = [shown |-> snap, highlight |-> Selected(snap, tab)]
        /\ painter' = "none"
        /\ \/ recv' = recv
           \/ recv' = IdleRecv
        /\ input' = IF painter = "input" THEN [pc |-> "idle", target |-> None] ELSE input
    BY <1>18 DEF PaintWrite, table
  <2>2. TableInv'
    BY <1>0, <2>1 DEF TableInv, Listed
  <2>3. ScreenInv'
    BY <1>0, <2>1, SelectedListed, PanelAssumption DEF ScreenInv
  <2>4. ThreadsInv'
    BY <1>0, <2>1, RecvRecords DEF ThreadsInv, Inputs, Moving
  <2>. QED
    BY <2>2, <2>3, <2>4 DEF PanelInv
<1>. QED
  BY <1>1, <1>2, <1>3, <1>4, <1>5, <1>6, <1>7, <1>8, <1>9, <1>10, <1>13, <1>14, <1>15,
     <1>16, <1>17, <1>18 DEF Next

\* PanelInv holds ...
LEMMA PanelHolds == Spec => []PanelInv
BY InitPanel, StepPanel, PTL DEF Spec

\* ... and with it the types: the room is not overfull, and no thread works on
\* an address it did not get.
THEOREM TypeCorrect == Spec => []TypeOK
BY PanelType, PanelHolds, PTL

-----------------------------------------------------------------------------
(* The bar.                                                                *)

\* A thread is to paint and has not read the table yet: nothing is asked of the
\* picture before it does.
Owed ==
    \/ recv.pc = "paint" /\ painter # "recv"
    \/ input.pc = "paint" /\ painter # "input"

\* The addresses of a move in progress, of which the picture may be old.
Moved ==
    IF ~Moving THEN {}
    ELSE IF recv.pc = "add" THEN {recv.old}
    ELSE IF recv.addr \in Listed THEN {recv.old, recv.addr}
    ELSE {}

Exempt == dropped \cup Moved

\* The list that is on screen, or will be when the painter is done.
Picture == IF painter = "none" THEN bar.shown ELSE snap

BarInv ==
    ~Owed => /\ online \cap dropped = {}
             /\ Outside(Picture, Exempt) = Outside(ConnectedList, Exempt)

HighlightInv == input.pc = "idle" => bar.highlight = Selected(bar.shown, tab)

\* What is left of two lists agrees if more is left out.
LEMMA OutsideMore ==
    ASSUME NEW k, NEW l, NEW S, NEW T, S \subseteq T, Outside(k, S) = Outside(l, S)
    PROVE  Outside(k, T) = Outside(l, T)
<1>1. \A p : p \in k /\ p[1] \notin S /\ p[2] \notin S <=>
             p \in l /\ p[1] \notin S /\ p[2] \notin S
  BY DEF Outside
<1>. QED
  BY <1>1 DEF Outside

\* A change of peers that are not connected leaves the connected ones.
LEMMA SameConnected ==
    ASSUME TableInv, online' = online, NEW a, a \notin online,
           order' \in {order, Without(order, a), With(order, a)}
    PROVE  ConnectedList' = ConnectedList
<1>1. \A p \in online \X online : p \in order' <=> p \in order
  BY DEF Without, Outside, With
<1>. QED
  BY <1>1 DEF ConnectedList

\* Who leaves makes no difference to the others.
LEMMA WithoutConnected ==
    ASSUME NEW S, NEW a \in S, order' = Without(order, a),
           online' \subseteq online, online \ S \subseteq online'
    PROVE  Outside(ConnectedList', S) = Outside(ConnectedList, S)
<1>1. ASSUME NEW p, p[1] \notin S, p[2] \notin S
      PROVE  p \in ConnectedList' <=> p \in ConnectedList
  BY <1>1 DEF ConnectedList, Without, Outside
<1>. QED
  BY <1>1 DEF Outside

\* What a step must show to keep the picture true.
LEMMA KeepBar ==
    ASSUME BarInv, Picture' = Picture, Owed => Owed',
           online \cap dropped = {} => online' \cap dropped' = {},
           Exempt \subseteq Exempt',
           Outside(ConnectedList', Exempt') = Outside(ConnectedList, Exempt')
    PROVE  BarInv'
<1>. SUFFICES ASSUME ~Owed'
              PROVE  /\ online' \cap dropped' = {}
                     /\ Outside(Picture', Exempt') = Outside(ConnectedList', Exempt')
  BY DEF BarInv
<1>1. online \cap dropped = {} /\ Outside(Picture, Exempt) = Outside(ConnectedList, Exempt)
  BY DEF BarInv
<1>. QED
  BY <1>1, OutsideMore

\* The first picture is of nobody.
LEMMA InitBar == Init => BarInv /\ HighlightInv
<1>. SUFFICES ASSUME Init PROVE BarInv /\ HighlightInv
  OBVIOUS
<1>1. Picture = {} /\ ConnectedList = {} /\ online = {}
  BY DEF Init, Picture, ConnectedList
<1>2. HighlightInv
  BY DEF Init, HighlightInv, Selected
<1>. QED
  BY <1>1, <1>2 DEF BarInv

\* Every step of the receive thread keeps the picture, or owes a new one.
LEMMA RecvBar ==
    ASSUME PanelInv, BarInv,
           \/ \E a \in Addrs : Handshake(a) \/ Disconnect(a)
           \/ \E a, b \in Addrs : TakeOut(a, b) \/ Migrate(a, b)
           \/ PutBack \/ Mark \/ Message
    PROVE  BarInv'
<1>0. TableInv /\ ThreadsInv /\ online \subseteq Listed /\ recv \in Recvs
  BY DEF PanelInv, TableInv, ThreadsInv
<1>1. RecvUnchanged /\ recv.pc # "paint"
  BY DEF Handshake, Disconnect, TakeOut, Migrate, PutBack, Mark, Message
<1>2. /\ UNCHANGED <<input, painter>> /\ Picture' = Picture /\ painter # "recv"
      /\ Owed => Owed'
      /\ recv'.pc = "paint" => Owed'
  BY <1>0, <1>1 DEF RecvUnchanged, paint, ThreadsInv, Picture, Owed
<1>3. ASSUME NEW b \in Addrs, Handshake(b)
      PROVE  BarInv'
  <2>1. /\ UNCHANGED <<online, dropped>> /\ recv.pc = "idle"
        /\ recv' = [IdleRecv EXCEPT !.pc = "mark", !.addr = b]
        /\ order' = order \/ (b \notin Listed /\ order' = With(order, b))
    BY <1>3 DEF Handshake
  <2>2. ConnectedList' = ConnectedList
    BY <1>0, <2>1, SameConnected DEF ConnectedList
  <2>3. Moved = {} /\ Moved' = {}
    BY <2>1, RecvRecords DEF Moved, Moving
  <2>. QED
    BY <1>2, <2>1, <2>2, <2>3, KeepBar DEF Exempt
<1>4. ASSUME NEW a \in Addrs, NEW b \in Addrs, TakeOut(a, b)
      PROVE  BarInv'
  <2>1. /\ dropped' = dropped /\ recv.pc = "idle"
        /\ order' = Without(order, a) /\ online' = online \ {a}
        /\ recv' = [pc |-> "add", addr |-> b, old |-> a]
    BY <1>4 DEF TakeOut
  <2>2. Moved = {} /\ Moved' = {a}
    BY <2>1, PanelAssumption DEF Moved, Moving
  <2>3. Outside(ConnectedList', Exempt') = Outside(ConnectedList, Exempt')
    BY <2>1, <2>2, WithoutConnected DEF Exempt
  <2>. QED
    BY <1>2, <2>1, <2>2, <2>3, KeepBar DEF Exempt
<1>5. ASSUME NEW a \in Addrs, NEW b \in Addrs, Migrate(a, b)
      PROVE  BarInv'
  <2>1. /\ dropped' = dropped /\ recv.pc = "idle" /\ b \in Listed /\ a # b
        /\ order' = Without(order, a) /\ online' = online \ {a, b}
        /\ recv' = [pc |-> "mark", addr |-> b, old |-> a]
    BY <1>5 DEF Migrate
  <2>2. b \in Listed'
    BY <1>0, <2>1, RemoveAddr
  <2>3. Moved = {} /\ Moved' = {a, b}
    BY <2>1, <2>2, PanelAssumption DEF Moved, Moving
  <2>4. Outside(ConnectedList', Exempt') = Outside(ConnectedList, Exempt')
    BY <2>1, <2>3, WithoutConnected DEF Exempt
  <2>. QED
    BY <1>2, <2>1, <2>3, <2>4, KeepBar DEF Exempt
<1>6. CASE PutBack
  <2>1. /\ online' = online /\ recv.pc = "add" /\ recv' = [recv EXCEPT !.pc = "mark"]
        /\ \/ order' = order /\ dropped' = dropped \cup {recv.old}
           \/ /\ recv.addr \notin Listed /\ ~RoomFull
              /\ order' = With(order, recv.addr) /\ dropped' = dropped
    BY <1>6 DEF PutBack
  <2>2. recv'.pc = "mark" /\ recv'.addr = recv.addr /\ recv'.old = recv.old
    BY <1>0, <2>1, MarkRecord
  <2>3. /\ recv.addr \in Addrs /\ recv.old \in Addrs
        /\ recv.old \notin online /\ recv.addr \notin online
    BY <1>0, <2>1, PanelAssumption DEF ThreadsInv, Moving
  <2>4. ConnectedList' = ConnectedList
    BY <1>0, <2>1, <2>3, SameConnected
  <2>5. Moved = {recv.old}
    BY <2>1, <2>3, PanelAssumption DEF Moved, Moving
  <2>6. \/ recv.old \in dropped'
        \/ recv.addr \in Listed' /\ Moved' = {recv.old, recv.addr}
    <3>1. CASE dropped' = dropped \cup {recv.old}
      BY <3>1
    <3>2. CASE order' = With(order, recv.addr) /\ recv.addr \notin Listed /\ ~RoomFull
      <4>1. recv.addr \in Listed'
        BY <1>0, <2>3, <3>2, AddAddr
      <4>. QED
        BY <2>2, <2>3, <4>1, PanelAssumption DEF Moved, Moving
    <3>. QED
      BY <2>1, <3>1, <3>2
  <2>7. Exempt \subseteq Exempt'
    BY <2>1, <2>5, <2>6 DEF Exempt
  <2>. QED
    BY <1>2, <2>1, <2>3, <2>4, <2>7, KeepBar
<1>7. CASE Mark
  <2>1. /\ UNCHANGED <<order, dropped>> /\ recv.pc = "mark"
        /\ \/ recv' = [IdleRecv EXCEPT !.pc = "paint"]
           \/ online' = online /\ recv' = IdleRecv /\ recv.addr \notin Listed \ online
    BY <1>7 DEF Mark
  <2>2. CASE recv' = [IdleRecv EXCEPT !.pc = "paint"]
    <3>1. recv'.pc = "paint"
      BY <2>2, RecvRecords
    <3>. QED
      BY <1>2, <3>1 DEF BarInv
  <2>3. CASE online' = online /\ recv' = IdleRecv /\ recv.addr \notin Listed \ online
    <3>1. Moving => recv.addr \notin Listed
      BY <1>0, <2>3 DEF ThreadsInv
    <3>2. Moved = {} /\ Moved' = {}
      BY <2>1, <2>3, <3>1, RecvRecords DEF Moved, Moving
    <3>3. ConnectedList' = ConnectedList
      BY <2>1, <2>3 DEF ConnectedList
    <3>. QED
      BY <1>2, <2>1, <2>3, <3>2, <3>3, KeepBar DEF Exempt
  <2>. QED
    BY <2>1, <2>2, <2>3
<1>8. CASE Message \/ \E a \in Addrs : Disconnect(a)
  <2>1. recv' = [IdleRecv EXCEPT !.pc = "paint"]
    BY <1>8 DEF Message, Disconnect
  <2>2. recv'.pc = "paint"
    BY <2>1, RecvRecords
  <2>. QED
    BY <1>2, <2>2 DEF BarInv
<1>. QED
  BY <1>3, <1>4, <1>5, <1>6, <1>7, <1>8

\* Every other step does too.
LEMMA StepBar ==
    ASSUME PanelInv, BarInv, [Next]_vars
    PROVE  BarInv'
<1>0. TableInv /\ ThreadsInv /\ online \subseteq Listed
  BY DEF PanelInv, TableInv
<1>1. CASE UNCHANGED vars
  BY <1>1 DEF vars, BarInv, Owed, Picture, Exempt, Moved, Moving, ConnectedList, Listed
<1>2. CASE \/ \E a \in Addrs : Handshake(a) \/ Disconnect(a)
           \/ \E a, b \in Addrs : TakeOut(a, b) \/ Migrate(a, b)
           \/ PutBack \/ Mark \/ Message
  BY <1>2, RecvBar
<1>3. ASSUME NEW b \in Addrs, DiscAdd(b)
      PROVE  BarInv'
  <2>1. /\ UNCHANGED <<online, dropped, recv, input, bar, painter, snap>>
        /\ b \notin Listed /\ ~RoomFull /\ order' = With(order, b)
    BY <1>3 DEF DiscAdd, paint
  <2>2. ConnectedList' = ConnectedList
    BY <1>0, <2>1, SameConnected
  <2>3. Listed \subseteq Listed'
    BY <1>0, <2>1, AddAddr
  <2>4. Exempt \subseteq Exempt'
    BY <2>1, <2>3 DEF Exempt, Moved, Moving
  <2>5. Picture' = Picture /\ (Owed => Owed')
    BY <2>1 DEF Picture, Owed
  <2>. QED
    BY <2>1, <2>2, <2>4, <2>5, KeepBar
<1>4. ASSUME NEW b \in Addrs, Expire(b)
      PROVE  BarInv'
  <2>1. /\ UNCHANGED <<online, recv, input, bar, painter, snap>>
        /\ b \in Listed /\ b \notin online /\ order' = Without(order, b)
        /\ dropped' = IF recv.pc = "mark" /\ recv.addr = b /\ recv.old # None
                      THEN dropped \cup {recv.old, b} ELSE dropped
    BY <1>4 DEF Expire, paint
  <2>2. ConnectedList' = ConnectedList
    BY <1>0, <2>1, SameConnected
  <2>3. Listed' = Listed \ {b}
    BY <1>0, <2>1, RemoveAddr
  <2>4. Picture' = Picture /\ (Owed => Owed')
    BY <2>1 DEF Picture, Owed
  <2>5. CASE recv.pc = "mark" /\ recv.addr = b /\ recv.old # None
    <3>1. dropped' = dropped \cup {recv.old, b} /\ recv.old \notin online
      BY <1>0, <2>1, <2>5 DEF ThreadsInv, Moving
    <3>2. Moved = {recv.old, b}
      BY <2>1, <2>5 DEF Moved, Moving
    <3>. QED
      BY <2>1, <2>2, <2>4, <3>1, <3>2, KeepBar DEF Exempt
  <2>6. CASE ~(recv.pc = "mark" /\ recv.addr = b /\ recv.old # None)
    <3>1. dropped' = dropped /\ Moved' = Moved
      BY <1>0, <2>1, <2>3, <2>6 DEF Moved, Moving, ThreadsInv
    <3>. QED
      BY <2>1, <2>2, <2>4, <3>1, KeepBar DEF Exempt
  <2>. QED
    BY <2>5, <2>6
<1>5. ASSUME UNCHANGED <<recv, painter>>, input'.pc = "paint", painter # "input"
      PROVE  BarInv'
  <2>1. Owed'
    BY <1>5 DEF Owed
  <2>. QED
    BY <2>1 DEF BarInv
<1>6. ToPaint.pc = "paint"
  BY DEF ToPaint
<1>7. CASE Tab \/ Deselect
  BY <1>0, <1>5, <1>6, <1>7 DEF Tab, Deselect, table, paint, ThreadsInv
<1>8. CASE PressK
  <2>1. /\ UNCHANGED <<order, online, dropped, recv, bar, painter, snap>> /\ input.pc = "idle"
        /\ input'.pc \in {"kick", "paint"}
    BY <1>6, <1>8 DEF PressK, table, paint
  <2>2. Picture' = Picture /\ (Owed => Owed') /\ Exempt' = Exempt /\ ConnectedList' = ConnectedList
    BY <2>1 DEF Picture, Owed, Exempt, Moved, Moving, Listed, ConnectedList
  <2>. QED
    BY <2>1, <2>2, KeepBar
<1>9. CASE KickPeer
  BY <1>0, <1>5, <1>6, <1>9 DEF KickPeer, paint, ThreadsInv
\* A painter that has read has the picture, which is current until it is shown.
<1>10. ASSUME NEW t \in {"recv", "input"}, PaintRead(t)
       PROVE  BarInv'
  <2>1. /\ UNCHANGED <<order, online>> /\ painter' = t /\ snap' = ConnectedList
        /\ dropped' = {}
    BY <1>10 DEF PaintRead
  <2>2. Picture' = ConnectedList'
    BY <2>1 DEF Picture, ConnectedList
  <2>. QED
    BY <2>1, <2>2 DEF BarInv
<1>11. CASE PaintWrite
  <2>1. /\ UNCHANGED <<order, online, dropped>> /\ painter # "none" /\ painter' = "none"
        /\ bar'.shown = snap
        /\ recv' = IF painter = "recv" THEN IdleRecv ELSE recv
        /\ painter # "input" => input' = input
    BY <1>11 DEF PaintWrite, table
  <2>2. painter = "recv" => recv.pc = "paint" /\ recv'.pc = "idle"
    BY <1>0, <2>1, RecvRecords DEF ThreadsInv
  <2>3. Picture' = Picture /\ ConnectedList' = ConnectedList
    BY <2>1 DEF Picture, ConnectedList
  <2>4. Exempt' = Exempt
    BY <2>1, <2>2 DEF Exempt, Moved, Moving, Listed
  <2>5. Owed => Owed'
    BY <2>1, <2>2 DEF Owed
  <2>. QED
    BY <2>1, <2>3, <2>4, <2>5, KeepBar
<1>. QED
  BY <1>1, <1>2, <1>3, <1>4, <1>7, <1>8, <1>9, <1>10, <1>11 DEF Next

\* The highlight is of the picture and of the selection as they were painted.
LEMMA StepHighlight ==
    ASSUME PanelInv, HighlightInv, [Next]_vars
    PROVE  HighlightInv'
<1>1. CASE UNCHANGED <<input, tab, bar>>
  BY <1>1 DEF HighlightInv
<1>2. CASE UNCHANGED vars
  BY <1>1, <1>2 DEF vars
<1>3. CASE \/ \E a \in Addrs : Handshake(a) \/ Disconnect(a) \/ DiscAdd(a) \/ Expire(a)
           \/ \E a, b \in Addrs : TakeOut(a, b) \/ Migrate(a, b)
           \/ PutBack \/ Mark \/ Message
           \/ \E t \in {"recv", "input"} : PaintRead(t)
  BY <1>1, <1>3 DEF Handshake, Disconnect, DiscAdd, Expire, TakeOut, Migrate, PutBack, Mark,
       Message, PaintRead, RecvUnchanged, paint
<1>4. CASE Tab \/ Deselect \/ PressK \/ KickPeer
  <2>1. input'.pc # "idle"
    BY <1>4 DEF Tab, Deselect, PressK, KickPeer, ToPaint
  <2>. QED
    BY <2>1 DEF HighlightInv
<1>5. CASE PaintWrite
  BY <1>5 DEF PaintWrite, HighlightInv
<1>. QED
  BY <1>2, <1>3, <1>4, <1>5 DEF Next

\* Both hold, with the types.
LEMMA BarHolds == Spec => [](PanelInv /\ BarInv /\ HighlightInv)
<1>1. Init => PanelInv /\ BarInv /\ HighlightInv
  BY InitPanel, InitBar
<1>2. PanelInv /\ BarInv /\ HighlightInv /\ [Next]_vars
        => PanelInv' /\ BarInv' /\ HighlightInv'
  BY StepPanel, StepBar, StepHighlight
<1>. QED
  BY <1>1, <1>2, PTL DEF Spec

\* What is so when no thread is between a change and its paint.
LEMMA WhenSettled ==
    ASSUME PanelInv, BarInv, HighlightInv, Settled
    PROVE  /\ Outside(bar.shown, dropped) = ConnectedList
           /\ dropped = {} => bar.highlight = Selected(ConnectedList, tab)
<1>1. ~Owed /\ Exempt = dropped /\ Picture = bar.shown
  BY DEF Settled, Owed, Exempt, Moved, Moving, Picture
<1>2. /\ online \cap dropped = {}
      /\ Outside(bar.shown, dropped) = Outside(ConnectedList, dropped)
  BY <1>1 DEF BarInv
<1>3. Outside(ConnectedList, dropped) = ConnectedList
  BY <1>2 DEF Outside, ConnectedList
<1>4. dropped = {} => Outside(bar.shown, dropped) = bar.shown
  BY DEF Outside
<1>5. bar.highlight = Selected(bar.shown, tab)
  BY DEF HighlightInv, Settled
<1>. QED
  BY <1>2, <1>3, <1>4, <1>5

\* Whatever thread changed the table last, in the end the bar shows the connected
\* peers: whoever changes them paints afterwards, and reads the table only then.
THEOREM BarShown == Spec => []BarCurrent
<1>1. PanelInv /\ BarInv /\ HighlightInv => BarCurrent
  BY WhenSettled DEF BarCurrent
<1>. QED
  BY <1>1, BarHolds, PTL

\* k kicks the peer that the user sees highlighted, unless a change has not been
\* painted yet.
THEOREM KicksRight == Spec => KicksHighlighted
<1>1. ASSUME PanelInv, BarInv, HighlightInv, Next, Settled, dropped = {}, input'.pc = "kick"
      PROVE  input'.target = bar.highlight
  <2>1. input.pc = "idle" /\ input' # input /\ painter = "none"
    BY <1>1 DEF Settled
  <2>2. \/ \E a \in Addrs : Handshake(a) \/ Disconnect(a) \/ DiscAdd(a) \/ Expire(a)
        \/ \E a, b \in Addrs : TakeOut(a, b) \/ Migrate(a, b)
        \/ PutBack \/ Mark \/ Message
        \/ \E t \in {"recv", "input"} : PaintRead(t)
        => input' = input
    BY DEF Handshake, Disconnect, DiscAdd, Expire, TakeOut, Migrate, PutBack, Mark, Message,
         PaintRead, RecvUnchanged
  <2>3. Tab \/ Deselect \/ KickPeer => input'.pc = "paint"
    BY DEF Tab, Deselect, KickPeer, ToPaint
  <2>4. ~PaintWrite
    BY <2>1 DEF PaintWrite
  <2>5. PressK
    BY <1>1, <2>1, <2>2, <2>3, <2>4 DEF Next
  <2>6. input'.target = Selected(ConnectedList, tab)
    BY <1>1, <2>5 DEF PressK, ToPaint
  <2>. QED
    BY <1>1, <2>6, WhenSettled
<1>2. PanelInv /\ BarInv /\ HighlightInv /\ [Next]_vars
        => [Settled /\ dropped = {} /\ input'.pc = "kick"
              => input'.target = bar.highlight]_vars
  BY <1>1 DEF vars
<1>. QED
  BY <1>2, BarHolds, PTL DEF Spec, KicksHighlighted

=============================================================================
