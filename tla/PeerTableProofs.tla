-------------------------- MODULE PeerTableProofs --------------------------
(***************************************************************************)
(* Proofs about PeerTable.  Four invariants are proved in layers, each     *)
(* inductive relative to the ones before it: TypeOK, RoomCapacity,         *)
(* EntryInOnePlace and BoxIndexed, from which OneSlotPerKey follows.  The  *)
(* refinement of Roster needs TypeOK, RoomCapacity and EntryInOnePlace.    *)
(***************************************************************************)
EXTENDS PeerTable, FiniteSetTheorems, TLAPS

-----------------------------------------------------------------------------
(* Type correctness.                                                       *)

\* Whatever _add_peer does, the table and the punch threads stay well-formed.
LEMMA AddPeerType ==
    ASSUME TypeOK, NEW a \in Addrs, NEW c \in Entries \cup {None}, AddPeer(a, c)
    PROVE  /\ peers' \in [Addrs -> Entries \cup {None}]
           /\ entry' \in [Entries -> EntryType]
           /\ PuncherOK'
<1>1. CASE UNCHANGED <<peers, entry, puncher>>
  BY <1>1 DEF TypeOK, PuncherOK
<1>2. CASE CanAdd(a) /\ ~UNCHANGED <<peers, entry, puncher>>
  <2>1. PICK e \in (IF c = None THEN FreeEntries ELSE {c}) :
            /\ peers' = [peers EXCEPT ![a] = e]
            /\ entry' = [entry EXCEPT ![e] = Installed(e, c)]
    BY <1>2 DEF AddPeer
  <2>2. e \in Entries
    BY <2>1 DEF FreeEntries
  <2>3. Installed(e, c) \in EntryType
    BY <2>2 DEF Installed, TypeOK, EntryType
  <2>4. PICK p \in Punchers : Spawn(a, p)
    BY <1>2 DEF AddPeer
  <2>5. PuncherOK'
    BY <2>4, ConstantsAssumption DEF Spawn, TypeOK, PuncherOK, PuncherType, IdlePuncher
  <2>. QED
    BY <2>1, <2>2, <2>3, <2>5 DEF TypeOK
<1>. QED
  BY <1>1, <1>2 DEF AddPeer

\* One punch thread changes its locals to well-formed ones.
LEMMA PuncherUpdate ==
    ASSUME PuncherOK, NEW p \in Punchers, NEW r \in PuncherType,
           r.phase # "none" => r.addr # None,
           r.phase = "punching" => r.ent # None,
           puncher' = [puncher EXCEPT ![p] = r]
    PROVE  PuncherOK'
<1>1. puncher' \in [Punchers -> PuncherType]
  BY DEF PuncherOK
<1>2. \A q \in Punchers : puncher'[q] = IF q = p THEN r ELSE puncher[q]
  BY DEF PuncherOK
<1>. QED
  BY <1>1, <1>2 DEF PuncherOK

LEMMA IdlePuncherType ==
    /\ IdlePuncher \in PuncherType
    /\ IdlePuncher.phase = "none"
BY DEF IdlePuncher, PuncherType

\* A dict stays one when its box is replaced.
LEMMA BoxedType ==
    ASSUME NEW e \in Entries, entry[e] \in EntryType, NEW k \in Keys, NEW a \in Addrs
    PROVE  Boxed(e, k, a) \in EntryType
<1>1. CASE Elsewhere(k, a)
  <2>1. Boxed(e, k, a) = [entry[e] EXCEPT !.box = k, !.connected = FALSE]
    BY <1>1 DEF Boxed
  <2>. QED
    BY <2>1 DEF EntryType
<1>2. CASE ~Elsewhere(k, a)
  <2>1. Boxed(e, k, a) = [entry[e] EXCEPT !.box = k]
    BY <1>2 DEF Boxed, EntryType
  <2>. QED
    BY <2>1 DEF EntryType
<1>. QED
  BY <1>1, <1>2

LEMMA TypeInit == Init => TypeOK
<1>. SUFFICES ASSUME Init PROVE TypeOK
  OBVIOUS
<1>1. RecvOK
  BY DEF Init, RecvOK, RecvType, IdleRecv
<1>2. DiscOK
  BY DEF Init, DiscOK, DiscType, IdleDisc
<1>3. PuncherOK
  BY DEF Init, PuncherOK, PuncherType, IdlePuncher
<1>4. UiOK
  BY DEF Init, UiOK, UiType, IdleUi
<1>. QED
  BY <1>1, <1>2, <1>3, <1>4, ConstantsAssumption DEF Init, TypeOK, EntryType

\* One step per thread; each names the action and the part of the type
\* invariant the action can disturb.
LEMMA TypeRecv == TypeOK /\ RecvLoop => TypeOK'
<1>. SUFFICES ASSUME TypeOK, RecvLoop PROVE TypeOK'
  OBVIOUS
<1>. USE ConstantsAssumption DEF ConstantsAssumption
<1>n. \A b : NextPacket(b) \in RecvType /\ NextPacket(b).pc \in {"idle", "stopped"}
             /\ NextPacket(b).carry = None
  BY DEF NextPacket, IdleRecv, RecvType
<1>1. ASSUME NEW a \in Addrs, NEW k \in Keys, NEW kind \in Kinds, Receive(a, k, kind)
      PROVE  TypeOK'
  <2>1. RecvOK'
    BY <1>1 DEF Receive, RecvOK, RecvType, IdleRecv
  <2>. QED
    BY <1>1, <2>1 DEF Receive, TypeOK, table, settings, DiscOK, PuncherOK, UiOK
<1>2. ASSUME NEW a \in Addrs, ReceivePunchBan(a) PROVE TypeOK'
  BY <1>2, <1>n DEF ReceivePunchBan, TypeOK, table, RecvOK, DiscOK, PuncherOK, UiOK
<1>3. CASE RecvStop
  BY <1>3, <1>n DEF RecvStop, TypeOK, table, settings, RecvOK, DiscOK, PuncherOK, UiOK
<1>4. CASE Lookup
  <2>1. RecvOK'
    <3>1. recv.addr \in Addrs /\ peers[recv.addr] \in Entries \cup {None}
      BY <1>4 DEF Lookup, TypeOK, RecvOK, RecvType
    <3>2. RoomFull \in BOOLEAN
      BY DEF RoomFull
    <3>3. /\ recv \in RecvType
          /\ recv.addr # None /\ recv.key # None /\ recv.kind # None
          /\ recv.carry = None
      BY <1>4 DEF Lookup, TypeOK, RecvOK, RecvType
    <3>4. CASE recv' = NextPacket(done)
      BY <1>n, <3>4 DEF RecvOK
    <3>5. CASE recv' = [recv EXCEPT !.pc = "build"]
      BY <3>3, <3>5 DEF RecvOK, RecvType
    <3>6. CASE recv' = [recv EXCEPT !.pc = "admit", !.full = RoomFull]
      BY <3>2, <3>3, <3>6 DEF RecvOK, RecvType
    <3>7. CASE /\ peers[recv.addr] # None
               /\ recv' = [recv EXCEPT !.pc = "decrypt", !.ent = peers[recv.addr]]
      BY <3>1, <3>3, <3>7, ConstantsAssumption DEF RecvOK, RecvType, ConstantsAssumption
    <3>. QED
      BY <1>4, <3>4, <3>5, <3>6, <3>7 DEF Lookup
  <2>. QED
    BY <1>4, <2>1 DEF Lookup, TypeOK, table, settings, DiscOK, PuncherOK, UiOK
<1>5. CASE Admit
  <2>1. RecvOK'
    <3>1. recv.addr \in Addrs /\ recv.key \in Keys
      BY <1>5 DEF Admit, TypeOK, RecvOK, RecvType
    <3>2. CASE Elsewhere(recv.key, recv.addr)
      <4>1. peers[peerByPubkey[recv.key]] \in Entries
        BY <3>1, <3>2 DEF TypeOK, Elsewhere
      <4>2. recv' = [recv EXCEPT !.pc = "add", !.carry = peers[peerByPubkey[recv.key]]]
        BY <1>5, <3>2 DEF Admit
      <4>3. recv \in RecvType /\ recv.addr # None /\ recv.key # None /\ recv.kind # None
        BY <1>5 DEF Admit, TypeOK, RecvOK
      <4>. QED
        BY <4>1, <4>2, <4>3 DEF RecvOK, RecvType
    <3>3. CASE ~Elsewhere(recv.key, recv.addr)
      BY <1>5, <1>n, <3>3 DEF Admit, TypeOK, RecvOK, RecvType
    <3>. QED
      BY <3>2, <3>3
  <2>2. peers' \in [Addrs -> Entries \cup {None}]
    BY <1>5 DEF Admit, TypeOK, TakeOut
  <2>. QED
    BY <1>5, <2>1, <2>2 DEF Admit, TypeOK, settings, DiscOK, PuncherOK, UiOK
<1>6. CASE RecvAddPeer
  <2>1. recv.addr \in Addrs /\ recv.carry \in Entries \cup {None}
    BY <1>6 DEF RecvAddPeer, TypeOK, RecvOK, RecvType
  <2>2. RecvOK'
    BY <1>6, <2>1 DEF RecvAddPeer, TypeOK, RecvOK, RecvType
  <2>3. /\ peers' \in [Addrs -> Entries \cup {None}]
        /\ entry' \in [Entries -> EntryType]
        /\ PuncherOK'
    BY <1>6, <2>1, AddPeerType DEF RecvAddPeer
  <2>. QED
    BY <1>6, <2>2, <2>3 DEF RecvAddPeer, TypeOK, settings, DiscOK, UiOK
<1>7. CASE BuildBox
  <2>1. recv.addr \in Addrs /\ recv.key \in Keys
    BY <1>7 DEF BuildBox, TypeOK, RecvOK, RecvType
  <2>2. RecvOK'
    BY <1>7 DEF BuildBox, TypeOK, RecvOK, RecvType
  <2>3. peers' \in [Addrs -> Entries \cup {None}]
    BY <1>7, <2>1 DEF BuildBox, BoxEntry, TypeOK, Elsewhere
  <2>4. entry' \in [Entries -> EntryType]
    <3>1. CASE BoxEntry(recv.key, recv.addr) = None
      BY <1>7, <3>1 DEF BuildBox, TypeOK
    <3>2. CASE BoxEntry(recv.key, recv.addr) # None
      <4>1. BoxEntry(recv.key, recv.addr) \in Entries
        BY <2>1, <3>2 DEF BoxEntry, TypeOK, Elsewhere
      <4>2. Boxed(BoxEntry(recv.key, recv.addr), recv.key, recv.addr) \in EntryType
        BY <2>1, <4>1, BoxedType DEF TypeOK
      <4>. QED
        BY <1>7, <3>2, <4>1, <4>2 DEF BuildBox, TypeOK
    <3>. QED
      BY <3>1, <3>2
  <2>5. peerByPubkey' \in [Keys -> Addrs \cup {None}]
    BY <1>7, <2>1 DEF BuildBox, TypeOK
  <2>. QED
    BY <1>7, <2>2, <2>3, <2>4, <2>5 DEF BuildBox, TypeOK, settings, DiscOK, PuncherOK, UiOK
<1>8. CASE FetchPeer
  <2>1. RecvOK'
    BY <1>8, <1>n DEF FetchPeer, TypeOK, RecvOK, RecvType
  <2>. QED
    BY <1>8, <2>1 DEF FetchPeer, TypeOK, table, settings, DiscOK, PuncherOK, UiOK
<1>9. CASE MarkConnected
  <2>1. entry' \in [Entries -> EntryType]
    <3>1. /\ \A e \in Entries : entry[e] \in EntryType
          /\ entry' = [entry EXCEPT ![recv.ent] =
                                   [entry[recv.ent] EXCEPT !.connected = TRUE]]
      BY <1>9 DEF MarkConnected, TypeOK
    <3>2. \A e \in Entries : [entry[e] EXCEPT !.connected = TRUE] \in EntryType
      BY <3>1 DEF EntryType
    <3>. QED
      BY <3>1, <3>2 DEF TypeOK
  <2>2. firstConnected' \in BOOLEAN
    BY <1>9 DEF MarkConnected, TypeOK, EntryType, RecvOK, RecvType
  <2>. QED
    BY <1>9, <1>n, <2>1, <2>2 DEF MarkConnected, TypeOK, RecvOK, DiscOK, PuncherOK, UiOK
<1>10. CASE Decrypt
  <2>1. RecvOK'
    BY <1>10, <1>n DEF Decrypt, TypeOK, RecvOK, RecvType
  <2>2. done' \in BOOLEAN
    BY <1>10 DEF Decrypt, TypeOK
  <2>. QED
    BY <1>10, <2>1, <2>2 DEF Decrypt, TypeOK, table, DiscOK, PuncherOK, UiOK
<1>11. CASE DropPeer
  BY <1>11, <1>n DEF DropPeer, TypeOK, settings, RecvOK, DiscOK, PuncherOK, UiOK
<1>. QED
  BY <1>1, <1>2, <1>3, <1>4, <1>5, <1>6, <1>7, <1>8, <1>9, <1>10, <1>11
     DEF RecvLoop, RecvStep

LEMMA TypeDisc == TypeOK /\ DiscLoop => TypeOK'
<1>. SUFFICES ASSUME TypeOK, DiscLoop PROVE TypeOK'
  OBVIOUS
<1>. USE ConstantsAssumption DEF ConstantsAssumption
<1>n. \A b : NextBeacon(b) \in DiscType /\ NextBeacon(b).pc \in {"idle", "stopped"}
             /\ NextBeacon(b).carry = None
  BY DEF NextBeacon, IdleDisc, DiscType
<1>1. ASSUME NEW s \in Sids, NEW a \in Addrs, HearBeacon(s, a) PROVE TypeOK'
  <2>1. seenSids' \in [Sids -> Addrs \cup {None}]
    BY <1>1 DEF HearBeacon, TypeOK
  <2>2. DiscOK'
    <3>1. CASE Reconnecting(s, a)
      <4>1. seenSids[s] \in Addrs
        BY <3>1 DEF Reconnecting, TypeOK
      <4>2. disc' = [IdleDisc EXCEPT !.pc = "take", !.addr = a, !.old = seenSids[s]]
        BY <1>1, <3>1 DEF HearBeacon
      <4>. QED
        BY <4>1, <4>2 DEF DiscOK, DiscType, IdleDisc
    <3>2. CASE disc' = [IdleDisc EXCEPT !.pc = "add", !.addr = a]
      BY <3>2 DEF DiscOK, DiscType, IdleDisc
    <3>3. CASE disc' = NextBeacon(done)
      BY <1>n, <3>3 DEF DiscOK
    <3>. QED
      BY <1>1, <3>1, <3>2, <3>3 DEF HearBeacon
  <2>. QED
    BY <1>1, <2>1, <2>2 DEF HearBeacon, TypeOK, table, settings, RecvOK, PuncherOK, UiOK
<1>4. CASE TakeReconnecting
  <2>1. disc.addr \in Addrs /\ disc.old \in Addrs
    BY <1>4 DEF TakeReconnecting, TypeOK, DiscOK, DiscType
  <2>2. DiscOK'
    <3>1. CASE disc.addr \in Listed
      BY <1>4, <1>n, <3>1 DEF TakeReconnecting, DiscOK
    <3>2. CASE disc.addr \notin Listed
      <4>1. disc' = [disc EXCEPT !.pc = "add", !.old = None, !.carry = peers[disc.old]]
        BY <1>4, <3>2 DEF TakeReconnecting
      <4>. QED
        BY <2>1, <4>1 DEF TypeOK, DiscOK, DiscType
    <3>. QED
      BY <3>1, <3>2
  <2>3. peers' \in [Addrs -> Entries \cup {None}]
    BY <1>4, <2>1 DEF TakeReconnecting, TakeOut, TypeOK
  <2>. QED
    BY <1>4, <2>2, <2>3 DEF TakeReconnecting, TypeOK, settings, RecvOK, PuncherOK, UiOK
<1>2. CASE DiscAddPeer
  <2>1. disc.addr \in Addrs /\ disc.carry \in Entries \cup {None}
    BY <1>2 DEF DiscAddPeer, TypeOK, DiscOK, DiscType
  <2>2. DiscOK'
    BY <1>2, <1>n DEF DiscAddPeer, DiscOK
  <2>3. /\ peers' \in [Addrs -> Entries \cup {None}]
        /\ entry' \in [Entries -> EntryType]
        /\ PuncherOK'
    BY <1>2, <2>1, AddPeerType DEF DiscAddPeer
  <2>. QED
    BY <1>2, <2>2, <2>3 DEF DiscAddPeer, TypeOK, settings, RecvOK, UiOK
<1>3. CASE DiscStop
  <2>1. DiscOK'
    BY <1>3, <1>n DEF DiscStop, DiscOK
  <2>. QED
    BY <1>3, <2>1 DEF DiscStop, TypeOK, table, settings, RecvOK, PuncherOK, UiOK
<1>. QED
  BY <1>1, <1>2, <1>3, <1>4 DEF DiscLoop

LEMMA TypePunch == ASSUME TypeOK, NEW p \in Punchers, Punch(p) PROVE TypeOK'
<1>. USE ConstantsAssumption DEF ConstantsAssumption
<1>ok. PuncherOK
  BY DEF TypeOK
<1>id. IdlePuncher \in PuncherType /\ IdlePuncher.phase = "none"
  BY IdlePuncherType
<1>1. CASE PunchStart(p)
  <2>1. puncher[p].addr \in Addrs
    BY <1>1 DEF PunchStart, TypeOK, PuncherOK, PuncherType
  <2> DEFINE e == peers[puncher[p].addr]
             r == [puncher[p] EXCEPT !.phase = "punching", !.ent = e]
  <2>2. PuncherOK'
    <3>1. CASE e = None
      <4>1. puncher' = [puncher EXCEPT ![p] = IdlePuncher]
        BY <1>1, <3>1 DEF PunchStart
      <4>. QED
        BY <1>ok, <1>id, <4>1, PuncherUpdate
    <3>2. CASE e # None
      <4>1. puncher' = [puncher EXCEPT ![p] = r]
        BY <1>1, <3>2 DEF PunchStart, PuncherOK
      <4>2. e \in Entries
        BY <2>1, <3>2 DEF TypeOK
      <4>3. r \in PuncherType /\ r.addr = puncher[p].addr /\ r.ent = e
                 /\ r.phase = "punching"
        BY <1>ok, <4>2 DEF PuncherOK, PuncherType
      <4>4. r.addr # None /\ r.ent # None
        BY <2>1, <3>2, <4>3
      <4> HIDE DEF r
      <4>. QED
        BY <1>ok, <4>1, <4>3, <4>4, PuncherUpdate
    <3>. QED
      BY <3>1, <3>2
  <2>. QED
    BY <1>1, <2>2 DEF PunchStart, TypeOK, table, settings, RecvOK, DiscOK, UiOK
<1>2. CASE PunchStop(p)
  <2>1. PuncherOK'
    BY <1>2, <1>ok, <1>id, PuncherUpdate DEF PunchStop
  <2>. QED
    BY <1>2, <2>1 DEF PunchStop, TypeOK, table, settings, RecvOK, DiscOK, UiOK
<1>3. CASE PunchExpire(p)
  <2> DEFINE r == [puncher[p] EXCEPT !.phase = "expired", !.ent = None]
  <2>1. puncher' = [puncher EXCEPT ![p] = r]
    BY <1>3 DEF PunchExpire
  <2>2. r \in PuncherType /\ r.phase = "expired" /\ r.addr = puncher[p].addr
    BY <1>ok DEF PuncherOK, PuncherType
  <2>3. puncher[p].addr # None
    BY <1>3, <1>ok DEF PunchExpire, PuncherOK
  <2>4. PuncherOK'
    BY <1>ok, <2>1, <2>2, <2>3, PuncherUpdate
  <2>. QED
    BY <1>3, <2>4 DEF PunchExpire, TypeOK, table, settings, RecvOK, DiscOK, UiOK
<1>4. CASE PunchTest(p)
  <2> DEFINE r == [puncher[p] EXCEPT !.phase = "removing"]
  <2>1. r \in PuncherType /\ r.phase = "removing" /\ r.addr = puncher[p].addr
    BY <1>ok DEF PuncherOK, PuncherType
  <2>2. puncher[p].addr # None
    BY <1>4, <1>ok DEF PunchTest, PuncherOK
  <2>3. puncher' \in {[puncher EXCEPT ![p] = r], [puncher EXCEPT ![p] = IdlePuncher]}
    BY <1>4 DEF PunchTest
  <2>4. PuncherOK'
    <3>. HIDE DEF r
    <3>. QED
      BY <1>ok, <1>id, <2>1, <2>2, <2>3, PuncherUpdate
  <2>. QED
    BY <1>4, <2>4 DEF PunchTest, TypeOK, table, settings, RecvOK, DiscOK, UiOK
<1>5. CASE PunchRemove(p)
  <2>1. PuncherOK'
    BY <1>5, <1>ok, <1>id, PuncherUpdate DEF PunchRemove
  <2>2. peers' \in [Addrs -> Entries \cup {None}]
    BY <1>5 DEF PunchRemove, TypeOK
  <2>3. peerByPubkey' \in [Keys -> Addrs \cup {None}]
    BY <1>5 DEF PunchRemove, TypeOK, IndexWithout
  <2>. QED
    BY <1>5, <2>1, <2>2, <2>3 DEF PunchRemove, TypeOK, settings, RecvOK, DiscOK, UiOK
<1>. QED
  BY <1>1, <1>2, <1>3, <1>4, <1>5 DEF Punch

LEMMA TypeMain == TypeOK /\ Main => TypeOK'
<1>. SUFFICES ASSUME TypeOK, Main PROVE TypeOK'
  OBVIOUS
<1>1. ASSUME NEW a \in Addrs, DialPeer(a) PROVE TypeOK'
  <2>1. /\ peers' \in [Addrs -> Entries \cup {None}]
        /\ entry' \in [Entries -> EntryType]
        /\ PuncherOK'
    BY <1>1, AddPeerType DEF DialPeer
  <2>. QED
    BY <1>1, <2>1 DEF DialPeer, TypeOK, settings, RecvOK, DiscOK, UiOK
<1>2. CASE HandshakeTimeout
  BY <1>2 DEF HandshakeTimeout, TypeOK, table, threads, RecvOK, DiscOK, PuncherOK, UiOK
<1>3. CASE Sigint
  BY <1>3 DEF Sigint, TypeOK, table, threads, RecvOK, DiscOK, PuncherOK, UiOK
<1>. QED
  BY <1>1, <1>2, <1>3 DEF Main

LEMMA TypeUser == TypeOK /\ User => TypeOK'
<1>. SUFFICES ASSUME TypeOK, User PROVE TypeOK'
  OBVIOUS
<1>. USE ConstantsAssumption DEF ConstantsAssumption
<1>i. IdleUi \in UiType /\ IdleUi.pc = "idle"
  BY DEF IdleUi, UiType
\* Actions that change ui and nothing else.
<1>q. ASSUME UiOK', UNCHANGED <<table, recv, disc, seenSids, puncher, dial, settings>>
      PROVE  TypeOK'
  BY <1>q DEF TypeOK, table, settings, RecvOK, DiscOK, PuncherOK
<1>1. ASSUME NEW cmd \in {"kick", "ban"}, NEW a \in Addrs, SelectPeer(cmd, a)
      PROVE  TypeOK'
  <2>1. UiOK'
    BY <1>1, <1>i DEF SelectPeer, UiOK, UiType, IdleUi
  <2>. QED
    BY <1>1, <1>q, <2>1 DEF SelectPeer
<1>2. CASE NotifyRemoval
  <2>1. UiOK'
    BY <1>2, <1>i DEF NotifyRemoval, TypeOK, UiOK, UiType
  <2>. QED
    BY <1>2, <1>q, <2>1 DEF NotifyRemoval
<1>3. CASE BanIp
  <2>1. UiOK' /\ ui.addr \in Addrs
    BY <1>3 DEF BanIp, TypeOK, UiOK, UiType
  <2>2. bannedIps' \subseteq Ips
    BY <1>3, <2>1 DEF BanIp, TypeOK
  <2>. QED
    BY <1>3, <2>1, <2>2 DEF BanIp, TypeOK, table, RecvOK, DiscOK, PuncherOK
<1>4. CASE PopPeer
  BY <1>4, <1>i DEF PopPeer, TypeOK, settings, RecvOK, DiscOK, PuncherOK, UiOK
<1>5. ASSUME NEW b \in BOOLEAN, SetMuted(b) PROVE TypeOK'
  <2>1. UiOK'
    BY <1>5, <1>i DEF SetMuted, UiOK, UiType, IdleUi
  <2>. QED
    BY <1>5, <2>1 DEF SetMuted, TypeOK, table, RecvOK, DiscOK, PuncherOK
<1>6. CASE MuteAll
  <2>1. entry' \in [Entries -> EntryType]
    BY <1>6 DEF MuteAll, TypeOK, EntryType
  <2>. QED
    BY <1>6, <1>i, <2>1 DEF MuteAll, TypeOK, settings, RecvOK, DiscOK, PuncherOK, UiOK
<1>7. CASE Say
  <2>1. UiOK'
    BY <1>7, <1>i DEF Say, UiOK, UiType, IdleUi
  <2>. QED
    BY <1>7, <1>q, <2>1 DEF Say
<1>8. ASSUME NEW a \in Addrs, SendNext(a) PROVE TypeOK'
  <2>1. UiOK'
    BY <1>8, <1>i DEF SendNext, TypeOK, UiOK, UiType, IdleUi
  <2>. QED
    BY <1>8, <1>q, <2>1 DEF SendNext
<1>9. CASE Said
  <2>1. UiOK'
    BY <1>9, <1>i DEF Said, UiOK
  <2>. QED
    BY <1>9, <1>q, <2>1 DEF Said
<1>10. CASE Leave
  <2>1. UiOK'
    BY <1>10, <1>i DEF Leave, UiOK, UiType, IdleUi
  <2>. QED
    BY <1>10, <2>1 DEF Leave, TypeOK, table, RecvOK, DiscOK, PuncherOK
<1>11. CASE Interrupt
  <2>1. UiOK'
    BY <1>11, <1>i DEF Interrupt, UiOK, UiType, IdleUi
  <2>. QED
    BY <1>11, <1>q, <2>1 DEF Interrupt
<1>. QED
  BY <1>1, <1>2, <1>3, <1>4, <1>5, <1>6, <1>7, <1>8, <1>9, <1>10, <1>11 DEF User

LEMMA TypeStutter == TypeOK /\ UNCHANGED vars => TypeOK'
BY DEF vars, table, threads, settings, TypeOK, RecvOK, DiscOK, PuncherOK, UiOK

\* Every variable keeps its type and no thread works on a dict or an address
\* it did not get, for rooms, tables and thread pools of every size.
THEOREM TypeCorrect == Spec => []TypeOK
<1>1. Init => TypeOK
  BY TypeInit
<1>2. TypeOK /\ [Next]_vars => TypeOK'
  BY TypeRecv, TypeDisc, TypePunch, TypeMain, TypeUser, TypeStutter DEF Next
<1>. QED
  BY <1>1, <1>2, PTL DEF Spec

-----------------------------------------------------------------------------
(* The room's capacity.                                                    *)

LEMMA ListedFinite == IsFiniteSet(Listed) /\ Cardinality(Listed) \in Nat
BY ConstantsAssumption, FS_Subset, FS_CardinalityType DEF Listed, ConstantsAssumption

\* A step that lists no new address keeps the room within its capacity.
LEMMA CapacityShrink ==
    ASSUME RoomCapacity, Listed' \subseteq Listed PROVE RoomCapacity'
<1>1. Cardinality(Listed') <= Cardinality(Listed)
  BY ListedFinite, FS_Subset
<1>2. Cardinality(Listed') \in Nat
  BY ListedFinite, FS_Subset, FS_CardinalityType
<1>. QED
  BY <1>1, <1>2, ListedFinite, ConstantsAssumption DEF RoomCapacity, ConstantsAssumption

\* _add_peer tests the room again under the lock that covers the insertion.
LEMMA CapacityAddPeer ==
    ASSUME TypeOK, RoomCapacity, NEW a \in Addrs, NEW c, AddPeer(a, c)
    PROVE  RoomCapacity'
<1>1. CASE CanAdd(a)
  <2>1. PICK e : peers' = [peers EXCEPT ![a] = e]
    BY <1>1 DEF AddPeer
  <2>2. Listed' \subseteq Listed \cup {a}
    BY <2>1 DEF Listed, TypeOK
  <2>3. /\ IsFiniteSet(Listed \cup {a})
        /\ Cardinality(Listed \cup {a}) = Cardinality(Listed) + 1
    BY <1>1, ListedFinite, FS_AddElement DEF CanAdd
  <2>4. Cardinality(Listed') <= Cardinality(Listed \cup {a})
    BY <2>2, <2>3, FS_Subset
  <2>5. Cardinality(Listed') \in Nat
    BY <2>2, <2>3, FS_Subset, FS_CardinalityType
  <2>6. Cardinality(Listed) < MaxPeers - 1
    BY <1>1, ListedFinite, ConstantsAssumption DEF CanAdd, RoomFull, ConstantsAssumption
  <2>. QED
    BY <2>3, <2>4, <2>5, <2>6, ListedFinite, ConstantsAssumption
       DEF RoomCapacity, ConstantsAssumption
<1>2. CASE ~CanAdd(a)
  <2>1. Listed' = Listed
    BY <1>2 DEF AddPeer, Listed
  <2>. QED
    BY <2>1, CapacityShrink
<1>. QED
  BY <1>1, <1>2

\* _build_box takes one dict out before it puts it back in.
LEMMA CapacityBuildBox == ASSUME TypeOK, RoomCapacity, BuildBox PROVE RoomCapacity'
<1>. DEFINE a == recv.addr
            old == peerByPubkey[recv.key]
<1>1. CASE Elsewhere(recv.key, a)
  <2>1. a \in Addrs /\ old \in Addrs /\ old \in Listed
    BY <1>1, ConstantsAssumption
       DEF BuildBox, TypeOK, RecvOK, RecvType, Elsewhere, Listed, ConstantsAssumption
  <2>2. Listed' \subseteq (Listed \ {old}) \cup {a}
    BY <1>1, <2>1 DEF BuildBox, Listed, TypeOK
  <2>3. /\ IsFiniteSet(Listed \ {old})
        /\ Cardinality(Listed \ {old}) = Cardinality(Listed) - 1
    BY <2>1, ListedFinite, FS_RemoveElement
  <2>4. /\ IsFiniteSet((Listed \ {old}) \cup {a})
        /\ Cardinality((Listed \ {old}) \cup {a}) <= Cardinality(Listed)
    <3>1. /\ IsFiniteSet((Listed \ {old}) \cup {a})
          /\ Cardinality((Listed \ {old}) \cup {a})
               \in {Cardinality(Listed \ {old}), Cardinality(Listed \ {old}) + 1}
      BY <2>3, FS_AddElement, Zenon
    <3>. QED
      BY <2>3, <3>1, ListedFinite
  <2>5. /\ Cardinality(Listed') <= Cardinality((Listed \ {old}) \cup {a})
        /\ Cardinality(Listed') \in Nat
        /\ Cardinality((Listed \ {old}) \cup {a}) \in Nat
    BY <2>2, <2>4, FS_Subset, FS_CardinalityType
  <2>. QED
    BY <2>4, <2>5, ListedFinite, ConstantsAssumption DEF RoomCapacity, ConstantsAssumption
<1>2. CASE ~Elsewhere(recv.key, a)
  <2>1. Listed' = Listed
    BY <1>2 DEF BuildBox, Listed
  <2>. QED
    BY <2>1, CapacityShrink
<1>. QED
  BY <1>1, <1>2

\* The actions that add nobody to the table.
LEMMA CapacityOther ==
    ASSUME TypeOK, [Next]_vars
    PROVE  \/ Listed' \subseteq Listed
           \/ RecvAddPeer \/ BuildBox \/ DiscAddPeer
           \/ \E a \in Addrs : DialPeer(a)
<1>1. CASE UNCHANGED peers
  BY <1>1 DEF Listed
<1>2. CASE Admit
  BY <1>2 DEF Admit, TakeOut, Listed, TypeOK
<1>3. CASE DropPeer
  BY <1>3 DEF DropPeer, Listed, TypeOK
<1>4. CASE TakeReconnecting
  BY <1>4 DEF TakeReconnecting, TakeOut, Listed, TypeOK
<1>5. ASSUME NEW p \in Punchers, PunchRemove(p) PROVE Listed' \subseteq Listed
  BY <1>5 DEF PunchRemove, Listed, TypeOK
<1>6. CASE PopPeer
  BY <1>6 DEF PopPeer, Listed, TypeOK
<1>7. CASE RecvLoop
  BY <1>1, <1>2, <1>3, <1>7
     DEF RecvLoop, RecvStep, Receive, ReceivePunchBan, RecvStop, Lookup, FetchPeer,
         MarkConnected, Decrypt, table
<1>8. CASE DiscLoop
  BY <1>1, <1>4, <1>8 DEF DiscLoop, HearBeacon, DiscStop, table
<1>9. CASE \E p \in Punchers : Punch(p)
  BY <1>1, <1>5, <1>9 DEF Punch, PunchStart, PunchStop, PunchExpire, PunchTest, table
<1>10. CASE Main
  BY <1>1, <1>10 DEF Main, HandshakeTimeout, Sigint, table
<1>11. CASE User
  BY <1>1, <1>6, <1>11
     DEF User, SelectPeer, NotifyRemoval, BanIp, SetMuted, MuteAll, Say, SendNext, Said,
         Leave, Interrupt, table
<1>. QED
  BY <1>1, <1>7, <1>8, <1>9, <1>10, <1>11 DEF Next, vars, table

LEMMA CapacityInit == Init => RoomCapacity
<1>. SUFFICES ASSUME Init PROVE RoomCapacity
  OBVIOUS
<1>1. Listed = {}
  BY DEF Init, Listed
<1>. QED
  BY <1>1, FS_EmptySet, ConstantsAssumption DEF RoomCapacity, ConstantsAssumption

\* However the threads interleave, and whatever was read as full before, the
\* room never holds more peers than MaxPeers leaves room for.
THEOREM CapacityHolds == Spec => []RoomCapacity
<1>1. Init => RoomCapacity
  BY CapacityInit
<1>2. TypeOK /\ RoomCapacity /\ [Next]_vars => RoomCapacity'
  <2>. SUFFICES ASSUME TypeOK, RoomCapacity, [Next]_vars PROVE RoomCapacity'
    OBVIOUS
  <2>1. CASE Listed' \subseteq Listed
    BY <2>1, CapacityShrink
  <2>2. CASE RecvAddPeer
    <3>1. recv.addr \in Addrs
      BY <2>2 DEF RecvAddPeer, TypeOK, RecvOK, RecvType
    <3>. QED
      BY <2>2, <3>1, CapacityAddPeer DEF RecvAddPeer
  <2>3. CASE BuildBox
    BY <2>3, CapacityBuildBox
  <2>4. CASE DiscAddPeer
    <3>1. disc.addr \in Addrs
      BY <2>4 DEF DiscAddPeer, TypeOK, DiscOK, DiscType
    <3>. QED
      BY <2>4, <3>1, CapacityAddPeer DEF DiscAddPeer
  <2>5. ASSUME NEW a \in Addrs, DialPeer(a) PROVE RoomCapacity'
    BY <2>5, CapacityAddPeer DEF DialPeer
  <2>. QED
    BY <2>1, <2>2, <2>3, <2>4, <2>5, CapacityOther
<1>. QED
  BY <1>1, <1>2, TypeCorrect, PTL DEF Spec

-----------------------------------------------------------------------------
(* No dict is in two places.                                               *)

\* What _add_peer installs was in nobody's hands but the caller's.
LEMMA OnePlaceAddPeer ==
    ASSUME TypeOK, EntryInOnePlace, NEW a \in Addrs, NEW c \in Entries \cup {None},
           c # None => \A b \in Addrs : peers[b] # c,
           AddPeer(a, c)
    PROVE  /\ \A x, y \in Listed' : peers'[x] = peers'[y] => x = y
           /\ \A d \in {recv.carry, disc.carry} :
                 d \notin {c, None} => \A b \in Addrs : peers'[b] # d
<1>1. CASE CanAdd(a)
  <2>1. PICK e \in (IF c = None THEN FreeEntries ELSE {c}) :
            peers' = [peers EXCEPT ![a] = e]
    BY <1>1 DEF AddPeer
  <2>2. \A b \in Addrs : peers[b] # e
    BY <2>1 DEF FreeEntries, Reachable
  <2>3. \A d \in {recv.carry, disc.carry} : d \notin {c, None} => d # e
    BY <2>1 DEF FreeEntries, Reachable
  <2>4. \A b \in Addrs : peers'[b] = IF b = a THEN e ELSE peers[b]
    BY <2>1 DEF TypeOK
  <2>5. \A b \in Listed' : b = a \/ b \in Listed
    BY <2>4 DEF Listed
  <2>6. \A x, y \in Listed' : peers'[x] = peers'[y] => x = y
    BY <2>2, <2>4, <2>5 DEF EntryInOnePlace, Listed
  <2>7. \A d \in {recv.carry, disc.carry} :
            d \notin {c, None} => \A b \in Addrs : peers'[b] # d
    BY <2>3, <2>4 DEF EntryInOnePlace
  <2>. QED
    BY <2>6, <2>7
<1>2. CASE ~CanAdd(a)
  <2>1. peers' = peers
    BY <1>2 DEF AddPeer
  <2>. QED
    BY <2>1 DEF EntryInOnePlace, Listed
<1>. QED
  BY <1>1, <1>2

\* Taking dicts out of the table, and leaving the carried ones alone.
LEMMA OnePlaceShrink ==
    ASSUME EntryInOnePlace, recv'.carry = recv.carry, disc'.carry = disc.carry,
           \A a \in Addrs : peers'[a] = peers[a] \/ peers'[a] = None
    PROVE  EntryInOnePlace'
BY DEF EntryInOnePlace, Listed

\* The actions that put a dict anywhere.
LEMMA OnePlaceOther ==
    ASSUME TypeOK, [Next]_vars
    PROVE  \/ /\ recv'.carry = recv.carry /\ disc'.carry = disc.carry
              /\ \A a \in Addrs : peers'[a] = peers[a] \/ peers'[a] = None
           \/ Admit \/ RecvAddPeer \/ BuildBox \/ TakeReconnecting \/ DiscAddPeer
           \/ \E a \in Addrs : DialPeer(a)
<1>. DEFINE Quiet == /\ recv'.carry = recv.carry /\ disc'.carry = disc.carry
                     /\ \A a \in Addrs : peers'[a] = peers[a] \/ peers'[a] = None
<1>n. \A b : NextPacket(b).carry = None /\ NextBeacon(b).carry = None
  BY DEF NextPacket, IdleRecv, NextBeacon, IdleDisc
<1>1. ASSUME UNCHANGED <<peers, recv, disc>> PROVE Quiet
  BY <1>1
<1>2. ASSUME UNCHANGED <<peers, disc>>, recv.carry = None, recv'.carry = None
      PROVE  Quiet
  BY <1>2
<1>3. CASE RecvLoop
  <2>1. CASE recv.pc \in {"add", "admit", "build"}
    BY <1>3, <2>1
       DEF RecvLoop, RecvStep, Receive, ReceivePunchBan, RecvStop, Lookup, FetchPeer,
           MarkConnected, Decrypt, DropPeer
  <2>2. CASE recv.pc \notin {"add", "admit", "build"}
    <3>1. recv.carry = None /\ recv \in RecvType
      BY <2>2 DEF TypeOK, RecvOK
    <3>2. ASSUME NEW a \in Addrs, NEW k \in Keys, NEW kind \in Kinds,
                 Receive(a, k, kind)
          PROVE  Quiet
      BY <1>2, <3>1, <3>2 DEF Receive, table, IdleRecv
    <3>3. ASSUME NEW a \in Addrs, ReceivePunchBan(a) PROVE Quiet
      BY <1>2, <1>n, <3>1, <3>3 DEF ReceivePunchBan, table
    <3>4. CASE RecvStop
      BY <1>2, <1>n, <3>1, <3>4 DEF RecvStop, table
    <3>5. CASE Lookup
      <4>1. recv'.carry = None
        BY <1>n, <3>1, <3>5 DEF Lookup, RecvType
      <4>. QED
        BY <1>2, <3>1, <3>5, <4>1 DEF Lookup, table
    <3>6. CASE FetchPeer
      <4>1. recv'.carry = None
        BY <1>n, <3>1, <3>6 DEF FetchPeer, RecvType
      <4>. QED
        BY <1>2, <3>1, <3>6, <4>1 DEF FetchPeer, table
    <3>7. CASE MarkConnected
      BY <1>2, <1>n, <3>1, <3>7 DEF MarkConnected
    <3>8. CASE Decrypt
      <4>1. recv'.carry = None
        BY <1>n, <3>1, <3>8 DEF Decrypt, RecvType
      <4>. QED
        BY <1>2, <3>1, <3>8, <4>1 DEF Decrypt, table
    <3>9. CASE DropPeer
      BY <1>n, <3>1, <3>9 DEF DropPeer, TypeOK
    <3>. QED
      BY <1>3, <2>2, <3>2, <3>3, <3>4, <3>5, <3>6, <3>7, <3>8, <3>9
         DEF RecvLoop, RecvStep, Admit, RecvAddPeer, BuildBox
  <2>. QED
    BY <2>1, <2>2
<1>4. CASE DiscLoop
  <2>1. CASE DiscStop
    <3>1. disc.carry = None
      BY <2>1 DEF DiscStop, TypeOK, DiscOK
    <3>. QED
      BY <1>n, <2>1, <3>1 DEF DiscStop, table
  <2>2. ASSUME NEW s \in Sids, NEW a \in Addrs, HearBeacon(s, a) PROVE Quiet
    <3>1. disc.carry = None
      BY <2>2 DEF HearBeacon, TypeOK, DiscOK
    <3>2. disc'.carry = None
      BY <1>n, <2>2 DEF HearBeacon, IdleDisc
    <3>. QED
      BY <2>2, <3>1, <3>2 DEF HearBeacon, table
  <2>. QED
    BY <1>4, <2>1, <2>2 DEF DiscLoop
<1>5. CASE \E p \in Punchers : Punch(p)
  <2>1. ASSUME NEW p \in Punchers, PunchRemove(p) PROVE Quiet
    BY <2>1 DEF PunchRemove, TypeOK
  <2>. QED
    BY <1>1, <1>5, <2>1 DEF Punch, PunchStart, PunchStop, PunchExpire, PunchTest, table
<1>6. CASE Main
  BY <1>1, <1>6 DEF Main, HandshakeTimeout, Sigint, table, threads
<1>7. CASE User
  <2>1. CASE PopPeer
    BY <2>1 DEF PopPeer, TypeOK
  <2>. QED
    BY <1>1, <1>7, <2>1
       DEF User, SelectPeer, NotifyRemoval, BanIp, SetMuted, MuteAll, Say, SendNext,
           Said, Leave, Interrupt, table
<1>8. CASE UNCHANGED vars
  BY <1>1, <1>8 DEF vars, table, threads
<1>. QED
  BY <1>3, <1>4, <1>5, <1>6, <1>7, <1>8 DEF Next

LEMMA OnePlaceStep == TypeOK /\ EntryInOnePlace /\ [Next]_vars => EntryInOnePlace'
<1>. SUFFICES ASSUME TypeOK, EntryInOnePlace, [Next]_vars PROVE EntryInOnePlace'
  OBVIOUS
<1>. USE ConstantsAssumption DEF ConstantsAssumption
<1>n. \A b : NextPacket(b).carry = None /\ NextBeacon(b).carry = None
  BY DEF NextPacket, IdleRecv, NextBeacon, IdleDisc
<1>1. CASE /\ recv'.carry = recv.carry /\ disc'.carry = disc.carry
           /\ \A a \in Addrs : peers'[a] = peers[a] \/ peers'[a] = None
  BY <1>1, OnePlaceShrink
<1>2. CASE Admit
  <2>1. CASE Elsewhere(recv.key, recv.addr)
    <3>. DEFINE old == peerByPubkey[recv.key]
    <3>1. old \in Addrs /\ peers[old] \in Entries
      BY <1>2, <2>1 DEF Admit, TypeOK, RecvOK, RecvType, Elsewhere
    <3>2. /\ recv'.carry = peers[old] /\ disc' = disc
          /\ \A b \in Addrs : peers'[b] = IF b = old THEN None ELSE peers[b]
      BY <1>2, <2>1 DEF Admit, TakeOut, TypeOK, RecvOK, RecvType
    <3>. QED
      BY <3>1, <3>2 DEF EntryInOnePlace, Listed
  <2>2. CASE ~Elsewhere(recv.key, recv.addr)
    <3>1. recv.carry = None
      BY <1>2 DEF Admit, TypeOK, RecvOK
    <3>2. recv'.carry = None
      BY <1>2, <1>n, <2>2, <3>1 DEF Admit, TypeOK, RecvOK, RecvType
    <3>. QED
      BY <1>2, <2>2, <3>1, <3>2, OnePlaceShrink DEF Admit
  <2>. QED
    BY <2>1, <2>2
<1>3. CASE RecvAddPeer
  <2>1. recv.addr \in Addrs /\ recv.carry \in Entries \cup {None}
    BY <1>3 DEF RecvAddPeer, TypeOK, RecvOK, RecvType
  <2>2. recv'.carry = None /\ disc' = disc
    BY <1>3 DEF RecvAddPeer, TypeOK, RecvOK, RecvType
  <2>3. /\ \A x, y \in Listed' : peers'[x] = peers'[y] => x = y
        /\ \A d \in {recv.carry, disc.carry} :
              d \notin {recv.carry, None} => \A b \in Addrs : peers'[b] # d
    BY <1>3, <2>1, OnePlaceAddPeer DEF RecvAddPeer, EntryInOnePlace
  <2>. QED
    BY <2>2, <2>3 DEF EntryInOnePlace
<1>4. CASE BuildBox
  <2>0. recv.addr \in Addrs /\ recv.key \in Keys /\ recv.carry = None
    BY <1>4 DEF BuildBox, TypeOK, RecvOK, RecvType
  <2>1. recv'.carry = None /\ disc' = disc
    BY <1>4, <2>0 DEF BuildBox, TypeOK, RecvOK, RecvType
  <2>2. CASE Elsewhere(recv.key, recv.addr)
    <3>. DEFINE old == peerByPubkey[recv.key]
    <3>1. old \in Addrs /\ old # recv.addr /\ old \in Listed
      BY <2>0, <2>2 DEF TypeOK, Elsewhere, Listed
    <3>2. \A b \in Addrs : peers'[b] = IF b = recv.addr THEN peers[old]
                                       ELSE IF b = old THEN None ELSE peers[b]
      BY <1>4, <2>0, <2>2, <3>1 DEF BuildBox, BoxEntry, TypeOK
    <3>. QED
      BY <2>1, <3>1, <3>2 DEF EntryInOnePlace, Listed
  <2>3. CASE ~Elsewhere(recv.key, recv.addr)
    BY <1>4, <2>0, <2>1, <2>3, OnePlaceShrink DEF BuildBox
  <2>. QED
    BY <2>2, <2>3
<1>5. CASE DiscAddPeer
  <2>1. disc.addr \in Addrs /\ disc.carry \in Entries \cup {None}
    BY <1>5 DEF DiscAddPeer, TypeOK, DiscOK, DiscType
  <2>2. disc'.carry = None /\ recv' = recv
    BY <1>5, <1>n DEF DiscAddPeer
  <2>3. /\ \A x, y \in Listed' : peers'[x] = peers'[y] => x = y
        /\ \A d \in {recv.carry, disc.carry} :
              d \notin {disc.carry, None} => \A b \in Addrs : peers'[b] # d
    BY <1>5, <2>1, OnePlaceAddPeer DEF DiscAddPeer, EntryInOnePlace
  <2>. QED
    BY <2>2, <2>3 DEF EntryInOnePlace
<1>6. CASE TakeReconnecting
  <2>1. disc.old \in Addrs /\ disc.carry = None /\ recv' = recv
    BY <1>6 DEF TakeReconnecting, TypeOK, DiscOK, DiscType
  <2>2. disc'.carry \in {None, peers[disc.old]}
    BY <1>6, <1>n DEF TakeReconnecting, TypeOK, DiscOK, DiscType
  <2>3. \A b \in Addrs : peers'[b] = IF b = disc.old THEN None ELSE peers[b]
    BY <1>6, <2>1 DEF TakeReconnecting, TakeOut, TypeOK
  <2>. QED
    BY <2>1, <2>2, <2>3 DEF EntryInOnePlace, Listed
<1>7. ASSUME NEW a \in Addrs, DialPeer(a) PROVE EntryInOnePlace'
  <2>1. /\ \A x, y \in Listed' : peers'[x] = peers'[y] => x = y
        /\ \A d \in {recv.carry, disc.carry} :
              d # None => \A b \in Addrs : peers'[b] # d
    BY <1>7, OnePlaceAddPeer DEF DialPeer
  <2>. QED
    BY <1>7, <2>1 DEF DialPeer, EntryInOnePlace
<1>. QED
  BY <1>1, <1>2, <1>3, <1>4, <1>5, <1>6, <1>7, OnePlaceOther

\* A dict is under one address or in one thread's hands: no two addresses
\* ever share connection state.
THEOREM OnePlaceHolds == Spec => []EntryInOnePlace
<1>1. Init => EntryInOnePlace
  BY DEF Init, EntryInOnePlace, Listed, IdleRecv, IdleDisc
<1>. QED
  BY <1>1, OnePlaceStep, TypeCorrect, PTL DEF Spec

-----------------------------------------------------------------------------
(* A session holds one slot.                                               *)

\* Steps that move no dict, give no box and change no index entry that is in use.
LEMMA IndexedShrink ==
    ASSUME TypeOK, BoxIndexed,
           \A a \in Addrs : peers'[a] = peers[a] \/ peers'[a] = None,
           \A e \in Entries : entry'[e].box = entry[e].box,
           \A k \in Keys, a \in Addrs :
               peerByPubkey[k] = a /\ peers'[a] # None => peerByPubkey'[k] = a
    PROVE  BoxIndexed'
<1>1. SUFFICES ASSUME NEW a \in Listed', NEW k \in Keys, entry'[peers'[a]].box = k
               PROVE  peerByPubkey'[k] = a
  BY DEF BoxIndexed
<1>2. a \in Addrs /\ peers'[a] = peers[a] /\ peers[a] \in Entries
  BY <1>1 DEF Listed, TypeOK
<1>3. entry[peers[a]].box = k
  BY <1>1, <1>2
<1>. QED
  BY <1>1, <1>2, <1>3 DEF BoxIndexed, Listed

\* A dict added by _add_peer has no box yet.
LEMMA IndexedAddPeer ==
    ASSUME TypeOK, BoxIndexed, NEW a \in Addrs, NEW c \in Entries \cup {None},
           c # None => \A b \in Addrs : peers[b] # c,
           AddPeer(a, c), UNCHANGED peerByPubkey
    PROVE  BoxIndexed'
<1>. USE ConstantsAssumption DEF ConstantsAssumption
<1>1. CASE CanAdd(a)
  <2>1. PICK e \in (IF c = None THEN FreeEntries ELSE {c}) :
            /\ peers' = [peers EXCEPT ![a] = e]
            /\ entry' = [entry EXCEPT ![e] = Installed(e, c)]
    BY <1>1 DEF AddPeer
  <2>2. e \in Entries /\ \A b \in Addrs : peers[b] # e
    BY <2>1 DEF FreeEntries, Reachable
  <2>3. Installed(e, c).box = None
    BY <2>2 DEF Installed, TypeOK, EntryType
  <2>4. SUFFICES ASSUME NEW b \in Listed', NEW k \in Keys, entry'[peers'[b]].box = k
                 PROVE  peerByPubkey'[k] = b
    BY DEF BoxIndexed
  <2>5. b # a
    BY <2>1, <2>2, <2>3, <2>4 DEF TypeOK
  <2>6. b \in Addrs /\ b \in Listed /\ peers'[b] = peers[b] /\ peers[b] # e
    BY <2>1, <2>2, <2>4, <2>5 DEF TypeOK, Listed
  <2>7. entry[peers[b]].box = k
    BY <2>1, <2>4, <2>6 DEF TypeOK, Listed
  <2>. QED
    BY <2>6, <2>7 DEF BoxIndexed
<1>2. CASE ~CanAdd(a)
  BY <1>2, IndexedShrink DEF AddPeer
<1>. QED
  BY <1>1, <1>2

\* _build_box migrates the dict the key has elsewhere before it stores the box.
LEMMA IndexedBuildBox ==
    ASSUME TypeOK, EntryInOnePlace, BoxIndexed, BuildBox PROVE BoxIndexed'
<1>. USE ConstantsAssumption DEF ConstantsAssumption
<1>. DEFINE a == recv.addr
            k == recv.key
            old == peerByPubkey[k]
            e == BoxEntry(k, a)
<1>1. a \in Addrs /\ k \in Keys
  BY DEF BuildBox, TypeOK, RecvOK, RecvType
<1>2. peerByPubkey' = [peerByPubkey EXCEPT ![k] = a]
  BY DEF BuildBox
<1>3. SUFFICES ASSUME NEW b \in Listed', NEW j \in Keys, entry'[peers'[b]].box = j
               PROVE  peerByPubkey'[j] = b
  BY DEF BoxIndexed
\* Every other address keeps its dict, which is not the one given the box ...
<1>4. b # a => /\ b \in Listed /\ peers'[b] = peers[b] /\ peers[b] # e
               /\ b # old \/ ~Elsewhere(k, a)
  <2>1. CASE Elsewhere(k, a)
    <3>1. old \in Addrs /\ old \in Listed /\ e = peers[old]
      BY <1>1, <2>1 DEF Elsewhere, TypeOK, Listed, BoxEntry
    <3>2. peers' = [peers EXCEPT ![old] = None, ![a] = e]
      BY <2>1 DEF BuildBox
    <3>. QED
      BY <1>1, <1>3, <3>1, <3>2 DEF TypeOK, Listed, EntryInOnePlace
  <2>2. CASE ~Elsewhere(k, a)
    <3>1. peers' = peers /\ e = peers[a]
      BY <2>2 DEF BuildBox, BoxEntry
    <3>. QED
      BY <1>1, <1>3, <2>2, <3>1 DEF TypeOK, Listed, EntryInOnePlace
  <2>. QED
    BY <2>1, <2>2
\* ... so its box is as it was, and is not for k.
<1>5. CASE b # a
  <2>1. peers[b] \in Entries /\ b \in Addrs
    BY <1>4, <1>5 DEF Listed, TypeOK
  <2>2. entry'[peers[b]] = entry[peers[b]]
    BY <1>4, <1>5, <2>1 DEF BuildBox, TypeOK
  <2>3. peerByPubkey[j] = b
    BY <1>3, <1>4, <1>5, <2>2 DEF BoxIndexed
  <2>4. j # k
    BY <1>1, <1>4, <1>5, <2>1, <2>3 DEF Elsewhere
  <2>. QED
    BY <1>1, <1>2, <2>3, <2>4 DEF TypeOK
<1>6. CASE b = a
  <2>1. peers'[a] = e /\ e \in Entries
    <3>1. CASE Elsewhere(k, a)
      BY <1>1, <3>1 DEF BuildBox, BoxEntry, TypeOK, Elsewhere
    <3>2. CASE ~Elsewhere(k, a)
      BY <1>1, <1>3, <1>6, <3>2 DEF BuildBox, BoxEntry, TypeOK, Listed
    <3>. QED
      BY <3>1, <3>2
  <2>2. entry'[e] = Boxed(e, k, a)
    BY <2>1 DEF BuildBox, TypeOK
  <2>3. Boxed(e, k, a).box = k
    BY <2>1 DEF Boxed, TypeOK, EntryType
  <2>. QED
    BY <1>1, <1>2, <1>3, <1>6, <2>1, <2>2, <2>3 DEF TypeOK
<1>. QED
  BY <1>5, <1>6

\* The actions that give a box or put a dict anywhere.
LEMMA IndexedOther ==
    ASSUME TypeOK, [Next]_vars
    PROVE  \/ /\ \A a \in Addrs : peers'[a] = peers[a] \/ peers'[a] = None
              /\ \A e \in Entries : entry'[e].box = entry[e].box
              /\ \A k \in Keys, a \in Addrs :
                    peerByPubkey[k] = a /\ peers'[a] # None => peerByPubkey'[k] = a
           \/ RecvAddPeer \/ BuildBox \/ DiscAddPeer
           \/ \E a \in Addrs : DialPeer(a)
<1>. DEFINE Quiet == /\ \A a \in Addrs : peers'[a] = peers[a] \/ peers'[a] = None
                     /\ \A e \in Entries : entry'[e].box = entry[e].box
                     /\ \A k \in Keys, a \in Addrs :
                          peerByPubkey[k] = a /\ peers'[a] # None => peerByPubkey'[k] = a
<1>1. ASSUME UNCHANGED table PROVE Quiet
  BY <1>1 DEF table
<1>2. CASE Admit
  BY <1>2 DEF Admit, TakeOut, TypeOK
<1>3. CASE MarkConnected
  <2>1. \A e \in Entries : entry'[e].box = entry[e].box
    BY <1>3 DEF MarkConnected, TypeOK, EntryType
  <2>. QED
    BY <1>3, <2>1 DEF MarkConnected
<1>4. CASE DropPeer
  BY <1>4 DEF DropPeer, TypeOK
<1>5. CASE TakeReconnecting
  BY <1>5 DEF TakeReconnecting, TakeOut, TypeOK
<1>6. ASSUME NEW p \in Punchers, PunchRemove(p) PROVE Quiet
  BY <1>6 DEF PunchRemove, IndexWithout, TypeOK
<1>7. CASE PopPeer
  BY <1>7 DEF PopPeer, TypeOK
<1>8. CASE MuteAll
  <2>1. \A e \in Entries : entry'[e].box = entry[e].box
    BY <1>8 DEF MuteAll, TypeOK, EntryType
  <2>. QED
    BY <1>8, <2>1 DEF MuteAll
<1>9. CASE RecvLoop
  BY <1>1, <1>2, <1>3, <1>4, <1>9
     DEF RecvLoop, RecvStep, Receive, ReceivePunchBan, RecvStop, Lookup, FetchPeer, Decrypt
<1>10. CASE DiscLoop
  BY <1>1, <1>5, <1>10 DEF DiscLoop, HearBeacon, DiscStop
<1>11. CASE \E p \in Punchers : Punch(p)
  BY <1>1, <1>6, <1>11 DEF Punch, PunchStart, PunchStop, PunchExpire, PunchTest
<1>12. CASE Main
  BY <1>1, <1>12 DEF Main, HandshakeTimeout, Sigint
<1>13. CASE User
  BY <1>1, <1>7, <1>8, <1>13
     DEF User, SelectPeer, NotifyRemoval, BanIp, SetMuted, Say, SendNext, Said, Leave,
         Interrupt
<1>14. CASE UNCHANGED vars
  BY <1>1, <1>14 DEF vars
<1>. QED
  BY <1>9, <1>10, <1>11, <1>12, <1>13, <1>14 DEF Next

LEMMA IndexedStep ==
    TypeOK /\ EntryInOnePlace /\ BoxIndexed /\ [Next]_vars => BoxIndexed'
<1>. SUFFICES ASSUME TypeOK, EntryInOnePlace, BoxIndexed, [Next]_vars PROVE BoxIndexed'
  OBVIOUS
<1>1. CASE RecvAddPeer
  <2>1. recv.addr \in Addrs /\ recv.carry \in Entries \cup {None}
    BY <1>1 DEF RecvAddPeer, TypeOK, RecvOK, RecvType
  <2>. QED
    BY <1>1, <2>1, IndexedAddPeer DEF RecvAddPeer, EntryInOnePlace
<1>2. CASE DiscAddPeer
  <2>1. disc.addr \in Addrs /\ disc.carry \in Entries \cup {None}
    BY <1>2 DEF DiscAddPeer, TypeOK, DiscOK, DiscType
  <2>. QED
    BY <1>2, <2>1, IndexedAddPeer DEF DiscAddPeer, EntryInOnePlace
<1>3. ASSUME NEW a \in Addrs, DialPeer(a) PROVE BoxIndexed'
  BY <1>3, IndexedAddPeer DEF DialPeer
<1>. QED
  BY <1>1, <1>2, <1>3, IndexedShrink, IndexedBuildBox, IndexedOther

\* A key whose box is in the table is indexed at exactly that address.
THEOREM IndexHolds == Spec => []BoxIndexed
<1>1. Init => BoxIndexed
  BY DEF Init, BoxIndexed, Listed
<1>. QED
  BY <1>1, IndexedStep, TypeCorrect, OnePlaceHolds, PTL DEF Spec

\* No session holds two slots, however often its address changes.
THEOREM OneSlotHolds == Spec => []OneSlotPerKey
<1>1. TypeOK /\ BoxIndexed => OneSlotPerKey
  BY DEF TypeOK, EntryType, BoxIndexed, OneSlotPerKey, Listed
<1>. QED
  BY <1>1, TypeCorrect, IndexHolds, PTL

-----------------------------------------------------------------------------
(* The table implements Roster.                                            *)

LEMMA StatusIs ==
    \A a \in Addrs :
        /\ Status[a] = "absent" <=> peers[a] = None
        /\ Status[a] = "waiting" <=> peers[a] # None /\ ~entry[peers[a]].connected
        /\ Status[a] = "connected" <=> peers[a] # None /\ entry[peers[a]].connected
BY DEF Status, Listed, Connected

LEMMA StatusNext ==
    \A a \in Addrs :
        /\ Status'[a] = "absent" <=> peers'[a] = None
        /\ Status'[a] = "waiting" <=> peers'[a] # None /\ ~entry'[peers'[a]].connected
        /\ Status'[a] = "connected" <=> peers'[a] # None /\ entry'[peers'[a]].connected
BY DEF Status, Listed, Connected

LEMMA StatusFunction ==
    /\ Status \in [Addrs -> {"absent", "waiting", "connected"}]
    /\ Status' \in [Addrs -> {"absent", "waiting", "connected"}]
BY DEF Status

LEMMA PresentIsListed == Promised!Present = Listed
BY StatusIs DEF Promised!Present, Listed

\* What a step does to the status of one address decides which step it is.
LEMMA StatusUpdate ==
    ASSUME NEW a \in Addrs, NEW v, Status'[a] = v,
           \A b \in Addrs \ {a} : Status'[b] = Status[b]
    PROVE  Status' = [Status EXCEPT ![a] = v]
BY StatusFunction

\* Steps that move no dict and change no listed dict's connection state.
LEMMA RosterKeeps ==
    ASSUME TypeOK, peers' = peers,
           \A a \in Addrs : peers[a] # None =>
               entry'[peers[a]].connected = entry[peers[a]].connected
    PROVE  Status' = Status
<1>1. \A a \in Addrs : Status'[a] = Status[a]
  BY DEF Status, Listed, Connected
<1>. QED
  BY <1>1, StatusFunction

\* Steps that take one dict out of the table.
LEMMA RosterTakesOut ==
    ASSUME TypeOK, NEW a \in Addrs, peers' = [peers EXCEPT ![a] = None], entry' = entry
    PROVE  [Promised!Next]_Status
<1>1. \A b \in Addrs \ {a} : Status'[b] = Status[b]
  BY DEF Status, Listed, Connected, TypeOK
<1>2. Status'[a] = "absent"
  BY StatusNext DEF TypeOK
<1>3. Status' = [Status EXCEPT ![a] = "absent"]
  BY <1>1, <1>2, StatusUpdate
<1>4. CASE Status[a] = "absent"
  BY <1>3, <1>4, StatusFunction
<1>5. CASE Status[a] # "absent"
  BY <1>3, <1>5 DEF Promised!Next, Promised!Leave
<1>. QED
  BY <1>4, <1>5

\* _add_peer, for a dict that is nowhere in the table.
LEMMA RosterAdds ==
    ASSUME TypeOK, RoomCapacity, NEW a \in Addrs, NEW c \in Entries \cup {None},
           c # None => \A b \in Addrs : peers[b] # c,
           AddPeer(a, c)
    PROVE  [Promised!Next]_Status
<1>. USE ConstantsAssumption DEF ConstantsAssumption
<1>1. CASE CanAdd(a)
  <2>1. PICK e \in (IF c = None THEN FreeEntries ELSE {c}) :
            /\ peers' = [peers EXCEPT ![a] = e]
            /\ entry' = [entry EXCEPT ![e] = Installed(e, c)]
    BY <1>1 DEF AddPeer
  <2>2. e \in Entries /\ \A b \in Addrs : peers[b] # e
    BY <2>1 DEF FreeEntries, Reachable
  <2>3. Installed(e, c).connected = FALSE
    BY <2>2 DEF Installed, TypeOK, EntryType
  <2>4. Status'[a] = "waiting"
    BY <2>1, <2>2, <2>3, StatusNext DEF TypeOK
  <2>5. \A b \in Addrs \ {a} : Status'[b] = Status[b]
    <3>1. TAKE b \in Addrs \ {a}
    <3>2. peers'[b] = peers[b]
      BY <2>1 DEF TypeOK
    <3>3. peers[b] # None => entry'[peers[b]] = entry[peers[b]]
      BY <2>1, <2>2 DEF TypeOK
    <3>. QED
      BY <3>2, <3>3 DEF Status, Listed, Connected
  <2>6. Status' = [Status EXCEPT ![a] = "waiting"]
    BY <2>4, <2>5, StatusUpdate
  <2>7. Status[a] = "absent" /\ Cardinality(Promised!Present) < MaxPeers - 1
    BY <1>1, StatusIs, PresentIsListed, ListedFinite DEF CanAdd, RoomFull, Listed
  <2>. QED
    <3>1. Promised!Take(a)
      BY <2>6, <2>7, Zenon DEF Promised!Take, Promised!Cardinality, Cardinality
    <3>. QED
      BY <3>1 DEF Promised!Next
<1>2. CASE ~CanAdd(a)
  BY <1>2, RosterKeeps DEF AddPeer
<1>. QED
  BY <1>1, <1>2

LEMMA RosterBuildBox ==
    ASSUME TypeOK, EntryInOnePlace, BuildBox PROVE [Promised!Next]_Status
<1>. USE ConstantsAssumption DEF ConstantsAssumption
<1>. DEFINE a == recv.addr
            k == recv.key
            old == peerByPubkey[k]
            e == BoxEntry(k, a)
<1>1. a \in Addrs /\ k \in Keys
  BY DEF BuildBox, TypeOK, RecvOK, RecvType
<1>2. CASE Elsewhere(k, a)
  <2>1. old \in Addrs /\ old # a /\ peers[old] \in Entries /\ e = peers[old]
    BY <1>1, <1>2 DEF Elsewhere, TypeOK, BoxEntry
  <2>2. /\ peers' = [peers EXCEPT ![old] = None, ![a] = e]
        /\ entry' = [entry EXCEPT ![e] = Boxed(e, k, a)]
    BY <1>2, <2>1 DEF BuildBox
  <2>3. Boxed(e, k, a).connected = FALSE
    BY <1>2, <2>1 DEF Boxed, TypeOK, EntryType
  <2>4. Status'[a] = "waiting" /\ Status'[old] = "absent" /\ Status[old] # "absent"
    <3>1. peers'[a] = e /\ peers'[old] = None /\ entry'[e].connected = FALSE
      BY <1>1, <2>1, <2>2, <2>3 DEF TypeOK
    <3>. QED
      BY <1>1, <2>1, <3>1, StatusIs, StatusNext
  <2>5. \A b \in Addrs \ {a, old} : Status'[b] = Status[b]
    <3>1. TAKE b \in Addrs \ {a, old}
    <3>2. peers'[b] = peers[b]
      BY <1>1, <2>1, <2>2 DEF TypeOK
    <3>3. peers[b] # None => entry'[peers[b]] = entry[peers[b]]
      BY <2>1, <2>2 DEF TypeOK, EntryInOnePlace, Listed
    <3>. QED
      BY <3>2, <3>3 DEF Status, Listed, Connected
  <2>6. Status' = [Status EXCEPT ![old] = "absent", ![a] = "waiting"]
    BY <1>1, <2>1, <2>4, <2>5, StatusFunction
  <2>. QED
    BY <1>1, <2>1, <2>4, <2>6 DEF Promised!Next, Promised!Move
<1>3. CASE ~Elsewhere(k, a)
  <2>1. peers' = peers /\ e = peers[a]
    BY <1>3 DEF BuildBox, BoxEntry
  <2>2. \A d \in Entries : entry'[d].connected = entry[d].connected
    <3>1. CASE e = None
      BY <3>1 DEF BuildBox
    <3>2. CASE e # None
      <4>1. e \in Entries
        BY <1>1, <2>1, <3>2 DEF TypeOK
      <4>2. entry' = [entry EXCEPT ![e] = Boxed(e, k, a)]
        BY <3>2 DEF BuildBox
      <4>3. Boxed(e, k, a).connected = entry[e].connected
        BY <1>3, <4>1 DEF Boxed, TypeOK, EntryType
      <4>. QED
        BY <4>1, <4>2, <4>3 DEF TypeOK
    <3>. QED
      BY <3>1, <3>2
  <2>. QED
    BY <2>1, <2>2, RosterKeeps DEF TypeOK
<1>. QED
  BY <1>2, <1>3

\* The dict marked connected is under one address at most.
LEMMA RosterConnects ==
    ASSUME TypeOK, EntryInOnePlace, MarkConnected PROVE [Promised!Next]_Status
<1>. DEFINE e == recv.ent
<1>1. e \in Entries /\ peers' = peers
  BY DEF MarkConnected, TypeOK, RecvOK, RecvType
<1>2. \A d \in Entries : entry'[d].connected = (d = e \/ entry[d].connected)
  <2>1. /\ \A d \in Entries : entry[d] \in EntryType
        /\ entry' = [entry EXCEPT ![e] = [entry[e] EXCEPT !.connected = TRUE]]
    BY DEF MarkConnected, TypeOK
  <2>2. [entry[e] EXCEPT !.connected = TRUE].connected = TRUE
    BY <1>1, <2>1 DEF EntryType
  <2>3. entry'[e].connected = TRUE /\ \A d \in Entries \ {e} : entry'[d] = entry[d]
    BY <1>1, <2>1, <2>2 DEF TypeOK
  <2>. QED
    BY <2>1, <2>3 DEF EntryType
<1>3. CASE \E a \in Addrs : peers[a] = e /\ ~entry[e].connected
  <2>1. PICK a \in Addrs : peers[a] = e /\ ~entry[e].connected
    BY <1>3
  <2>2. e # None
    BY <1>1, ConstantsAssumption DEF ConstantsAssumption
  <2>3. Status[a] = "waiting" /\ Status'[a] = "connected"
    BY <1>1, <1>2, <2>1, <2>2, StatusIs, StatusNext
  <2>4. \A b \in Addrs \ {a} : Status'[b] = Status[b]
    <3>1. TAKE b \in Addrs \ {a}
    <3>2. peers[b] # None => peers[b] \in Entries /\ peers[b] # e
      BY <2>1, <2>2 DEF TypeOK, EntryInOnePlace, Listed
    <3>3. peers[b] # None => (entry'[peers[b]].connected <=> entry[peers[b]].connected)
      BY <1>2, <3>2
    <3>. QED
      BY <1>1, <3>3 DEF Status, Listed, Connected
  <2>5. Status' = [Status EXCEPT ![a] = "connected"]
    BY <2>3, <2>4, StatusUpdate
  <2>. QED
    BY <2>3, <2>5 DEF Promised!Next, Promised!Connect
<1>4. CASE ~\E a \in Addrs : peers[a] = e /\ ~entry[e].connected
  <2>1. \A a \in Addrs : peers[a] # None =>
            (entry'[peers[a]].connected <=> entry[peers[a]].connected)
    BY <1>2, <1>4 DEF TypeOK
  <2>2. \A a \in Addrs : Status'[a] = Status[a]
    BY <1>1, <2>1 DEF Status, Listed, Connected
  <2>. QED
    BY <2>2, StatusFunction
<1>. QED
  BY <1>3, <1>4

\* Every step of the threads is a step of Roster or leaves it alone.
LEMMA RosterStep ==
    TypeOK /\ RoomCapacity /\ EntryInOnePlace /\ [Next]_vars => [Promised!Next]_Status
<1>. SUFFICES ASSUME TypeOK, RoomCapacity, EntryInOnePlace, [Next]_vars
              PROVE  [Promised!Next]_Status
  OBVIOUS
<1>. USE ConstantsAssumption DEF ConstantsAssumption
<1>0. ASSUME UNCHANGED <<peers, entry>> PROVE [Promised!Next]_Status
  BY <1>0, RosterKeeps
<1>1. CASE RecvLoop
  <2>1. CASE Admit
    <3>1. recv.key \in Keys
      BY <2>1 DEF Admit, TypeOK, RecvOK, RecvType
    <3>2. Elsewhere(recv.key, recv.addr) => peerByPubkey[recv.key] \in Addrs
      BY <3>1 DEF Elsewhere, TypeOK
    <3>. QED
      BY <1>0, <2>1, <3>2, RosterTakesOut DEF Admit, TakeOut
  <2>2. CASE RecvAddPeer
    <3>1. recv.addr \in Addrs /\ recv.carry \in Entries \cup {None}
      BY <2>2 DEF RecvAddPeer, TypeOK, RecvOK, RecvType
    <3>. QED
      BY <2>2, <3>1, RosterAdds DEF RecvAddPeer, EntryInOnePlace
  <2>3. CASE DropPeer
    <3>1. recv.addr \in Addrs
      BY <2>3 DEF DropPeer, TypeOK, RecvOK, RecvType
    <3>. QED
      BY <2>3, <3>1, RosterTakesOut DEF DropPeer
  <2>. QED
    BY <1>0, <1>1, <2>1, <2>2, <2>3, RosterBuildBox, RosterConnects
       DEF RecvLoop, RecvStep, Receive, ReceivePunchBan, RecvStop, Lookup, FetchPeer,
           Decrypt, table
<1>2. CASE DiscLoop
  <2>1. CASE TakeReconnecting
    <3>1. disc.old \in Addrs
      BY <2>1 DEF TakeReconnecting, TypeOK, DiscOK, DiscType
    <3>. QED
      BY <2>1, <3>1, RosterTakesOut DEF TakeReconnecting, TakeOut
  <2>2. CASE DiscAddPeer
    <3>1. disc.addr \in Addrs /\ disc.carry \in Entries \cup {None}
      BY <2>2 DEF DiscAddPeer, TypeOK, DiscOK, DiscType
    <3>. QED
      BY <2>2, <3>1, RosterAdds DEF DiscAddPeer, EntryInOnePlace
  <2>. QED
    BY <1>0, <1>2, <2>1, <2>2 DEF DiscLoop, HearBeacon, DiscStop, table
<1>3. CASE \E p \in Punchers : Punch(p)
  <2>1. ASSUME NEW p \in Punchers, PunchRemove(p) PROVE [Promised!Next]_Status
    <3>1. puncher[p].addr \in Addrs
      BY <2>1 DEF PunchRemove, TypeOK, PuncherOK, PuncherType
    <3>. QED
      BY <2>1, <3>1, RosterTakesOut DEF PunchRemove
  <2>. QED
    BY <1>0, <1>3, <2>1 DEF Punch, PunchStart, PunchStop, PunchExpire, PunchTest, table
<1>4. CASE Main
  <2>1. ASSUME NEW a \in Addrs, DialPeer(a) PROVE [Promised!Next]_Status
    BY <2>1, RosterAdds DEF DialPeer
  <2>. QED
    BY <1>0, <1>4, <2>1 DEF Main, HandshakeTimeout, Sigint, table
<1>5. CASE User
  <2>1. CASE PopPeer
    <3>1. ui.addr \in Addrs
      BY <2>1 DEF PopPeer, TypeOK, UiOK, UiType
    <3>. QED
      BY <2>1, <3>1, RosterTakesOut DEF PopPeer
  <2>2. CASE MuteAll
    <3>1. \A e \in Entries : entry'[e].connected = entry[e].connected
      BY <2>2 DEF MuteAll, TypeOK, EntryType
    <3>. QED
      BY <2>2, <3>1, RosterKeeps DEF MuteAll, TypeOK
  <2>. QED
    BY <1>0, <1>5, <2>1, <2>2
       DEF User, SelectPeer, NotifyRemoval, BanIp, SetMuted, Say, SendNext, Said, Leave,
           Interrupt, table
<1>6. CASE UNCHANGED vars
  BY <1>0, <1>6 DEF vars, table
<1>. QED
  BY <1>1, <1>2, <1>3, <1>4, <1>5, <1>6 DEF Next

\* The table implements Roster: for every number of addresses, threads and
\* slots, a peer takes a free slot, is connected there by its own handshake and
\* loses that only with the slot, whatever the threads do in between.
THEOREM RosterKept == Spec => KeepsRoster
<1>1. ASSUME Init PROVE Promised!Init
  <2>1. \A a \in Addrs : Status[a] = "absent"
    BY <1>1, StatusIs DEF Init
  <2>2. Status = [a \in Addrs |-> "absent"]
    BY <2>1, StatusFunction
  <2>. QED
    BY <2>2 DEF Promised!Init
<1>2. TypeOK /\ RoomCapacity /\ EntryInOnePlace /\ [Next]_vars => [Promised!Next]_Status
  BY RosterStep
<1>. QED
  BY <1>1, <1>2, TypeCorrect, CapacityHolds, OnePlaceHolds, PTL
     DEF Spec, KeepsRoster, Promised!Spec

=============================================================================
