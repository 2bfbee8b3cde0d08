----------------------------- MODULE PeerTable -----------------------------
(***************************************************************************)
(* The peer table of one chat session (src/session.py, class UDPClient):   *)
(* the dict _peers, the index _peer_by_pubkey and the threads that change  *)
(* them.  _peers_lock protects single accesses, not whole handlers, so one *)
(* action is one critical section, or one access made outside the lock.    *)
(* A dict's event connected is set outside the lock, so the two critical   *)
(* sections that test it and then remove the dict are two actions each,    *)
(* with the lock held in between.  The threads are                         *)
(*   - the receive loop (variable recv), which admits, connects and drops; *)
(*   - the discovery loop (disc, seenSids), which adds peers it hears;     *)
(*   - one hole-punching thread for each peer added (puncher);             *)
(*   - the main thread, which dials the addresses given in Internet mode;  *)
(*   - the user's input thread (ui).                                       *)
(* The network is open: any packet may come from any address, any number   *)
(* of times, so loss, delay, duplication, reordering and peers that change *)
(* their address are all included.                                         *)
(***************************************************************************)
EXTENDS Naturals, FiniteSets

CONSTANTS
    Addrs,       \* (ip, port) pairs
    Ips, IpOf,   \* the ip of an address
    Keys,        \* public-key fingerprints, one for each remote session
    Sids,        \* discovery session identifiers
    Entries,     \* identities of the per-peer dicts
    Punchers,    \* identities of the punch threads
    Dialled,     \* peer addresses given up front: Internet mode
    Kinds,       \* what the peers send, a subset of AllKinds
    Commands,    \* what the local user does, a subset of AllCommands
    LanHost,     \* lan_mode and is_host: waits for its first peer for ever
    MaxPeers,    \* _max_peers, the local session included
    SavedMuted,  \* the mute preference the session starts with
    None

Handshake == {"punch", "ack"}
AllKinds == Handshake \cup {"disconnect", "eject"}
AllCommands == {"kick", "ban", "mute", "say", "leave"}

ASSUME ConstantsAssumption ==
    /\ MaxPeers \in Nat /\ MaxPeers >= 2
    /\ IsFiniteSet(Addrs)
    /\ IpOf \in [Addrs -> Ips]
    /\ None \notin Addrs /\ None \notin Keys /\ None \notin Entries
    /\ Kinds \subseteq AllKinds /\ None \notin AllKinds
    /\ Dialled \subseteq Addrs
    /\ Commands \subseteq AllCommands
    /\ LanHost \in BOOLEAN /\ SavedMuted \in BOOLEAN

VARIABLES
    peers,          \* _peers: the dict held for each address, or None
    entry,          \* the contents of each dict
    peerByPubkey,   \* _peer_by_pubkey
    recv,           \* the receive loop and its locals
    disc,           \* the discovery loop and its locals
    seenSids,       \* seen_sids, local to the discovery loop
    puncher,        \* the punch threads and their locals
    dial,           \* addresses the main thread has still to add
    ui,             \* the input thread and its locals
    muted,          \* _muted
    bannedIps,      \* _banned_ips
    firstConnected, \* the event _first_connected
    done            \* the event done

table    == <<peers, entry, peerByPubkey>>
threads  == <<recv, disc, seenSids, puncher, dial, ui>>
settings == <<muted, bannedIps, firstConnected, done>>
vars     == <<table, threads, settings>>

-----------------------------------------------------------------------------
(* Types.                                                                  *)

EntryType == [box : Keys \cup {None}, connected : BOOLEAN, muted : BOOLEAN]

RecvType ==
    [pc : {"idle", "received", "admit", "add", "build", "fetch", "mark",
           "decrypt", "drop", "stopped"},
     addr : Addrs \cup {None}, key : Keys \cup {None}, kind : AllKinds \cup {None},
     full : BOOLEAN, carry : Entries \cup {None}, ent : Entries \cup {None}]

RecvOK ==
    /\ recv \in RecvType
    /\ recv.pc \notin {"idle", "stopped"} =>
          recv.addr # None /\ recv.key # None /\ recv.kind # None
    /\ recv.pc \in {"mark", "decrypt", "drop"} => recv.ent # None
    /\ recv.carry # None => recv.pc = "add"

DiscType ==
    [pc : {"idle", "take", "add", "stopped"},
     addr : Addrs \cup {None}, old : Addrs \cup {None},
     carry : Entries \cup {None}]

DiscOK ==
    /\ disc \in DiscType
    /\ disc.pc \in {"take", "add"} => disc.addr # None
    /\ disc.pc = "take" => disc.old # None
    /\ disc.carry # None => disc.pc = "add"

PuncherType ==
    [phase : {"none", "start", "punching", "expired", "removing"},
     addr : Addrs \cup {None}, ent : Entries \cup {None}]

PuncherOK ==
    /\ puncher \in [Punchers -> PuncherType]
    /\ \A p \in Punchers :
          /\ puncher[p].phase # "none" => puncher[p].addr # None
          /\ puncher[p].phase = "punching" => puncher[p].ent # None

UiType ==
    [pc : {"idle", "kick", "ban", "banIp", "pop", "muteAll", "send", "crashed",
           "stopped"},
     addr : Addrs \cup {None}, targets : SUBSET Addrs]

UiOK ==
    /\ ui \in UiType
    /\ ui.pc \in {"kick", "ban", "banIp", "pop"} => ui.addr # None

\* Every variable has its type, and a thread has the locals its place in the
\* code needs: no thread ever works on a dict or an address it did not get.
TypeOK ==
    /\ peers \in [Addrs -> Entries \cup {None}]
    /\ entry \in [Entries -> EntryType]
    /\ peerByPubkey \in [Keys -> Addrs \cup {None}]
    /\ seenSids \in [Sids -> Addrs \cup {None}]
    /\ RecvOK /\ DiscOK /\ PuncherOK /\ UiOK
    /\ dial \subseteq Addrs
    /\ muted \in BOOLEAN
    /\ bannedIps \subseteq Ips
    /\ firstConnected \in BOOLEAN
    /\ done \in BOOLEAN

-----------------------------------------------------------------------------
(* Shared operations on the table.                                         *)

Listed == {a \in Addrs : peers[a] # None}

\* The test full of the receive and discovery loops, also made by _add_peer.
RoomFull == Cardinality(Listed) >= MaxPeers - 1

Connected(a) == peers[a] # None /\ entry[peers[a]].connected

\* No thread is between its test of a dict and the removal of that dict,
\* which is when _peers_lock is held for longer than one step.
Unlocked == disc.pc # "take" /\ \A p \in Punchers : puncher[p].phase # "removing"

\* Dicts no thread can reach any more (reference counting frees them).
Reachable ==
    {peers[a] : a \in Addrs} \cup {recv.carry, recv.ent, disc.carry}
        \cup {puncher[p].ent : p \in Punchers}
FreeEntries == Entries \ Reachable

IdlePuncher == [phase |-> "none", addr |-> None, ent |-> None]
Spawn(a, p) ==
    /\ puncher[p] = IdlePuncher
    /\ puncher' = [puncher EXCEPT ![p] = [@ EXCEPT !.phase = "start", !.addr = a]]

\* The dict _add_peer installs: the carried one with its handshake state
\* reset, or a fresh one that takes the session's mute flag.
Installed(e, carry) ==
    IF carry = None
    THEN [box |-> None, connected |-> FALSE, muted |-> muted]
    ELSE [entry[e] EXCEPT !.box = None, !.connected = FALSE]

\* Take a dict out of the table, to put it under another address.
TakeOutCopy(old) == UNCHANGED peers
TakeOut(old) == peers' = [peers EXCEPT ![old] = None]

\* _peer_by_pubkey without the keys that point at a.
IndexWithoutOthers(a) ==
    [k \in Keys |-> IF peerByPubkey[k] # a THEN None ELSE peerByPubkey[k]]
IndexWithout(a) ==
    [k \in Keys |-> IF peerByPubkey[k] = a THEN None ELSE peerByPubkey[k]]

CanAddUnlimited(a) == a \notin Listed
CanAdd(a) == a \notin Listed /\ ~RoomFull

\* _add_peer: under the lock, test again and install; then start a punch
\* thread.  Callers ignore the result.
AddPeer(a, carry) ==
    \/ /\ CanAdd(a)
       /\ \E e \in (IF carry = None THEN FreeEntries ELSE {carry}) :
             /\ peers' = [peers EXCEPT ![a] = e]
             /\ entry' = [entry EXCEPT ![e] = Installed(e, carry)]
       /\ \E p \in Punchers : Spawn(a, p)
    \/ ~CanAdd(a) /\ UNCHANGED <<peers, entry, puncher>>

-----------------------------------------------------------------------------
(* The receive loop.  It tests done between two packets only: one packet   *)
(* may still be handled after done is set.                                 *)

IdleRecv == [pc |-> "idle", addr |-> None, key |-> None, kind |-> None,
             full |-> FALSE, carry |-> None, ent |-> None]

NextPacket(stop) == [IdleRecv EXCEPT !.pc = IF stop THEN "stopped" ELSE "idle"]

\* A packet of session k from address a passes the ban test.
Receive(a, k, kind) ==
    /\ recv.pc = "idle"
    /\ IpOf[a] \notin bannedIps
    /\ recv' = [IdleRecv EXCEPT !.pc = "received", !.addr = a, !.key = k,
                                !.kind = kind]
    /\ UNCHANGED <<table, disc, seenSids, puncher, dial, ui, settings>>

\* The socket times out, which is when a quiet loop sees done.
RecvStop ==
    /\ recv.pc = "idle" /\ done
    /\ recv' = NextPacket(TRUE)
    /\ UNCHANGED <<table, disc, seenSids, puncher, dial, ui, settings>>

\* The host turned our ip away before any handshake.
ReceivePunchBan(a) ==
    /\ recv.pc = "idle"
    /\ IpOf[a] \notin bannedIps
    /\ recv' = NextPacket(TRUE)
    /\ done' = TRUE
    /\ firstConnected' = TRUE
    /\ UNCHANGED <<table, disc, seenSids, puncher, dial, ui, muted, bannedIps>>

\* known and full are read under the lock and used after it is released.
Lookup ==
    /\ recv.pc = "received" /\ Unlocked
    /\ LET e == peers[recv.addr] IN
       recv' = CASE e # None /\ recv.kind \in Handshake ->
                      [recv EXCEPT !.pc = "build"]
                 [] e # None /\ recv.kind \notin Handshake /\ entry[e].box # None ->
                      [recv EXCEPT !.pc = "decrypt", !.ent = e]
                 [] e = None /\ recv.kind = "punch" ->
                      [recv EXCEPT !.pc = "admit", !.full = RoomFull]
                 [] OTHER -> NextPacket(done)
    /\ UNCHANGED <<table, disc, seenSids, puncher, dial, ui, settings>>

ElsewhereUnconnected(k, a) ==
    /\ peerByPubkey[k] \notin {None, a}
    /\ peers[peerByPubkey[k]] # None
    /\ ~Connected(peerByPubkey[k])

\* Is key k in use at an address other than a?
Elsewhere(k, a) ==
    /\ peerByPubkey[k] \notin {None, a}
    /\ peers[peerByPubkey[k]] # None

\* A PUNCH from an unknown address: a known key takes its dict along, a new
\* one needs a free slot.
Admit ==
    /\ recv.pc = "admit" /\ Unlocked
    /\ \/ /\ Elsewhere(recv.key, recv.addr)
          /\ LET old == peerByPubkey[recv.key] IN
             /\ recv' = [recv EXCEPT !.pc = "add", !.carry = peers[old]]
             /\ TakeOut(old)
       \/ /\ ~Elsewhere(recv.key, recv.addr)
          /\ recv' = IF recv.full THEN NextPacket(done)
                                  ELSE [recv EXCEPT !.pc = "add"]
          /\ UNCHANGED peers
    /\ UNCHANGED <<entry, peerByPubkey, disc, seenSids, puncher, dial, ui, settings>>

RecvAddPeer ==
    /\ recv.pc = "add" /\ Unlocked
    /\ AddPeer(recv.addr, recv.carry)
    /\ recv' = [recv EXCEPT !.pc = "build", !.carry = None]
    /\ UNCHANGED <<peerByPubkey, disc, seenSids, dial, ui, settings>>

\* The dict _build_box gives the box to, and what it becomes: a dict that
\* moves to a new address starts its handshake again.
BoxEntry(k, a) == IF Elsewhere(k, a) THEN peers[peerByPubkey[k]] ELSE peers[a]

BoxedAfresh(e, k, a) == [entry[e] EXCEPT !.box = k, !.connected = FALSE]
Boxed(e, k, a) ==
    [entry[e] EXCEPT !.box = k,
                     !.connected = IF Elsewhere(k, a) THEN FALSE ELSE @]

\* _build_box: index the key, migrate the dict it has elsewhere, store the box.
BuildBox ==
    /\ recv.pc = "build" /\ Unlocked
    /\ LET a == recv.addr
           k == recv.key
           e == BoxEntry(k, a)
       IN /\ peers' = IF Elsewhere(k, a)
                      THEN [peers EXCEPT ![peerByPubkey[k]] = None, ![a] = e]
                      ELSE peers
          /\ peerByPubkey' = [peerByPubkey EXCEPT ![k] = a]
          /\ entry' = IF e = None THEN entry ELSE [entry EXCEPT ![e] = Boxed(e, k, a)]
    /\ recv' = [recv EXCEPT !.pc = "fetch"]
    /\ UNCHANGED <<disc, seenSids, puncher, dial, ui, settings>>

\* The dict is fetched under the lock ...
FetchPeer ==
    /\ recv.pc = "fetch" /\ Unlocked
    /\ LET e == peers[recv.addr] IN
       recv' = IF e = None THEN NextPacket(done)
                           ELSE [recv EXCEPT !.pc = "mark", !.ent = e]
    /\ UNCHANGED <<table, disc, seenSids, puncher, dial, ui, settings>>

\* ... and marked connected outside it, before the join is announced.
MarkConnected ==
    /\ recv.pc = "mark"
    /\ entry' = [entry EXCEPT ![recv.ent].connected = TRUE]
    /\ firstConnected' = (firstConnected \/ ~entry[recv.ent].connected)
    /\ recv' = NextPacket(done)
    /\ UNCHANGED <<peers, peerByPubkey, disc, seenSids, puncher, dial, ui, muted,
                   bannedIps, done>>

\* Decrypt with the dict's box, read outside the lock.  A DISCONNECT goes on
\* to drop the peer; KICK, BAN and ROOM_CLOSED ("eject") end the session.
Decrypt ==
    /\ recv.pc = "decrypt"
    /\ LET readable == entry[recv.ent].box = recv.key IN
       /\ done' = (done \/ (readable /\ recv.kind = "eject"))
       /\ recv' = IF readable /\ recv.kind = "disconnect"
                  THEN [recv EXCEPT !.pc = "drop"]
                  ELSE NextPacket(done')
    /\ UNCHANGED <<table, disc, seenSids, puncher, dial, ui, muted, bannedIps,
                   firstConnected>>

DropPeer ==
    /\ recv.pc = "drop" /\ Unlocked
    /\ peers' = [peers EXCEPT ![recv.addr] = None]
    /\ recv' = NextPacket(done)
    /\ UNCHANGED <<entry, peerByPubkey, disc, seenSids, puncher, dial, ui, settings>>

-----------------------------------------------------------------------------
(* The discovery loop.                                                     *)

IdleDisc == [pc |-> "idle", addr |-> None, old |-> None, carry |-> None]

NextBeaconForever(stop) == IdleDisc
NextBeacon(stop) == [IdleDisc EXCEPT !.pc = IF stop THEN "stopped" ELSE "idle"]

\* The session of a beacon was heard before at an address that is still
\* listed and never completed the handshake.
Reconnecting(s, a) ==
    /\ seenSids[s] \notin {None, a}
    /\ peers[seenSids[s]] # None
    /\ ~Connected(seenSids[s])

\* An authenticated beacon of session s for address a.  A session that
\* reconnects keeps the lock until its dict is taken out.
HearBeacon(s, a) ==
    /\ disc.pc = "idle" /\ Unlocked
    /\ disc' =
          CASE Reconnecting(s, a) ->
                 [IdleDisc EXCEPT !.pc = "take", !.addr = a, !.old = seenSids[s]]
            [] ~Reconnecting(s, a) /\ a \notin Listed /\ ~RoomFull ->
                 [IdleDisc EXCEPT !.pc = "add", !.addr = a]
            [] OTHER -> NextBeacon(done)
    /\ seenSids' = [seenSids EXCEPT ![s] = a]
    /\ UNCHANGED <<table, recv, puncher, dial, ui, settings>>

\* The dict goes, whether or not its handshake was completed since the test.
TakeReconnecting ==
    /\ disc.pc = "take"
    /\ disc' = IF disc.addr \in Listed THEN NextBeacon(done)
               ELSE [disc EXCEPT !.pc = "add", !.old = None, !.carry = peers[disc.old]]
    /\ TakeOut(disc.old)
    /\ UNCHANGED <<entry, peerByPubkey, recv, seenSids, puncher, dial, ui, settings>>

DiscAddPeer ==
    /\ disc.pc = "add" /\ Unlocked
    /\ AddPeer(disc.addr, disc.carry)
    /\ disc' = NextBeacon(done)
    /\ UNCHANGED <<peerByPubkey, recv, seenSids, dial, ui, settings>>

DiscStop ==
    /\ disc.pc = "idle" /\ done
    /\ disc' = NextBeacon(TRUE)
    /\ UNCHANGED <<table, recv, seenSids, puncher, dial, ui, settings>>

-----------------------------------------------------------------------------
(* Punch threads and the main thread.                                      *)

PunchStartUnchecked(p) ==
    /\ puncher[p].phase = "start" /\ Unlocked
    /\ puncher' = [puncher EXCEPT ![p] = [@ EXCEPT !.phase = "punching",
                                                  !.ent = peers[puncher[p].addr]]]
    /\ UNCHANGED <<table, recv, disc, seenSids, dial, ui, settings>>

PunchStart(p) ==
    /\ puncher[p].phase = "start" /\ Unlocked
    /\ LET e == peers[puncher[p].addr] IN
       puncher' = [puncher EXCEPT ![p] =
                     IF e = None THEN IdlePuncher
                     ELSE [@ EXCEPT !.phase = "punching", !.ent = e]]
    /\ UNCHANGED <<table, recv, disc, seenSids, dial, ui, settings>>

\* The thread's own dict is connected, or the session is over.
PunchStop(p) ==
    /\ puncher[p].phase = "punching"
    /\ entry[puncher[p].ent].connected \/ done
    /\ puncher' = [puncher EXCEPT ![p] = IdlePuncher]
    /\ UNCHANGED <<table, recv, disc, seenSids, dial, ui, settings>>

\* PUNCH_TIMEOUT passed; connected and done are tested once more.
PunchExpire(p) ==
    /\ puncher[p].phase = "punching"
    /\ ~entry[puncher[p].ent].connected /\ ~done
    /\ puncher' = [puncher EXCEPT ![p] = [@ EXCEPT !.phase = "expired", !.ent = None]]
    /\ UNCHANGED <<table, recv, disc, seenSids, dial, ui, settings>>

\* The test _remove_unconnected_peer makes under the lock.
AbandonedKeyed(a) == a \in Listed /\ ~Connected(a) /\ entry[peers[a]].box # None
Abandoned(a) == a \in Listed /\ ~Connected(a)

\* _remove_unconnected_peer tests whatever dict the address holds by now ...
PunchTest(p) ==
    /\ puncher[p].phase = "expired" /\ Unlocked
    /\ puncher' = [puncher EXCEPT ![p] = IF Abandoned(puncher[p].addr)
                                         THEN [@ EXCEPT !.phase = "removing"]
                                         ELSE IdlePuncher]
    /\ UNCHANGED <<table, recv, disc, seenSids, dial, ui, settings>>

\* ... and pops it, whether or not its handshake was completed in between.
PunchRemove(p) ==
    /\ puncher[p].phase = "removing"
    /\ peers' = [peers EXCEPT ![puncher[p].addr] = None]
    /\ peerByPubkey' = IndexWithout(puncher[p].addr)
    /\ puncher' = [puncher EXCEPT ![p] = IdlePuncher]
    /\ UNCHANGED <<entry, recv, disc, seenSids, dial, ui, settings>>

\* Internet mode: the main thread adds the addresses it was given.
DialPeer(a) ==
    /\ a \in dial /\ Unlocked
    /\ AddPeer(a, None)
    /\ dial' = dial \ {a}
    /\ UNCHANGED <<peerByPubkey, recv, disc, seenSids, ui, settings>>

\* Nobody answered within PUNCH_TIMEOUT.
HandshakeTimeout ==
    /\ dial = {} /\ ~firstConnected /\ ~LanHost
    /\ done' = TRUE
    /\ UNCHANGED <<table, threads, muted, bannedIps, firstConnected>>

\* Ctrl+C outside raw mode: the signal handler leaves the room.
Sigint ==
    /\ "leave" \in Commands
    /\ done' = TRUE
    /\ UNCHANGED <<table, threads, muted, bannedIps, firstConnected>>

-----------------------------------------------------------------------------
(* The input thread, started once a first peer is connected.               *)

IdleUi == [pc |-> "idle", addr |-> None, targets |-> {}]

\* A line of text is acted on only if the session is still open.
Enters(cmd) == /\ cmd \in Commands /\ ui.pc = "idle" /\ firstConnected /\ ~done

\* The keys k and B on a connected peer of the member list (host only).
SelectPeer(cmd, a) ==
    /\ cmd \in Commands \cap {"kick", "ban"}
    /\ ui.pc = "idle" /\ firstConnected
    /\ Connected(a) /\ Unlocked
    /\ ui' = [IdleUi EXCEPT !.pc = cmd, !.addr = a]
    /\ UNCHANGED <<table, recv, disc, seenSids, puncher, dial, settings>>

\* _kick_peer and _ban_peer fetch the dict again to tell the peer and the room.
NotifyRemoval ==
    /\ ui.pc \in {"kick", "ban"} /\ Unlocked
    /\ ui' = CASE peers[ui.addr] = None -> IdleUi
               [] peers[ui.addr] # None /\ ui.pc = "ban" -> [ui EXCEPT !.pc = "banIp"]
               [] OTHER -> [ui EXCEPT !.pc = "pop"]
    /\ UNCHANGED <<table, recv, disc, seenSids, puncher, dial, settings>>

BanIp ==
    /\ ui.pc = "banIp"
    /\ bannedIps' = bannedIps \cup {IpOf[ui.addr]}
    /\ ui' = [ui EXCEPT !.pc = "pop"]
    /\ UNCHANGED <<table, recv, disc, seenSids, puncher, dial, muted,
                   firstConnected, done>>

PopPeer ==
    /\ ui.pc = "pop" /\ Unlocked
    /\ peers' = [peers EXCEPT ![ui.addr] = None]
    /\ ui' = IdleUi
    /\ UNCHANGED <<entry, peerByPubkey, recv, disc, seenSids, puncher, dial, settings>>

\* /mute and /unmute: the session's flag first, then every listed dict.
SetMuted(b) ==
    /\ Enters("mute")
    /\ muted' = b
    /\ ui' = [IdleUi EXCEPT !.pc = "muteAll"]
    /\ UNCHANGED <<table, recv, disc, seenSids, puncher, dial, bannedIps,
                   firstConnected, done>>

MuteAll ==
    /\ ui.pc = "muteAll" /\ Unlocked
    /\ entry' = [e \in Entries |-> IF \E a \in Addrs : peers[a] = e
                                   THEN [entry[e] EXCEPT !.muted = muted]
                                   ELSE entry[e]]
    /\ ui' = IdleUi
    /\ UNCHANGED <<peers, peerByPubkey, recv, disc, seenSids, puncher, dial, settings>>

\* A chat message: the recipients are listed under the lock ...
Say ==
    /\ Enters("say") /\ Unlocked
    /\ ui' = [IdleUi EXCEPT !.pc = "send",
                            !.targets = {a \in Addrs : /\ Connected(a)
                                                       /\ entry[peers[a]].box # None}]
    /\ UNCHANGED <<table, recv, disc, seenSids, puncher, dial, settings>>

\* ... and each one's dict is looked up again, under the lock taken anew.
\* A missing key is a KeyError, which ends the input thread.
SendNext(a) ==
    /\ ui.pc = "send" /\ a \in ui.targets /\ Unlocked
    /\ ui' = IF peers[a] = None THEN [IdleUi EXCEPT !.pc = "crashed"]
                                ELSE [ui EXCEPT !.targets = @ \ {a}]
    /\ UNCHANGED <<table, recv, disc, seenSids, puncher, dial, settings>>

Said ==
    /\ ui.pc = "send" /\ ui.targets = {}
    /\ ui' = IdleUi
    /\ UNCHANGED <<table, recv, disc, seenSids, puncher, dial, settings>>

\* /exit and /close.
Leave ==
    /\ Enters("leave")
    /\ done' = TRUE
    /\ ui' = [IdleUi EXCEPT !.pc = "stopped"]
    /\ UNCHANGED <<table, recv, disc, seenSids, puncher, dial, muted, bannedIps,
                   firstConnected>>

\* Ctrl+C or Ctrl+D in raw mode: the thread ends and done stays unset.
Interrupt ==
    /\ "leave" \in Commands /\ ui.pc = "idle" /\ firstConnected
    /\ ui' = [IdleUi EXCEPT !.pc = "stopped"]
    /\ UNCHANGED <<table, recv, disc, seenSids, puncher, dial, settings>>

-----------------------------------------------------------------------------
Init ==
    /\ peers = [a \in Addrs |-> None]
    /\ entry = [e \in Entries |-> [box |-> None, connected |-> FALSE, muted |-> FALSE]]
    /\ peerByPubkey = [k \in Keys |-> None]
    /\ recv = IdleRecv
    /\ disc = IdleDisc
    /\ seenSids = [s \in Sids |-> None]
    /\ puncher = [p \in Punchers |-> IdlePuncher]
    /\ dial = Dialled
    /\ ui = IdleUi
    /\ muted = SavedMuted
    /\ bannedIps = {}
    /\ firstConnected = FALSE
    /\ done = FALSE

RecvStep ==
    \/ Lookup \/ Admit \/ RecvAddPeer \/ BuildBox \/ FetchPeer \/ MarkConnected
    \/ Decrypt \/ DropPeer

RecvLoop ==
    \/ \E a \in Addrs, k \in Keys, kind \in Kinds : Receive(a, k, kind)
    \/ \E a \in Addrs : ReceivePunchBan(a)
    \/ RecvStop \/ RecvStep

DiscLoop ==
    \/ \E s \in Sids, a \in Addrs : HearBeacon(s, a)
    \/ TakeReconnecting \/ DiscAddPeer \/ DiscStop

Punch(p) ==
    PunchStart(p) \/ PunchStop(p) \/ PunchExpire(p) \/ PunchTest(p) \/ PunchRemove(p)

Main == (\E a \in Addrs : DialPeer(a)) \/ HandshakeTimeout \/ Sigint

User ==
    \/ \E cmd \in {"kick", "ban"}, a \in Addrs : SelectPeer(cmd, a)
    \/ NotifyRemoval \/ BanIp \/ PopPeer
    \/ \E b \in BOOLEAN : SetMuted(b)
    \/ MuteAll
    \/ Say \/ (\E a \in Addrs : SendNext(a)) \/ Said
    \/ Leave \/ Interrupt

Next == RecvLoop \/ DiscLoop \/ (\E p \in Punchers : Punch(p)) \/ Main \/ User

Spec == Init /\ [][Next]_vars

\* The threads are scheduled: a handler begun is carried through, a punch
\* thread runs to its deadline, and the discovery loop, whose own socket times
\* out, sees done.  A thread that waits for _peers_lock gets it in the end, as
\* the others leave it again and again.  Nothing is assumed of packets, beacons
\* or the user, nor that a quiet receive loop wakes up: its socket is shared
\* with the loops of other sessions, which take the timeout off when they end.
Fairness ==
    /\ SF_vars(RecvStep)
    /\ SF_vars(TakeReconnecting \/ DiscAddPeer \/ DiscStop)
    /\ \A p \in Punchers : SF_vars(Punch(p))

FairSpec == Spec /\ Fairness

-----------------------------------------------------------------------------
(* Safety.                                                                 *)

\* The room never holds more peers than it has slots, although full is read
\* in one critical section and the peer added in another, by three threads.
RoomCapacity == Cardinality(Listed) <= MaxPeers - 1

\* A dict is in one place: under one address, or in the hands of the one
\* thread that is moving it.
EntryInOnePlace ==
    /\ \A a, b \in Listed : peers[a] = peers[b] => a = b
    /\ recv.carry # None =>
          /\ recv.carry # disc.carry
          /\ \A a \in Addrs : peers[a] # recv.carry
    /\ disc.carry # None => \A a \in Addrs : peers[a] # disc.carry

\* A session holds one slot, whichever addresses it was heard from.
OneSlotPerKey ==
    \A a, b \in Listed :
        a # b => \/ entry[peers[a]].box # entry[peers[b]].box
                \/ entry[peers[a]].box = None

\* What makes OneSlotPerKey hold: a key in use is indexed where it is used.
BoxIndexed ==
    \A a \in Listed, k \in Keys :
        entry[peers[a]].box = k => peerByPubkey[k] = a

\* Roster says what the table promises to the rest of the program.
Status == [a \in Addrs |-> CASE a \notin Listed -> "absent"
                             [] a \in Listed /\ ~Connected(a) -> "waiting"
                             [] Connected(a) -> "connected"]

Promised == INSTANCE Roster WITH Slots <- MaxPeers - 1, status <- Status

\* The threads keep that promise, whichever of them adds, moves, connects and
\* removes a dict: a peer takes a slot that is free and is connected in it, and
\* starts again only by moving to another address.
KeepsRoster == Promised!Spec

-----------------------------------------------------------------------------
(* What the code's own text says of it and the code does not keep.         *)

\* A peer that leaves never stops the local user from chatting.
SenderSurvives == ui.pc # "crashed"

\* A punch deadline takes the slot of a peer that never completed the handshake.
DeadlineSparesConnected ==
    [][\A p \in Punchers :
          puncher[p].phase = "removing" /\ puncher'[p].phase = "none" =>
              ~Connected(puncher[p].addr)]_vars

-----------------------------------------------------------------------------
(* Liveness.                                                               *)

\* A slot is not held for ever by a peer that never answers.
UnconnectedSlotFreed ==
    \A a \in Addrs :
        (a \in Listed /\ ~Connected(a)) ~> (a \notin Listed \/ Connected(a) \/ done)

\* When the session is over its discovery loop and all its punch threads end,
\* those started by a packet or a beacon handled late included.
ThreadsEnd ==
    done ~> disc.pc = "stopped" /\ \A p \in Punchers : puncher[p].phase = "none"

=============================================================================
