------------------------- MODULE ProfileSyncProofs -------------------------
(***************************************************************************)
(* Proofs about ProfileSync, for any number of addresses, sessions and     *)
(* dicts and any usernames and messages of the day.  The heart is an       *)
(* account of what a greeted peer is still owed: a field it was not sent   *)
(* is in the hands of the receive thread, which has still to read or to    *)
(* send it, or in those of the input thread.                               *)
(***************************************************************************)
EXTENDS ProfileSync, TLAPS

-----------------------------------------------------------------------------
(* Types.                                                                  *)

\* The initial state is well-formed.
LEMMA InitType == Init => TypeOK
BY ProfileAssumption
   DEF Init, TypeOK, Unconnected, IdleRecv, IdleDisc, IdleUi, Fields, Sessions

\* Adding a dict at an address keeps the table's type.
LEMMA AddPeerType ==
    ASSUME TypeOK, NEW a \in Addrs, NEW d \in Dicts, AddPeer(a, d)
    PROVE  /\ peers' \in [Addrs -> Dicts \cup {None}]
           /\ dict' \in [Dicts -> [box : Keys \cup {None}, connected : BOOLEAN]]
BY DEF AddPeer, Unconnected, TypeOK

\* A datagram recorded as sent keeps the record's type.
LEMMA TellType ==
    ASSUME TypeOK, NEW s \in Sessions, NEW f \in Fields, NEW v, Tell(s, f, v)
    PROVE  told' \subseteq Sessions \X Fields
BY DEF Tell, TypeOK

\* Every step of the receive thread keeps the types.
LEMMA RecvType ==
    ASSUME TypeOK, RecvLoop
    PROVE  TypeOK'
<1>. USE DEF TypeOK
<1>1. ASSUME NEW a \in Addrs, NEW k \in Keys, HearKnown(a, k)
      PROVE  TypeOK'
  BY <1>1, ProfileAssumption DEF HearKnown, Packet, IdleRecv, Fields
<1>2. ASSUME NEW a \in Addrs, NEW k \in Keys, HearNew(a, k)
      PROVE  TypeOK'
  <2>1. PICK d \in Free : AddPeer(a, d)
    BY <1>2 DEF HearNew
  <2>2. /\ peers' \in [Addrs -> Dicts \cup {None}]
        /\ dict' \in [Dicts -> [box : Keys \cup {None}, connected : BOOLEAN]]
    BY <2>1, AddPeerType DEF Free
  <2>. QED
    BY <1>2, <2>2, ProfileAssumption DEF HearNew, Packet, IdleRecv, Fields
<1>3. ASSUME NEW a \in Addrs, NEW old \in Addrs, NEW k \in Keys, HearMoved(a, k, old)
      PROVE  TypeOK'
  <2>1. peers[old] \in Dicts
    BY <1>3 DEF HearMoved, Listed
  <2>. QED
    BY <1>3, <2>1, ProfileAssumption DEF HearMoved, Packet, IdleRecv, Fields
<1>4. CASE RecvAddPeer
  <2>1. recv.addr \in Addrs /\ recv.dict \in Dicts
    BY <1>4 DEF RecvAddPeer
  <2>2. /\ peers' \in [Addrs -> Dicts \cup {None}]
        /\ dict' \in [Dicts -> [box : Keys \cup {None}, connected : BOOLEAN]]
    BY <1>4, <2>1, AddPeerType DEF RecvAddPeer
  <2>. QED
    BY <1>4, <2>2 DEF RecvAddPeer
<1>5. CASE BuildBox
  <2>1. recv.addr \in Addrs /\ recv.key \in Keys
    BY <1>5 DEF BuildBox
  <2>2. /\ dict' \in [Dicts -> [box : Keys \cup {None}, connected : BOOLEAN]]
        /\ greeted' \in [Dicts -> Sessions \cup {None}]
    <3>1. CASE peers[recv.addr] = None
      BY <1>5, <3>1 DEF BuildBox, Boxed
    <3>2. CASE peers[recv.addr] # None
      <4>1. peers[recv.addr] \in Dicts
        BY <2>1, <3>2
      <4>2. dict' = [dict EXCEPT ![peers[recv.addr]] =
                        [box |-> recv.key, connected |-> @.connected]]
        BY <1>5, <3>2 DEF BuildBox, Boxed
      <4>3. greeted' = [greeted EXCEPT ![peers[recv.addr]] =
                           IF dict[peers[recv.addr]].box = recv.key THEN @ ELSE None]
        BY <1>5, <3>2 DEF BuildBox, Boxed
      <4>4. dict[peers[recv.addr]].connected \in BOOLEAN
        BY <4>1
      <4>5. dict' \in [Dicts -> [box : Keys \cup {None}, connected : BOOLEAN]]
        BY <2>1, <4>1, <4>2, <4>4
      <4>6. greeted' \in [Dicts -> Sessions \cup {None}]
        BY <4>1, <4>3
      <4>. QED
        BY <4>5, <4>6
    <3>. QED
      BY <3>1, <3>2
  <2>. QED
    BY <1>5, <2>2 DEF BuildBox
<1>6. ASSUME NEW old \in Addrs, BuildBoxMoved(old)
      PROVE  TypeOK'
  <2>1. recv.addr \in Addrs /\ recv.key \in Keys /\ peers[old] \in Dicts
    BY <1>6 DEF BuildBoxMoved, Listed
  <2>. QED
    BY <1>6, <2>1 DEF BuildBoxMoved
<1>7. CASE FetchPeer
  BY <1>7, ProfileAssumption DEF FetchPeer, Listed, IdleRecv, Fields
<1>8. CASE MarkConnected
  <2>1. recv.addr \in Addrs /\ recv.key \in Keys /\ recv.dict \in Dicts
    BY <1>8 DEF MarkConnected
  <2>2. <<recv.addr, recv.key>> \in Sessions
    BY <2>1 DEF Sessions
  <2>3. dict' \in [Dicts -> [box : Keys \cup {None}, connected : BOOLEAN]]
    <3>1. CASE UNCHANGED dict
      BY <3>1
    <3>2. CASE dict' = [dict EXCEPT ![recv.dict].connected = TRUE]
      BY <2>1, <3>2
    <3>. QED
      BY <1>8, <3>1, <3>2 DEF MarkConnected
  <2>4. greeted' \in [Dicts -> Sessions \cup {None}]
    BY <1>8, <2>1, <2>2 DEF MarkConnected
  <2>5. recv' = IdleRecv \/ recv' = [recv EXCEPT !.pc = "greet", !.dict = None]
    BY <1>8 DEF MarkConnected
  <2>6. UNCHANGED <<profile, peers, disc, ui, told>>
    BY <1>8 DEF MarkConnected
  <2>. QED
    <3>1. CASE recv' = IdleRecv
      BY <2>3, <2>4, <2>6, <3>1 DEF IdleRecv, Fields
    <3>2. CASE recv' = [recv EXCEPT !.pc = "greet", !.dict = None]
      BY <2>1, <2>3, <2>4, <2>6, <3>2, ProfileAssumption
    <3>. QED
      BY <2>5, <3>1, <3>2
<1>9. CASE ReadField
  <2>1. profile[recv.field] \in Values /\ profile[recv.field] # None
    BY ProfileAssumption
  <2>2. UNCHANGED <<profile, peers, dict, disc, ui, told, greeted>>
    BY <1>9 DEF ReadField
  <2>3. CASE recv' = IdleRecv
    BY <2>2, <2>3 DEF IdleRecv, Fields
  <2>4. CASE recv' = [recv EXCEPT !.pc = "send", !.value = profile[recv.field]]
    BY <1>9, <2>1, <2>2, <2>4 DEF ReadField
  <2>. QED
    BY <1>9, <2>3, <2>4 DEF ReadField
<1>10. CASE SendField
  <2>1. <<recv.addr, recv.key>> \in Sessions /\ recv.field \in Fields
    BY <1>10 DEF SendField, Sessions
  <2>2. told' \subseteq Sessions \X Fields
    BY <1>10, <2>1, TellType DEF SendField
  <2>. QED
    BY <1>10, <2>2, ProfileAssumption DEF SendField, IdleRecv, Fields
<1>11. ASSUME NEW a \in Addrs, DropPeer(a)
       PROVE  TypeOK'
  BY <1>11 DEF DropPeer
<1>. QED
  BY <1>1, <1>2, <1>3, <1>4, <1>5, <1>6, <1>7, <1>8, <1>9, <1>10, <1>11 DEF RecvLoop

\* So does every step of the others.
LEMMA OtherType ==
    ASSUME TypeOK, OtherLoops \/ User
    PROVE  TypeOK'
<1>. USE DEF TypeOK
<1>1. ASSUME NEW a \in Addrs, NEW b \in Addrs, DiscTake(a, b)
      PROVE  TypeOK'
  <2>1. peers[a] \in Dicts
    BY <1>1 DEF DiscTake, Listed
  <2>. QED
    BY <1>1, <2>1, ProfileAssumption DEF DiscTake, IdleDisc
<1>2. CASE DiscAddPeer
  <2>1. disc.dict \in Dicts /\ disc.addr \in Addrs
    BY <1>2 DEF DiscAddPeer, IdleDisc
  <2>2. /\ peers' \in [Addrs -> Dicts \cup {None}]
        /\ dict' \in [Dicts -> [box : Keys \cup {None}, connected : BOOLEAN]]
    BY <1>2, <2>1, AddPeerType DEF DiscAddPeer
  <2>. QED
    BY <1>2, <2>2 DEF DiscAddPeer, IdleDisc
<1>3. ASSUME NEW a \in Addrs, DiscAddNew(a)
      PROVE  TypeOK'
  <2>1. PICK d \in Free : AddPeer(a, d)
    BY <1>3 DEF DiscAddNew
  <2>2. /\ peers' \in [Addrs -> Dicts \cup {None}]
        /\ dict' \in [Dicts -> [box : Keys \cup {None}, connected : BOOLEAN]]
    BY <2>1, AddPeerType DEF Free
  <2>. QED
    BY <1>3, <2>2 DEF DiscAddNew
<1>4. ASSUME NEW a \in Addrs, PunchTimeout(a)
      PROVE  TypeOK'
  BY <1>4 DEF PunchTimeout
<1>5. ASSUME NEW f \in Fields, NEW value \in Values, Change(f, value)
      PROVE  TypeOK'
  BY <1>5, ProfileAssumption DEF Change
<1>6. CASE ListTargets
  <2>1. Targets \subseteq Sessions
    BY ProfileAssumption DEF Targets, Connected, Listed, Sessions
  <2>. QED
    BY <1>6, <2>1 DEF ListTargets
<1>7. ASSUME NEW s \in Sessions, SendChange(s)
      PROVE  TypeOK'
  <2>1. told' \subseteq Sessions \X Fields
    BY <1>7, TellType DEF SendChange
  <2>. QED
    BY <1>7, <2>1 DEF SendChange
<1>8. CASE Sent
  BY <1>8 DEF Sent, IdleUi, Fields
<1>9. ASSUME NEW a \in Addrs, RemovePeer(a)
      PROVE  TypeOK'
  BY <1>9 DEF RemovePeer
<1>. QED
  BY <1>1, <1>2, <1>3, <1>4, <1>5, <1>6, <1>7, <1>8, <1>9 DEF OtherLoops, User

\* Every step keeps the types.
LEMMA StepType == TypeOK /\ [Next]_vars => TypeOK'
<1>1. TypeOK /\ UNCHANGED vars => TypeOK'
  BY DEF vars, TypeOK
<1>. QED
  BY <1>1, RecvType, OtherType DEF Next

\* Every variable keeps its type; a thread has an address, a session, a dict or
\* a value in hand where its code needs one.
THEOREM TypeCorrect == Spec => []TypeOK
BY InitType, StepType, PTL DEF Spec

-----------------------------------------------------------------------------
(* What a greeted peer is owed.                                            *)

\* The receive thread has still to read field f for session s, or to send its
\* current value.
GreetingCovers(s, f) ==
    /\ <<recv.addr, recv.key>> = s
    /\ \/ recv.pc = "greet" /\ (recv.field = "name" \/ f = "motd")
       \/ recv.pc = "send" /\ recv.field = "name" /\ f = "motd"
       \/ recv.pc = "send" /\ recv.field = f /\ recv.value = profile[f]

\* The input thread has still to send the current value of field f, to all that
\* are connected or to this session among others.
BroadcastCovers(s, f) ==
    /\ ui.field = f /\ ui.value = profile[f]
    /\ ui.pc = "list" \/ (ui.pc = "send" /\ s \in ui.to)

Settled(s, f) ==
    \/ profile[f] = Empty \/ <<s, f>> \in told
    \/ GreetingCovers(s, f) \/ BroadcastCovers(s, f)

SessionAt(a) == <<a, dict[peers[a]].box>>

Account ==
    /\ recv.pc \notin {"greet", "send"} => recv.field = "name"
    /\ \A a \in Addrs : Greeted(a) => \A f \in Fields : Settled(SessionAt(a), f)

\* A dict that has just been added is not connected.
LEMMA AddPeerGreets ==
    ASSUME TypeOK, NEW b \in Addrs, NEW d \in Dicts, AddPeer(b, d), UNCHANGED greeted,
           NEW a \in Addrs, Greeted(a)'
    PROVE  Greeted(a) /\ SessionAt(a)' = SessionAt(a)
<1>1. peers[a]' # d
  BY DEF AddPeer, Unconnected, TypeOK, Greeted, Connected, Listed
<1>. QED
  BY <1>1 DEF AddPeer, TypeOK, Greeted, SessionAt, Connected, Listed

\* A step that leaves both threads' hands, the profile and what was sent alone,
\* and greets nobody, keeps the account.
LEMMA AccountKept ==
    ASSUME Account, UNCHANGED <<profile, ui, told>>,
           \/ recv.pc \notin {"greet", "send"}
           \/ /\ recv'.pc = recv.pc /\ recv'.addr = recv.addr /\ recv'.key = recv.key
              /\ recv'.field = recv.field /\ recv'.value = recv.value,
           recv'.pc \notin {"greet", "send"} => recv'.field = "name",
           \A a \in Addrs : Greeted(a)' => Greeted(a) /\ SessionAt(a)' = SessionAt(a)
    PROVE  Account'
<1>1. ASSUME NEW s, NEW f \in Fields, Settled(s, f)
      PROVE  Settled(s, f)'
  BY <1>1 DEF Settled, GreetingCovers, BroadcastCovers
<1>2. ASSUME NEW a \in Addrs, Greeted(a)', NEW f \in Fields
      PROVE  Settled(SessionAt(a), f)'
  BY <1>1, <1>2 DEF Account
<1>. QED
  BY <1>2 DEF Account

\* Every step of the receive thread keeps the account.
LEMMA RecvAccount ==
    ASSUME TypeOK, Account, RecvLoop
    PROVE  Account'
<1>0. recv.pc \notin {"greet", "send"} => recv.field = "name"
  BY DEF Account
<1>1. ASSUME NEW a \in Addrs, NEW k \in Keys, HearKnown(a, k)
      PROVE  Account'
  BY <1>1, AccountKept
     DEF HearKnown, Packet, IdleRecv, Greeted, Connected, Listed, SessionAt
<1>2. ASSUME NEW a \in Addrs, NEW k \in Keys, HearNew(a, k)
      PROVE  Account'
  <2>1. PICK d \in Free : AddPeer(a, d)
    BY <1>2 DEF HearNew
  <2>2. UNCHANGED greeted
    BY <1>2 DEF HearNew
  <2>3. \A b \in Addrs : Greeted(b)' => Greeted(b) /\ SessionAt(b)' = SessionAt(b)
    BY <2>1, <2>2, AddPeerGreets DEF Free
  <2>. QED
    BY <1>2, <2>3, AccountKept DEF HearNew, Packet, IdleRecv
<1>3. ASSUME NEW a \in Addrs, NEW old \in Addrs, NEW k \in Keys, HearMoved(a, k, old)
      PROVE  Account'
  <2>1. \A b \in Addrs : Greeted(b)' => Greeted(b) /\ SessionAt(b)' = SessionAt(b)
    BY <1>3 DEF HearMoved, TypeOK, Greeted, Connected, Listed, SessionAt
  <2>. QED
    BY <1>3, <2>1, AccountKept DEF HearMoved, Packet, IdleRecv
<1>4. CASE RecvAddPeer
  <2>1. recv.addr \in Addrs /\ recv.dict \in Dicts /\ UNCHANGED greeted
    BY <1>4 DEF RecvAddPeer, TypeOK
  <2>2. \A b \in Addrs : Greeted(b)' => Greeted(b) /\ SessionAt(b)' = SessionAt(b)
    <3>1. CASE AddPeer(recv.addr, recv.dict)
      BY <2>1, <3>1, AddPeerGreets
    <3>2. CASE UNCHANGED <<peers, dict>>
      BY <2>1, <3>2 DEF Greeted, Connected, Listed, SessionAt
    <3>. QED
      BY <1>4, <3>1, <3>2 DEF RecvAddPeer
  <2>3. recv'.pc = "build" /\ recv'.field = recv.field
    BY <1>4 DEF RecvAddPeer, TypeOK
  <2>. QED
    BY <1>0, <1>4, <2>2, <2>3, AccountKept DEF RecvAddPeer
<1>5. CASE BuildBox
  <2>1. \A b \in Addrs : Greeted(b)' => Greeted(b) /\ SessionAt(b)' = SessionAt(b)
    <3>1. CASE peers[recv.addr] = None
      BY <1>5, <3>1 DEF BuildBox, Boxed, Greeted, Connected, Listed, SessionAt
    <3>2. CASE peers[recv.addr] # None
      <4>. DEFINE d == peers[recv.addr]
      <4>1. d \in Dicts
        BY <1>5, <3>2 DEF BuildBox, TypeOK
      <4>2. /\ dict' = [dict EXCEPT ![d] = [box |-> recv.key, connected |-> @.connected]]
            /\ greeted' = [greeted EXCEPT ![d] = IF dict[d].box = recv.key THEN @ ELSE None]
            /\ UNCHANGED peers
        BY <1>5, <3>2 DEF BuildBox, Boxed
      <4>3. /\ dict'[d].box = recv.key /\ dict'[d].connected = dict[d].connected
            /\ greeted'[d] # None
                  => greeted'[d] = greeted[d] /\ dict[d].box = recv.key
            /\ \A e \in Dicts \ {d} : dict'[e] = dict[e] /\ greeted'[e] = greeted[e]
        BY <4>1, <4>2 DEF TypeOK
      <4>4. ASSUME NEW b \in Addrs, Greeted(b)'
            PROVE  Greeted(b) /\ SessionAt(b)' = SessionAt(b)
        <5>1. peers'[b] = peers[b] /\ peers[b] \in Dicts /\ peers[b] # None
          BY <4>2, <4>4 DEF TypeOK, Greeted, Connected, Listed
        <5>2. greeted'[peers[b]] = <<b, dict'[peers[b]].box>>
          BY <4>4, <5>1 DEF Greeted
        <5>3. CASE peers[b] = d
          <6>1. greeted'[d] # None
            <7>1. dict'[d].box \in Keys
              BY <4>4, <5>1, <5>3, <4>3, <1>5 DEF BuildBox, TypeOK
            <7>2. <<b, dict'[d].box>> \in Sessions
              BY <7>1 DEF Sessions
            <7>. QED
              BY <5>2, <5>3, <7>2, ProfileAssumption DEF Sessions
          <6>. QED
            BY <4>3, <4>4, <5>1, <5>2, <5>3, <6>1
               DEF Greeted, Connected, Listed, SessionAt
        <5>4. CASE peers[b] # d
          BY <4>3, <4>4, <5>1, <5>4 DEF Greeted, Connected, Listed, SessionAt
        <5>. QED
          BY <5>3, <5>4
      <4>. QED
        BY <4>4
    <3>. QED
      BY <3>1, <3>2
  <2>2. recv'.pc = "fetch" /\ recv'.field = recv.field
    BY <1>5 DEF BuildBox, TypeOK
  <2>. QED
    BY <1>0, <1>5, <2>1, <2>2, AccountKept DEF BuildBox
<1>6. ASSUME NEW old \in Addrs, BuildBoxMoved(old)
      PROVE  Account'
  <2>1. recv.addr \in Addrs /\ peers[old] \in Dicts
    BY <1>6 DEF BuildBoxMoved, TypeOK, Listed
  <2>2. ~dict'[peers[old]].connected
    BY <1>6, <2>1 DEF BuildBoxMoved, TypeOK
  <2>3. ASSUME NEW b \in Addrs, Greeted(b)'
        PROVE  Greeted(b) /\ SessionAt(b)' = SessionAt(b)
    <3>1. peers'[b] # None /\ peers'[b] # peers[old]
      BY <2>2, <2>3 DEF Greeted, Connected, Listed
    <3>2. peers'[b] = peers[b]
      BY <1>6, <2>1, <3>1 DEF BuildBoxMoved, TypeOK
    <3>3. peers[b] \in Dicts /\ peers[b] # peers[old]
      BY <3>1, <3>2 DEF TypeOK
    <3>4. dict'[peers[b]] = dict[peers[b]] /\ greeted'[peers[b]] = greeted[peers[b]]
      BY <1>6, <3>3 DEF BuildBoxMoved, TypeOK
    <3>. QED
      BY <2>3, <3>2, <3>4 DEF Greeted, Connected, Listed, SessionAt
  <2>4. recv'.pc = "fetch" /\ recv'.field = recv.field
    BY <1>6 DEF BuildBoxMoved, TypeOK
  <2>. QED
    BY <1>0, <1>6, <2>3, <2>4, AccountKept DEF BuildBoxMoved
<1>7. CASE FetchPeer
  <2>1. \A b \in Addrs : Greeted(b)' => Greeted(b) /\ SessionAt(b)' = SessionAt(b)
    BY <1>7 DEF FetchPeer, Greeted, Connected, Listed, SessionAt
  <2>2. recv'.pc \in {"mark", "idle"} /\ recv'.field = "name"
    BY <1>0, <1>7 DEF FetchPeer, TypeOK, IdleRecv
  <2>. QED
    BY <1>7, <2>1, <2>2, AccountKept DEF FetchPeer
<1>8. CASE MarkConnected
  <2>1. /\ recv.pc = "mark" /\ recv.field = "name"
        /\ recv.addr \in Addrs /\ recv.key \in Keys /\ recv.dict \in Dicts
    BY <1>0, <1>8 DEF MarkConnected, TypeOK
  <2>2. CASE dict[recv.dict].connected
    <3>1. UNCHANGED <<profile, peers, dict, ui, told, greeted>> /\ recv' = IdleRecv
      BY <1>8, <2>2 DEF MarkConnected
    <3>. QED
      BY <2>1, <3>1, AccountKept DEF IdleRecv, Greeted, Connected, Listed, SessionAt
  <2>3. CASE ~dict[recv.dict].connected
    <3>1. /\ dict' = [dict EXCEPT ![recv.dict].connected = TRUE]
          /\ greeted' = [greeted EXCEPT ![recv.dict] = <<recv.addr, recv.key>>]
          /\ recv' = [recv EXCEPT !.pc = "greet", !.dict = None]
          /\ UNCHANGED <<profile, peers, ui, told>>
      BY <1>8, <2>3 DEF MarkConnected
    <3>2. /\ recv'.pc = "greet" /\ recv'.field = "name"
          /\ recv'.addr = recv.addr /\ recv'.key = recv.key
      BY <2>1, <3>1 DEF TypeOK
    <3>3. ASSUME NEW a \in Addrs, Greeted(a)', NEW f \in Fields
          PROVE  Settled(SessionAt(a), f)'
      <4>1. CASE peers[a] = recv.dict
        <5>1. greeted'[peers[a]] = <<recv.addr, recv.key>>
          BY <2>1, <3>1, <4>1 DEF TypeOK
        <5>2. SessionAt(a)' = <<recv.addr, recv.key>>
          BY <3>1, <3>3, <5>1 DEF Greeted, SessionAt
        <5>. QED
          BY <3>2, <5>2 DEF Settled, GreetingCovers
      <4>2. CASE peers[a] # recv.dict
        <5>1. peers[a] \in Dicts
          BY <3>1, <3>3 DEF TypeOK, Greeted, Connected, Listed
        <5>2. dict'[peers[a]] = dict[peers[a]] /\ greeted'[peers[a]] = greeted[peers[a]]
          BY <3>1, <4>2, <5>1 DEF TypeOK
        <5>3. Greeted(a) /\ SessionAt(a)' = SessionAt(a)
          BY <3>1, <3>3, <5>2 DEF Greeted, Connected, Listed, SessionAt
        <5>4. Settled(SessionAt(a), f)
          BY <5>3 DEF Account
        <5>. QED
          BY <2>1, <3>1, <5>3, <5>4 DEF Settled, GreetingCovers, BroadcastCovers
      <4>. QED
        BY <4>1, <4>2
    <3>. QED
      BY <3>2, <3>3 DEF Account
  <2>. QED
    BY <2>2, <2>3
<1>9. CASE ReadField
  <2>1. /\ recv.pc = "greet" /\ UNCHANGED <<profile, peers, dict, ui, told, greeted>>
    BY <1>9 DEF ReadField
  <2>2. CASE recv.field = "motd" /\ profile.motd = Empty
    <3>1. recv'.pc = "idle" /\ recv'.field = "name"
      BY <1>9, <2>2 DEF ReadField, IdleRecv
    <3>. QED
      BY <2>1, <2>2, <3>1
         DEF Account, Greeted, Connected, Listed, SessionAt, Settled, GreetingCovers,
             BroadcastCovers, Fields
  <2>3. CASE ~(recv.field = "motd" /\ profile.motd = Empty)
    <3>1. /\ recv'.pc = "send" /\ recv'.addr = recv.addr /\ recv'.key = recv.key
          /\ recv'.field = recv.field /\ recv'.value = profile[recv.field]
          /\ recv.field \in Fields
      BY <1>9, <2>3 DEF ReadField, TypeOK
    <3>. QED
      BY <2>1, <3>1
         DEF Account, Greeted, Connected, Listed, SessionAt, Settled, GreetingCovers,
             BroadcastCovers, Fields
  <2>. QED
    BY <2>2, <2>3
<1>10. CASE SendField
  <2>1. /\ recv.pc = "send" /\ UNCHANGED <<profile, peers, dict, ui, greeted>>
        /\ recv.field \in Fields
    BY <1>10 DEF SendField, TypeOK
  <2>2. /\ told \subseteq told'
        /\ recv.value = profile[recv.field]
              => <<<<recv.addr, recv.key>>, recv.field>> \in told'
    BY <1>10 DEF SendField, Tell
  <2>3. IF recv.field = "name"
        THEN /\ recv'.pc = "greet" /\ recv'.field = "motd"
             /\ recv'.addr = recv.addr /\ recv'.key = recv.key
        ELSE recv'.pc = "idle" /\ recv'.field = "name"
    BY <1>10 DEF SendField, IdleRecv, TypeOK
  <2>4. ASSUME NEW s, NEW f \in Fields, Settled(s, f)
        PROVE  Settled(s, f)'
    BY <2>1, <2>2, <2>3, <2>4 DEF Settled, GreetingCovers, BroadcastCovers, Fields
  <2>5. \A a \in Addrs : Greeted(a)' => Greeted(a) /\ SessionAt(a)' = SessionAt(a)
    BY <2>1 DEF Greeted, Connected, Listed, SessionAt
  <2>6. ASSUME NEW a \in Addrs, Greeted(a)', NEW f \in Fields
        PROVE  Settled(SessionAt(a), f)'
    BY <2>4, <2>5, <2>6 DEF Account
  <2>. QED
    BY <2>3, <2>6 DEF Account
<1>11. ASSUME NEW a \in Addrs, DropPeer(a)
       PROVE  Account'
  <2>1. \A b \in Addrs : Greeted(b)' => Greeted(b) /\ SessionAt(b)' = SessionAt(b)
    BY <1>11 DEF DropPeer, TypeOK, Greeted, Connected, Listed, SessionAt
  <2>. QED
    BY <1>0, <1>11, <2>1, AccountKept DEF DropPeer
<1>. QED
  BY <1>1, <1>2, <1>3, <1>4, <1>5, <1>6, <1>7, <1>8, <1>9, <1>10, <1>11 DEF RecvLoop

\* So does every step of the others.
LEMMA OtherAccount ==
    ASSUME TypeOK, Account, OtherLoops \/ User
    PROVE  Account'
<1>0. recv.pc \notin {"greet", "send"} => recv.field = "name"
  BY DEF Account
<1>1. ASSUME NEW a \in Addrs, NEW b \in Addrs, DiscTake(a, b)
      PROVE  Account'
  <2>1. \A c \in Addrs : Greeted(c)' => Greeted(c) /\ SessionAt(c)' = SessionAt(c)
    BY <1>1 DEF DiscTake, TypeOK, Greeted, Connected, Listed, SessionAt
  <2>. QED
    BY <1>0, <1>1, <2>1, AccountKept DEF DiscTake
<1>2. CASE DiscAddPeer
  <2>1. \A c \in Addrs : Greeted(c)' => Greeted(c) /\ SessionAt(c)' = SessionAt(c)
    <3>1. CASE AddPeer(disc.addr, disc.dict)
      <4>1. disc.addr \in Addrs /\ disc.dict \in Dicts /\ UNCHANGED greeted
        BY <1>2 DEF DiscAddPeer, IdleDisc, TypeOK
      <4>. QED
        BY <3>1, <4>1, AddPeerGreets
    <3>2. CASE UNCHANGED <<peers, dict>>
      BY <1>2, <3>2 DEF DiscAddPeer, Greeted, Connected, Listed, SessionAt
    <3>. QED
      BY <1>2, <3>1, <3>2 DEF DiscAddPeer
  <2>. QED
    BY <1>0, <1>2, <2>1, AccountKept DEF DiscAddPeer
<1>3. ASSUME NEW a \in Addrs, DiscAddNew(a)
      PROVE  Account'
  <2>1. PICK d \in Free : AddPeer(a, d)
    BY <1>3 DEF DiscAddNew
  <2>2. UNCHANGED greeted
    BY <1>3 DEF DiscAddNew
  <2>3. \A b \in Addrs : Greeted(b)' => Greeted(b) /\ SessionAt(b)' = SessionAt(b)
    BY <2>1, <2>2, AddPeerGreets DEF Free
  <2>. QED
    BY <1>0, <1>3, <2>3, AccountKept DEF DiscAddNew
<1>4. ASSUME NEW a \in Addrs, PunchTimeout(a)
      PROVE  Account'
  <2>1. \A b \in Addrs : Greeted(b)' => Greeted(b) /\ SessionAt(b)' = SessionAt(b)
    BY <1>4 DEF PunchTimeout, TypeOK, Greeted, Connected, Listed, SessionAt
  <2>. QED
    BY <1>0, <1>4, <2>1, AccountKept DEF PunchTimeout
<1>5. ASSUME NEW g \in Fields, NEW value \in Values, Change(g, value)
      PROVE  Account'
  <2>1. /\ profile'[g] = value
        /\ \A f \in Fields : f # g => profile'[f] = profile[f]
        /\ ui.pc = "idle" /\ ui'.pc = "list" /\ ui'.field = g /\ ui'.value = value
        /\ told' = {t \in told : t[2] # g \/ value = profile[g]}
        /\ UNCHANGED <<peers, dict, recv, greeted>>
    BY <1>5 DEF Change, TypeOK
  <2>2. ASSUME NEW s, NEW f \in Fields, Settled(s, f)
        PROVE  Settled(s, f)'
    <3>1. CASE f = g
      BY <2>1, <3>1 DEF Settled, BroadcastCovers
    <3>2. CASE f # g
      <4>1. <<s, f>> \in told => <<s, f>> \in told'
        BY <2>1, <3>2
      <4>. QED
        BY <2>1, <2>2, <3>2, <4>1 DEF Settled, GreetingCovers, BroadcastCovers
    <3>. QED
      BY <3>1, <3>2
  <2>3. \A a \in Addrs : Greeted(a)' => Greeted(a) /\ SessionAt(a)' = SessionAt(a)
    BY <2>1 DEF Greeted, Connected, Listed, SessionAt
  <2>4. ASSUME NEW a \in Addrs, Greeted(a)', NEW f \in Fields
        PROVE  Settled(SessionAt(a), f)'
    BY <2>2, <2>3, <2>4 DEF Account
  <2>. QED
    BY <1>0, <2>1, <2>4 DEF Account
<1>6. CASE ListTargets
  <2>1. /\ ui.pc = "list" /\ ui'.pc = "send" /\ ui'.to = Targets
        /\ ui'.field = ui.field /\ ui'.value = ui.value
        /\ UNCHANGED <<profile, peers, dict, recv, told, greeted>>
    BY <1>6 DEF ListTargets, TypeOK
  <2>2. ASSUME NEW a \in Addrs, Greeted(a)', NEW f \in Fields
        PROVE  Settled(SessionAt(a), f)'
    <3>1. Greeted(a) /\ SessionAt(a)' = SessionAt(a)
      BY <2>1, <2>2 DEF Greeted, Connected, Listed, SessionAt
    <3>2. SessionAt(a) \in Targets
      BY <3>1 DEF Greeted, Targets, SessionAt
    <3>3. Settled(SessionAt(a), f)
      BY <3>1 DEF Account
    <3>. QED
      BY <2>1, <3>1, <3>2, <3>3 DEF Settled, GreetingCovers, BroadcastCovers
  <2>. QED
    BY <1>0, <2>1, <2>2 DEF Account
<1>7. ASSUME NEW r \in Sessions, SendChange(r)
      PROVE  Account'
  <2>1. /\ ui.pc = "send" /\ ui'.pc = "send" /\ ui'.to = ui.to \ {r}
        /\ ui'.field = ui.field /\ ui'.value = ui.value
        /\ UNCHANGED <<profile, peers, dict, recv, greeted>>
    BY <1>7 DEF SendChange, TypeOK
  <2>2. /\ told \subseteq told'
        /\ ui.value = profile[ui.field] => <<r, ui.field>> \in told'
    BY <1>7 DEF SendChange, Tell
  <2>3. ASSUME NEW s, NEW f \in Fields, Settled(s, f)
        PROVE  Settled(s, f)'
    BY <2>1, <2>2, <2>3 DEF Settled, GreetingCovers, BroadcastCovers
  <2>4. \A a \in Addrs : Greeted(a)' => Greeted(a) /\ SessionAt(a)' = SessionAt(a)
    BY <2>1 DEF Greeted, Connected, Listed, SessionAt
  <2>5. ASSUME NEW a \in Addrs, Greeted(a)', NEW f \in Fields
        PROVE  Settled(SessionAt(a), f)'
    BY <2>3, <2>4, <2>5 DEF Account
  <2>. QED
    BY <1>0, <2>1, <2>5 DEF Account
<1>8. CASE Sent
  <2>1. /\ ui.pc = "send" /\ ui.to = {}
        /\ UNCHANGED <<profile, peers, dict, recv, told, greeted>>
    BY <1>8 DEF Sent
  <2>2. ASSUME NEW s, NEW f \in Fields, Settled(s, f)
        PROVE  Settled(s, f)'
    BY <2>1, <2>2 DEF Settled, GreetingCovers, BroadcastCovers
  <2>3. \A a \in Addrs : Greeted(a)' => Greeted(a) /\ SessionAt(a)' = SessionAt(a)
    BY <2>1 DEF Greeted, Connected, Listed, SessionAt
  <2>4. ASSUME NEW a \in Addrs, Greeted(a)', NEW f \in Fields
        PROVE  Settled(SessionAt(a), f)'
    BY <2>2, <2>3, <2>4 DEF Account
  <2>. QED
    BY <1>0, <2>1, <2>4 DEF Account
<1>9. ASSUME NEW a \in Addrs, RemovePeer(a)
      PROVE  Account'
  <2>1. \A b \in Addrs : Greeted(b)' => Greeted(b) /\ SessionAt(b)' = SessionAt(b)
    BY <1>9 DEF RemovePeer, TypeOK, Greeted, Connected, Listed, SessionAt
  <2>. QED
    BY <1>0, <1>9, <2>1, AccountKept DEF RemovePeer
<1>. QED
  BY <1>1, <1>2, <1>3, <1>4, <1>5, <1>6, <1>7, <1>8, <1>9 DEF OtherLoops, User

\* Every step keeps the account.
LEMMA StepAccount == TypeOK /\ Account /\ [Next]_vars => Account'
<1>1. Account /\ UNCHANGED vars => Account'
  BY DEF vars, Account, Greeted, Connected, Listed, SessionAt, Settled, GreetingCovers,
         BroadcastCovers
<1>. QED
  BY <1>1, RecvAccount, OtherAccount DEF Next

\* When neither thread is busy, nothing is owed: every peer greeted at its
\* address was sent the current username and message of the day (lines 513 to
\* 530 against /nick and /motd), wherever the dicts were moved meanwhile.
THEOREM ProfileHolds == Spec => []ProfileSent
<1>1. Init => Account
  BY DEF Init, Account, Greeted, Connected, Listed, IdleRecv
<1>2. TypeOK /\ Account => ProfileSent
  BY DEF Account, ProfileSent, Quiet, SessionAt, Settled, GreetingCovers, BroadcastCovers
<1>. QED
  BY <1>1, <1>2, InitType, StepType, StepAccount, PTL DEF Spec

=============================================================================
