---------------------------- MODULE RoomProofs -----------------------------
(***************************************************************************)
(* Proofs about Room, for every number of guests and sessions, every set   *)
(* of codes and every size of the room.  Two layers.  RoomInv says who can *)
(* know whom and with which key; with it the types hold.  CodeInv says     *)
(* what a guest's code must be once a handshake between it and the host    *)
(* has begun.  The lemmas about a table entry, a punch thread and a packet *)
(* that change in a step are shared by the two.                            *)
(***************************************************************************)
EXTENDS Room, TLAPS

-----------------------------------------------------------------------------
(* Who knows whom.                                                         *)

\* The host and a guest: nobody but the host sends beacons, so guests never
\* learn of each other.
Ends(n, m) == (n = Host /\ m \in Guests) \/ (n \in Guests /\ m = Host)

EndTypes == {"KICK", "BAN", "ROOM_CLOSED"}

\* An entry e of m in the table of n: its key is of a session m has had.
GoodEntry(n, m, e) ==
    /\ e \in Entry
    /\ e.key # 0 \/ e.connected => e.listed
    /\ e.listed => Ends(n, m)
    /\ e.key <= sess[m]

\* A packet: guests only greet and say goodbye, and a key is of a session the
\* sender has had.
GoodPacket(p) ==
    /\ p \in Handshakes \cup Controls \cup Rejections
    /\ Ends(p.from, p.to)
    /\ p.type \in EndTypes \cup {"PUNCH_BAN"} => p.from = Host
    /\ p.type = "DISCONNECT" => p.to = Host
    /\ p.type # "PUNCH_BAN" => p.key <= sess[p.from]

Places == {"menu", "in", "closed"}

LobbyInv ==
    /\ place \in [Nodes -> Places]
    /\ sess \in [Nodes -> 0..MaxSessions] /\ sess[Host] = 1
    /\ \A n \in Nodes : In(n) => sess[n] # 0
    /\ code \in [Nodes -> Codes]
    /\ offered \in [Guests -> SUBSET Codes] /\ clean \subseteq Guests
    /\ inbox \in [Guests -> SUBSET Codes] /\ banned \subseteq Guests

Tables == [Nodes -> [Nodes -> Entry]]
Threads == [Nodes -> SUBSET Nodes]
Handlers == [Nodes -> Nodes \cup {None}]

TablesInv ==
    /\ peers \in Tables
    /\ \A n, m \in Nodes : GoodEntry(n, m, peers[n][m])

ThreadsInv ==
    /\ punching \in Threads /\ handling \in Handlers
    /\ \A n, m \in Nodes : m \in punching[n] \/ handling[n] = m => Ends(n, m)

PacketsInv == \A p \in net : GoodPacket(p)

\* Who is in no session has no table and no thread.
IdleInv ==
    \A n, m \in Nodes :
        ~In(n) => m \notin punching[n] /\ handling[n] # m /\ ~peers[n][m].listed

RoomInv == LobbyInv /\ TablesInv /\ ThreadsInv /\ PacketsInv /\ IdleInv

\* The types follow.
LEMMA RoomType == RoomInv => TypeOK
<1>. SUFFICES ASSUME RoomInv PROVE TypeOK
  OBVIOUS
<1>1. \A n, m \in Nodes :
        peers[n][m].key # 0 \/ peers[n][m].connected => peers[n][m].listed
  BY DEF RoomInv, TablesInv, GoodEntry
<1>2. net \subseteq Handshakes \cup Controls \cup Rejections
  BY DEF RoomInv, PacketsInv, GoodPacket
<1>3. \A n \in Nodes : place[n] = "in" => sess[n] # 0
  BY DEF RoomInv, LobbyInv, In
<1>. QED
  BY <1>1, <1>2, <1>3 DEF RoomInv, LobbyInv, TablesInv, ThreadsInv, TypeOK, Tables,
       Threads, Handlers, Places

\* The host is no guest, and nobody is None.
LEMMA HostGuests ==
    Host \in Nodes /\ Host \notin Guests /\ Guests \subseteq Nodes /\ None \notin Nodes
BY RoomAssumption DEF Nodes

-----------------------------------------------------------------------------
(* What a step changes.                                                    *)

\* No entry but that of m in the table of n changes.
OnlyEntry(n, m) ==
    /\ peers' \in Tables
    /\ \A a, b \in Nodes : a # n \/ b # m => peers'[a][b] = peers[a][b]

LEMMA SetEntry ==
    ASSUME peers \in Tables, NEW n \in Nodes, NEW m \in Nodes, NEW e \in Entry,
           peers' = [peers EXCEPT ![n][m] = e]
    PROVE  OnlyEntry(n, m) /\ peers'[n][m] = e
BY DEF OnlyEntry, Tables

\* A punch thread starts ...
LEMMA StartThread ==
    ASSUME punching \in Threads, NEW n \in Nodes, NEW m \in Nodes,
           punching' = [punching EXCEPT ![n] = @ \cup {m}]
    PROVE  /\ punching' \in Threads
           /\ \A a, b \in Nodes :
                b \in punching'[a] <=> b \in punching[a] \/ (a = n /\ b = m)
BY DEF Threads

\* ... or ends.
LEMMA StopThread ==
    ASSUME punching \in Threads, NEW n \in Nodes, NEW m \in Nodes,
           punching' = [punching EXCEPT ![n] = @ \ {m}]
    PROVE  /\ punching' \in Threads
           /\ \A a, b \in Nodes :
                b \in punching'[a] <=> b \in punching[a] /\ ~(a = n /\ b = m)
BY DEF Threads

\* The entries a handler writes.
LEMMA EntryType ==
    /\ Absent \in Entry /\ Fresh \in Entry
    /\ Absent.listed = FALSE /\ Absent.key = 0 /\ Absent.connected = FALSE
    /\ Fresh.listed = TRUE /\ Fresh.key = 0 /\ Fresh.connected = FALSE
<1>1. 0 \in 0..MaxSessions
  BY RoomAssumption
<1>2. Absent \in Entry
  BY <1>1 DEF Absent, Entry
<1>3. Absent.listed = FALSE /\ Absent.key = 0 /\ Absent.connected = FALSE
  BY DEF Absent
<1>4. Fresh \in Entry /\ Fresh.listed = TRUE
  BY <1>2 DEF Fresh, Entry
<1>5. Fresh.key = Absent.key /\ Fresh.connected = Absent.connected
  BY <1>2 DEF Fresh, Entry
<1>. QED
  BY <1>2, <1>3, <1>4, <1>5

\* The receive thread begins with a handshake, or is done with it.
LEMMA SetHandling ==
    ASSUME handling \in Handlers, NEW n \in Nodes, NEW x \in Nodes \cup {None},
           handling' = [handling EXCEPT ![n] = x]
    PROVE  /\ handling' \in Handlers
           /\ \A a, b \in Nodes :
                handling'[a] = b => handling[a] = b \/ (a = n /\ b = x)
BY DEF Handlers

\* A session ends with its table and its threads.
LEMMA EndEffect ==
    ASSUME RoomInv, NEW n \in Nodes, NEW where \in {"menu", "closed"},
           EndSession(n, where)
    PROVE  /\ UNCHANGED <<sess, code, offered, clean, banned, inbox>>
           /\ place' \in [Nodes -> Places] /\ ~In(n)'
           /\ \A a \in Nodes \ {n} : place'[a] = place[a]
           /\ peers' \in Tables /\ punching' \in Threads /\ handling' \in Handlers
           /\ \A b \in Nodes :
                peers'[n][b] = Absent /\ b \notin punching'[n] /\ handling'[n] # b
           /\ \A a, b \in Nodes : a # n =>
                /\ peers'[a][b] = peers[a][b]
                /\ b \in punching'[a] <=> b \in punching[a]
                /\ handling'[a] = handling[a]
<1>1. /\ UNCHANGED <<sess, code, offered, clean, banned, inbox>>
      /\ place' = [place EXCEPT ![n] = where]
      /\ peers' = [peers EXCEPT ![n] = [m \in Nodes |-> Absent]]
      /\ punching' = [punching EXCEPT ![n] = {}]
      /\ handling' = [handling EXCEPT ![n] = None]
  BY DEF EndSession
<1>2. /\ place \in [Nodes -> Places] /\ peers \in Tables
      /\ punching \in Threads /\ handling \in Handlers
  BY DEF RoomInv, LobbyInv, TablesInv, ThreadsInv
<1>3. peers' \in Tables /\ \A b \in Nodes : peers'[n][b] = Absent
  BY <1>1, <1>2, EntryType DEF Tables
<1>4. \A a, b \in Nodes : a # n => peers'[a][b] = peers[a][b]
  BY <1>1, <1>2 DEF Tables
<1>5. /\ punching' \in Threads
      /\ \A b \in Nodes : b \notin punching'[n]
      /\ \A a \in Nodes : a # n => punching'[a] = punching[a]
  BY <1>1, <1>2 DEF Threads
<1>6. /\ place' \in [Nodes -> Places] /\ place'[n] # "in"
      /\ \A a \in Nodes \ {n} : place'[a] = place[a]
  BY <1>1, <1>2 DEF Places
<1>7. /\ handling' \in Handlers
      /\ \A b \in Nodes : handling'[n] # b
      /\ \A a \in Nodes : a # n => handling'[a] = handling[a]
  BY <1>1, <1>2, HostGuests DEF Handlers
<1>. QED
  BY <1>1, <1>3, <1>4, <1>5, <1>6, <1>7 DEF In

\* What a packet of each type is.
LEMMA PacketType ==
    ASSUME RoomInv, NEW p \in net
    PROVE  /\ p.from \in Nodes /\ p.to \in Nodes /\ Ends(p.from, p.to) /\ Ends(p.to, p.from)
           /\ p.type \in {"PUNCH", "PUNCH_ACK"} =>
                p.key \in 1..MaxSessions /\ p.key <= sess[p.from]
           /\ p.type \in EndTypes \cup {"PUNCH_BAN"} => p.from = Host
           /\ p.type = "DISCONNECT" => p.to = Host /\ p.key <= sess[p.from]
<1>1. GoodPacket(p)
  BY DEF RoomInv, PacketsInv
<1>2. CASE p \in Handshakes
  BY <1>1, <1>2 DEF Handshakes, GoodPacket, Ends
<1>3. CASE p \in Controls
  BY <1>1, <1>3 DEF Controls, GoodPacket, Ends, EndTypes
<1>4. CASE p \in Rejections
  BY <1>1, <1>4 DEF Rejections, GoodPacket, Ends
<1>. QED
  BY <1>1, <1>2, <1>3, <1>4 DEF GoodPacket

\* What a node in a session sends in a handshake.
LEMMA HelloGood ==
    ASSUME RoomInv, NEW n \in Nodes, NEW m \in Nodes, In(n), Ends(n, m),
           NEW type \in {"PUNCH", "PUNCH_ACK"}
    PROVE  /\ GoodPacket(Hello(n, m, type))
           /\ Hello(n, m, type).type = type
           /\ Hello(n, m, type).from = n /\ Hello(n, m, type).to = m
<1>1. sess[n] \in 1..MaxSessions /\ sess[n] <= sess[n]
  BY RoomAssumption DEF RoomInv, LobbyInv
<1>. QED
  BY <1>1 DEF Hello, GoodPacket, Handshakes, EndTypes

\* What it sends to those it has a box for.
LEMMA ControlGood ==
    ASSUME RoomInv, NEW n \in Nodes, NEW m \in Nodes, peers[n][m].key # 0,
           NEW type \in {"DISCONNECT", "ROOM_CLOSED", "KICK", "BAN"},
           type = "DISCONNECT" <=> n # Host
    PROVE  /\ GoodPacket(Control(n, m, type))
           /\ Control(n, m, type).type = type
           /\ Control(n, m, type).from = n /\ Control(n, m, type).to = m
           /\ Control(n, m, type).for = peers[n][m].key
<1>1. GoodEntry(n, m, peers[n][m])
  BY DEF RoomInv, TablesInv
<1>2. In(n) /\ Ends(n, m) /\ peers[n][m].key \in 1..MaxSessions
  BY <1>1 DEF RoomInv, IdleInv, GoodEntry, Entry
<1>3. sess[n] \in 1..MaxSessions /\ sess[n] <= sess[n]
  BY <1>2, RoomAssumption DEF RoomInv, LobbyInv
<1>4. type = "DISCONNECT" => m = Host
  BY <1>2 DEF Ends
<1>. QED
  BY <1>2, <1>3, <1>4 DEF Control, GoodPacket, Controls, EndTypes

\* What a step must show to keep RoomInv.
LEMMA KeepRoom ==
    ASSUME RoomInv, LobbyInv', IdleInv', peers' \in Tables, punching' \in Threads,
           handling' \in Handlers,
           \A n \in Nodes : sess[n] <= sess'[n],
           \A n, m \in Nodes :
                peers'[n][m] = peers[n][m] \/ GoodEntry(n, m, peers'[n][m]),
           \A n, m \in Nodes : m \in punching'[n] => m \in punching[n] \/ Ends(n, m),
           \A n, m \in Nodes : handling'[n] = m => handling[n] = m \/ Ends(n, m),
           \A p \in net' : p \in net \/ GoodPacket(p)
    PROVE  RoomInv'
<1>1. \A n \in Nodes : sess[n] \in Nat /\ sess'[n] \in Nat
  BY RoomAssumption DEF RoomInv, LobbyInv
<1>2. ASSUME NEW n \in Nodes, NEW m \in Nodes
      PROVE  GoodEntry(n, m, peers[n][m])'
  <2>1. GoodEntry(n, m, peers'[n][m])
    BY DEF RoomInv, TablesInv
  <2>2. peers'[n][m].key \in Nat /\ peers'[n][m].key <= sess[m] /\ sess[m] <= sess'[m]
    BY <2>1, RoomAssumption DEF GoodEntry, Entry
  <2>3. peers'[n][m].key <= sess'[m]
    BY <1>1, <2>2
  <2>. QED
    BY <2>1, <2>3 DEF GoodEntry, Ends
<1>3. ASSUME NEW p \in net'
      PROVE  GoodPacket(p)'
  <2>1. GoodPacket(p)
    BY DEF RoomInv, PacketsInv
  <2>2. p.type # "PUNCH_BAN" => p.key <= sess'[p.from]
    <3>1. CASE p.type = "PUNCH_BAN"
      BY <3>1
    <3>2. CASE p.type # "PUNCH_BAN"
      <4>1. p.from \in Nodes /\ p.key \in Nat
        BY <2>1, <3>2, RoomAssumption DEF GoodPacket, Handshakes, Controls, Rejections
      <4>2. p.key <= sess[p.from] /\ sess[p.from] <= sess'[p.from]
        BY <2>1, <3>2, <4>1 DEF GoodPacket
      <4>. QED
        BY <1>1, <4>1, <4>2
    <3>. QED
      BY <3>1, <3>2
  <2>. QED
    BY <2>1, <2>2 DEF GoodPacket, Ends
<1>4. ThreadsInv'
  BY DEF RoomInv, ThreadsInv, Ends
<1>. QED
  BY <1>2, <1>3, <1>4 DEF RoomInv, TablesInv, PacketsInv

\* The same for a step that leaves the sessions alone and sends nothing new but
\* good packets ...
LEMMA KeepRoomInSession ==
    ASSUME RoomInv, NEW n \in Nodes, NEW m \in Nodes, In(n), Ends(n, m),
           LobbyInv', place' = place, sess' = sess,
           OnlyEntry(n, m), GoodEntry(n, m, peers'[n][m]),
           punching' \in Threads, handling' \in Handlers,
           \A a, b \in Nodes : b \in punching'[a] => b \in punching[a] \/ (a = n /\ b = m),
           \A a, b \in Nodes : handling'[a] = b => handling[a] = b \/ (a = n /\ b = m),
           \A p \in net' : p \in net \/ GoodPacket(p)
    PROVE  RoomInv'
<1>1. \A a \in Nodes : sess[a] <= sess'[a]
  BY RoomAssumption DEF RoomInv, LobbyInv
<1>2. IdleInv'
  BY DEF RoomInv, IdleInv, OnlyEntry, In
<1>. QED
  BY <1>1, <1>2, KeepRoom DEF OnlyEntry

\* ... for one that only sends ...
LEMMA KeepRoomSending ==
    ASSUME RoomInv, UNCHANGED <<lobby, inbox, peers, punching, handling>>,
           \A p \in net' : p \in net \/ GoodPacket(p)
    PROVE  RoomInv'
<1>1. /\ place' = place /\ sess' = sess /\ code' = code /\ offered' = offered
      /\ clean' = clean /\ banned' = banned /\ inbox' = inbox /\ peers' = peers
      /\ punching' = punching /\ handling' = handling
  BY DEF lobby
<1>2. LobbyInv' /\ IdleInv'
  BY <1>1 DEF RoomInv, LobbyInv, IdleInv, In
<1>3. \A a \in Nodes : sess[a] <= sess'[a]
  BY <1>1, RoomAssumption DEF RoomInv, LobbyInv
<1>. QED
  BY <1>1, <1>2, <1>3, KeepRoom DEF RoomInv, TablesInv, ThreadsInv

\* ... and for one that ends a session.
LEMMA KeepRoomEnding ==
    ASSUME RoomInv, NEW n \in Nodes, NEW where \in {"menu", "closed"},
           EndSession(n, where), \A p \in net' : p \in net \/ GoodPacket(p)
    PROVE  RoomInv'
<1>1. /\ UNCHANGED <<sess, code, offered, clean, banned, inbox>>
      /\ place' \in [Nodes -> Places] /\ ~In(n)'
      /\ \A a \in Nodes \ {n} : place'[a] = place[a]
      /\ peers' \in Tables /\ punching' \in Threads /\ handling' \in Handlers
      /\ \A b \in Nodes :
           peers'[n][b] = Absent /\ b \notin punching'[n] /\ handling'[n] # b
      /\ \A a, b \in Nodes : a # n =>
           /\ peers'[a][b] = peers[a][b]
           /\ b \in punching'[a] <=> b \in punching[a]
           /\ handling'[a] = handling[a]
  BY EndEffect
<1>2. LobbyInv'
  BY <1>1 DEF RoomInv, LobbyInv, In
<1>3. IdleInv'
  BY <1>1, EntryType DEF RoomInv, IdleInv, In
<1>4. ASSUME NEW a \in Nodes, NEW b \in Nodes
      PROVE  peers'[a][b] = peers[a][b] \/ GoodEntry(a, b, peers'[a][b])
  <2>1. GoodEntry(n, b, Absent)
    BY EntryType, RoomAssumption DEF GoodEntry, RoomInv, LobbyInv
  <2>. QED
    BY <1>1, <2>1
<1>5. \A a, b \in Nodes :
        /\ b \in punching'[a] => b \in punching[a]
        /\ handling'[a] = b => handling[a] = b
  BY <1>1
<1>6. \A a \in Nodes : sess[a] <= sess'[a]
  BY <1>1, RoomAssumption DEF RoomInv, LobbyInv
<1>. QED
  BY <1>1, <1>2, <1>3, <1>4, <1>5, <1>6, KeepRoom

-----------------------------------------------------------------------------
(* The handlers, by what they do to one entry.                             *)

\* HearBeacon adds the host and starts to punch it, or changes neither.
LEMMA HearEffect ==
    ASSUME RoomInv, NEW g \in Guests, NEW c \in Codes, HearBeacon(g, c)
    PROVE  /\ UNCHANGED <<lobby, handling, net>>
           /\ inbox' \in [Guests -> SUBSET Codes]
           /\ \A k \in Guests : inbox'[k] \subseteq inbox[k]
           /\ In(g) /\ c \in inbox[g]
           /\ \/ peers' = peers /\ punching' = punching
              \/ /\ c = code[g] /\ OnlyEntry(g, Host) /\ peers'[g][Host] = Fresh
                 /\ punching' \in Threads
                 /\ \A a, b \in Nodes : b \in punching'[a] <=>
                        b \in punching[a] \/ (a = g /\ b = Host)
<1>1. UNCHANGED <<lobby, handling, net>> /\ In(g) /\ c \in inbox[g]
  BY DEF HearBeacon
<1>2. /\ inbox' \in [Guests -> SUBSET Codes]
      /\ \A k \in Guests : inbox'[k] \subseteq inbox[k]
  <2>1. inbox \in [Guests -> SUBSET Codes] /\ inbox' = [inbox EXCEPT ![g] = @ \ {c}]
    BY DEF HearBeacon, RoomInv, LobbyInv
  <2>2. inbox[g] \ {c} \in SUBSET Codes
    BY <2>1
  <2>. QED
    BY <2>1, <2>2
<1>3. peers \in Tables /\ punching \in Threads
  BY DEF RoomInv, TablesInv, ThreadsInv
<1>4. CASE peers' = peers /\ punching' = punching
  BY <1>1, <1>2, <1>4
<1>5. CASE ~(peers' = peers /\ punching' = punching)
  <2>1. /\ c = code[g]
        /\ peers' = [peers EXCEPT ![g][Host] = Fresh]
        /\ punching' = [punching EXCEPT ![g] = @ \cup {Host}]
    BY <1>5 DEF HearBeacon, Authentic
  <2>2. OnlyEntry(g, Host) /\ peers'[g][Host] = Fresh
    BY <1>3, <2>1, HostGuests, EntryType, SetEntry
  <2>3. /\ punching' \in Threads
        /\ \A a, b \in Nodes : b \in punching'[a] <=>
              b \in punching[a] \/ (a = g /\ b = Host)
    BY <1>3, <2>1, HostGuests, StartThread
  <2>. QED
    BY <1>1, <1>2, <2>1, <2>2, <2>3
<1>. QED
  BY <1>4, <1>5

\* PunchEnds ends a thread and may free the slot.
LEMMA PunchEndsEffect ==
    ASSUME RoomInv, NEW n \in Nodes, NEW m \in Nodes, PunchEnds(n, m)
    PROVE  /\ UNCHANGED <<lobby, inbox, handling, net>>
           /\ m \in punching[n] /\ In(n) /\ Ends(n, m)
           /\ punching' \in Threads
           /\ \A a, b \in Nodes : b \in punching'[a] => b \in punching[a]
           /\ OnlyEntry(n, m)
           /\ \/ peers'[n][m] = peers[n][m]
              \/ peers'[n][m] = Absent /\ ~peers[n][m].connected
<1>1. peers \in Tables /\ punching \in Threads
  BY DEF RoomInv, TablesInv, ThreadsInv
<1>2. /\ UNCHANGED <<lobby, inbox, handling, net>>
      /\ m \in punching[n] /\ punching' = [punching EXCEPT ![n] = @ \ {m}]
  BY DEF PunchEnds
<1>3. In(n) /\ Ends(n, m)
  BY <1>2 DEF RoomInv, IdleInv, ThreadsInv
<1>4. /\ punching' \in Threads
      /\ \A a, b \in Nodes : b \in punching'[a] => b \in punching[a]
  BY <1>1, <1>2, StopThread
<1>5. CASE peers[n][m].connected
  <2>1. peers' = peers
    BY <1>5 DEF PunchEnds
  <2>. QED
    BY <1>1, <1>2, <1>3, <1>4, <2>1 DEF OnlyEntry
<1>6. CASE ~peers[n][m].connected
  <2>1. peers' = [peers EXCEPT ![n][m] = Absent]
    BY <1>6 DEF PunchEnds
  <2>2. OnlyEntry(n, m) /\ peers'[n][m] = Absent
    BY <1>1, <2>1, EntryType, SetEntry
  <2>. QED
    BY <1>2, <1>3, <1>4, <1>6, <2>2
<1>. QED
  BY <1>5, <1>6

\* HearPunch gives the sender an entry with its key and answers; it starts to
\* punch a sender that is new.
LEMMA PunchEffect ==
    ASSUME RoomInv, NEW p \in net, HearPunch(p)
    PROVE  /\ UNCHANGED <<lobby, inbox>>
           /\ p.type = "PUNCH" /\ In(p.to)
           /\ OnlyEntry(p.to, p.from)
           /\ GoodEntry(p.to, p.from, peers'[p.to][p.from])
           /\ punching' \in Threads /\ handling' \in Handlers
           /\ \A a, b \in Nodes : b \in punching'[a] =>
                b \in punching[a] \/ (a = p.to /\ b = p.from)
           /\ \A a, b \in Nodes : handling'[a] = b =>
                handling[a] = b \/ (a = p.to /\ b = p.from)
           /\ net' = net \cup {Hello(p.to, p.from, "PUNCH_ACK")}
<1>. DEFINE old == peers[p.to][p.from]
            new == [old EXCEPT !.listed = TRUE, !.key = p.key]
<1>1. peers \in Tables /\ punching \in Threads /\ handling \in Handlers
  BY DEF RoomInv, TablesInv, ThreadsInv
<1>2. /\ UNCHANGED <<lobby, inbox>> /\ p.type = "PUNCH" /\ In(p.to)
      /\ net' = net \cup {Hello(p.to, p.from, "PUNCH_ACK")}
      /\ handling' = [handling EXCEPT ![p.to] = p.from]
      /\ \/ punching' = punching
         \/ punching' = [punching EXCEPT ![p.to] = @ \cup {p.from}]
  BY DEF HearPunch, Listening
<1>3. /\ p.from \in Nodes /\ p.to \in Nodes /\ Ends(p.to, p.from)
      /\ p.key \in 1..MaxSessions /\ p.key <= sess[p.from]
  BY <1>2, PacketType
<1>4. peers' = [peers EXCEPT ![p.to][p.from] = new]
  BY <1>1, <1>3 DEF HearPunch, Tables
<1>5. old \in Entry
  BY <1>1, <1>3 DEF Tables
<1>6. new \in Entry /\ new.key = p.key /\ new.listed
  <2>1. p.key \in 0..MaxSessions
    BY <1>3, RoomAssumption
  <2>. HIDE DEF old
  <2>. QED
    BY <1>5, <2>1 DEF Entry
<1>. HIDE DEF new
<1>7. OnlyEntry(p.to, p.from) /\ peers'[p.to][p.from] = new
  BY <1>1, <1>3, <1>4, <1>6, SetEntry
<1>8. GoodEntry(p.to, p.from, new)
  BY <1>3, <1>6 DEF GoodEntry
<1>9. /\ punching' \in Threads
      /\ \A a, b \in Nodes : b \in punching'[a] =>
           b \in punching[a] \/ (a = p.to /\ b = p.from)
  BY <1>1, <1>2, <1>3, StartThread
<1>10. /\ handling' \in Handlers
       /\ \A a, b \in Nodes : handling'[a] = b =>
            handling[a] = b \/ (a = p.to /\ b = p.from)
  <2>1. p.from \in Nodes \cup {None}
    BY <1>3
  <2>. QED
    BY <1>1, <1>2, <1>3, <2>1, SetHandling
<1>. QED
  BY <1>2, <1>7, <1>8, <1>9, <1>10

\* HearAck gives a listed entry the key of the sender.
LEMMA AckEffect ==
    ASSUME RoomInv, NEW p \in net, HearAck(p)
    PROVE  /\ UNCHANGED <<lobby, inbox, punching, net>>
           /\ p.type = "PUNCH_ACK" /\ In(p.to)
           /\ OnlyEntry(p.to, p.from)
           /\ GoodEntry(p.to, p.from, peers'[p.to][p.from])
           /\ handling' \in Handlers
           /\ \A a, b \in Nodes : handling'[a] = b =>
                handling[a] = b \/ (a = p.to /\ b = p.from)
<1>. DEFINE old == peers[p.to][p.from]
            new == [old EXCEPT !.key = p.key]
<1>1. peers \in Tables /\ handling \in Handlers
  BY DEF RoomInv, TablesInv, ThreadsInv
<1>2. /\ UNCHANGED <<lobby, inbox, punching, net>>
      /\ p.type = "PUNCH_ACK" /\ In(p.to) /\ old.listed
      /\ handling' = [handling EXCEPT ![p.to] = p.from]
  BY DEF HearAck, Listening
<1>3. /\ p.from \in Nodes /\ p.to \in Nodes /\ Ends(p.to, p.from)
      /\ p.key \in 1..MaxSessions /\ p.key <= sess[p.from]
  BY <1>2, PacketType
<1>4. peers' = [peers EXCEPT ![p.to][p.from] = new]
  BY <1>1, <1>3 DEF HearAck, Tables
<1>5. old \in Entry
  BY <1>1, <1>3 DEF Tables
<1>6. new \in Entry /\ new.key = p.key /\ new.listed
  <2>1. p.key \in 0..MaxSessions
    BY <1>3, RoomAssumption
  <2>2. old.listed
    BY <1>2
  <2>. HIDE DEF old
  <2>. QED
    BY <1>5, <2>1, <2>2 DEF Entry
<1>. HIDE DEF new
<1>7. OnlyEntry(p.to, p.from) /\ peers'[p.to][p.from] = new
  BY <1>1, <1>3, <1>4, <1>6, SetEntry
<1>8. GoodEntry(p.to, p.from, new)
  BY <1>3, <1>6 DEF GoodEntry
<1>9. /\ handling' \in Handlers
      /\ \A a, b \in Nodes : handling'[a] = b =>
           handling[a] = b \/ (a = p.to /\ b = p.from)
  BY <1>1, <1>2, <1>3, SetHandling
<1>. QED
  BY <1>2, <1>7, <1>8, <1>9

\* MarkConnected ends a handler and connects the entry, if it is still there.
LEMMA MarkEffect ==
    ASSUME RoomInv, NEW n \in Nodes, MarkConnected(n)
    PROVE  /\ UNCHANGED <<lobby, inbox, punching, net>>
           /\ handling[n] \in Nodes /\ In(n) /\ Ends(n, handling[n])
           /\ OnlyEntry(n, handling[n])
           /\ GoodEntry(n, handling[n], peers'[n][handling[n]])
           /\ peers'[n][handling[n]].listed = peers[n][handling[n]].listed
           /\ handling' \in Handlers
           /\ \A a, b \in Nodes : handling'[a] = b => handling[a] = b
<1>. DEFINE m == handling[n]
            old == peers[n][m]
            new == [old EXCEPT !.connected = TRUE]
<1>1. peers \in Tables /\ handling \in Handlers
  BY DEF RoomInv, TablesInv, ThreadsInv
<1>2. /\ UNCHANGED <<lobby, inbox, punching, net>> /\ m # None
      /\ handling' = [handling EXCEPT ![n] = None]
      /\ peers' = IF old.listed THEN [peers EXCEPT ![n][m].connected = TRUE] ELSE peers
  BY DEF MarkConnected
<1>3. m \in Nodes /\ In(n) /\ Ends(n, m)
  <2>1. m \in Nodes
    BY <1>1, <1>2 DEF Handlers
  <2>. QED
    BY <2>1 DEF RoomInv, ThreadsInv, IdleInv
<1>4. /\ handling' \in Handlers
      /\ \A a, b \in Nodes : handling'[a] = b => handling[a] = b
  <2>1. None \in Nodes \cup {None} /\ \A b \in Nodes : b # None
    BY HostGuests
  <2>. QED
    BY <1>1, <1>2, <2>1, SetHandling
<1>5. GoodEntry(n, m, old)
  BY <1>3 DEF RoomInv, TablesInv
<1>6. CASE ~old.listed
  <2>1. peers' = peers
    BY <1>2, <1>6
  <2>2. OnlyEntry(n, m)
    BY <1>1, <2>1 DEF OnlyEntry
  <2>. QED
    BY <1>2, <1>3, <1>4, <1>5, <2>1, <2>2
<1>7. CASE old.listed
  <2>1. new \in Entry /\ new.key = old.key /\ new.listed = old.listed
    <3>1. old \in Entry
      BY <1>5 DEF GoodEntry
    <3>. HIDE DEF old
    <3>. QED
      BY <3>1 DEF Entry
  <2>2. peers' = [peers EXCEPT ![n][m] = new]
    BY <1>1, <1>2, <1>3, <1>7 DEF Tables
  <2>3. GoodEntry(n, m, new)
    <3>. HIDE DEF new, old
    <3>. QED
      BY <1>5, <1>7, <2>1 DEF GoodEntry
  <2>. HIDE DEF new
  <2>4. OnlyEntry(n, m) /\ peers'[n][m] = new
    BY <1>1, <1>3, <2>1, <2>2, SetEntry
  <2>. QED
    BY <1>2, <1>3, <1>4, <2>1, <2>3, <2>4
<1>. QED
  BY <1>6, <1>7

\* _kick_peer and _ban_peer drop the entry of a connected guest, and tell it if
\* it has a box.
LEMMA DropEffect ==
    ASSUME RoomInv, NEW g \in Guests, Kick(g) \/ Ban(g)
    PROVE  /\ UNCHANGED <<place, sess, code, offered, clean, inbox, punching, handling>>
           /\ banned' \subseteq Guests
           /\ peers[Host][g].connected /\ In(Host)
           /\ OnlyEntry(Host, g) /\ peers'[Host][g] = Absent
           /\ \A q \in net' : q \in net \/ \E type \in {"KICK", "BAN"} :
                q = Control(Host, g, type) /\ peers[Host][g].key # 0
<1>1. peers \in Tables /\ banned \subseteq Guests
  BY DEF RoomInv, TablesInv, LobbyInv
<1>2. /\ UNCHANGED <<place, sess, code, offered, clean, inbox, punching, handling>>
      /\ banned' \subseteq Guests
      /\ g \in Connected(Host)
      /\ Drop(g, "KICK") \/ Drop(g, "BAN")
  BY <1>1 DEF Kick, Ban, lobby
<1>3. /\ peers' = [peers EXCEPT ![Host][g] = Absent]
      /\ \A q \in net' : q \in net \/ \E type \in {"KICK", "BAN"} :
           q = Control(Host, g, type) /\ peers[Host][g].key # 0
  BY <1>2 DEF Drop, Boxed
<1>4. OnlyEntry(Host, g) /\ peers'[Host][g] = Absent
  BY <1>1, <1>3, HostGuests, EntryType, SetEntry
<1>5. peers[Host][g].connected /\ In(Host)
  <2>1. GoodEntry(Host, g, peers[Host][g]) /\ peers[Host][g].connected
    BY <1>2, HostGuests DEF RoomInv, TablesInv, Connected
  <2>. QED
    BY <2>1, HostGuests DEF GoodEntry, RoomInv, IdleInv
<1>. QED
  BY <1>2, <1>3, <1>4, <1>5

\* DISCONNECT drops the entry of its sender at the host.
LEMMA DisconnectEffect ==
    ASSUME RoomInv, NEW p \in net, ReceiveDisconnect(p)
    PROVE  /\ UNCHANGED <<lobby, inbox, punching, handling, net>>
           /\ p.type = "DISCONNECT" /\ In(p.to) /\ peers[p.to][p.from].key = p.key
           /\ OnlyEntry(p.to, p.from) /\ peers'[p.to][p.from] = Absent
<1>1. peers \in Tables /\ p.from \in Nodes /\ p.to \in Nodes
  BY PacketType DEF RoomInv, TablesInv
<1>2. /\ UNCHANGED <<lobby, inbox, punching, handling, net>>
      /\ p.type = "DISCONNECT" /\ In(p.to) /\ peers[p.to][p.from].key = p.key
      /\ peers' = [peers EXCEPT ![p.to][p.from] = Absent]
  BY DEF ReceiveDisconnect, Opens, Listening
<1>3. Absent \in Entry
  BY EntryType
<1>4. OnlyEntry(p.to, p.from) /\ peers'[p.to][p.from] = Absent
  BY <1>1, <1>2, <1>3, SetEntry
<1>. QED
  BY <1>2, <1>4

-----------------------------------------------------------------------------
(* The types.                                                              *)

\* The first session of the host, with nobody else.
LEMMA InitRoom == Init => RoomInv
<1>. SUFFICES ASSUME Init PROVE RoomInv
  OBVIOUS
<1>1. PICK c \in Codes : code = [n \in Nodes |-> IF n = Host THEN c ELSE Open]
  BY DEF Init
<1>2. code \in [Nodes -> Codes] /\ offered \in [Guests -> SUBSET Codes]
  BY <1>1, HostGuests, RoomAssumption DEF Init
<1>3. /\ place \in [Nodes -> Places] /\ sess \in [Nodes -> 0..MaxSessions]
      /\ sess[Host] = 1 /\ \A n \in Nodes : In(n) => sess[n] # 0
  BY HostGuests, RoomAssumption DEF Init, In, Places
<1>4. peers \in Tables /\ \A n, m \in Nodes : peers[n][m] = Absent
  BY EntryType DEF Init, Tables
<1>5. \A n, m \in Nodes : GoodEntry(n, m, peers[n][m])
  <2>1. \A m \in Nodes : 0 <= sess[m]
    BY <1>3, RoomAssumption
  <2>. QED
    BY <1>4, <2>1, EntryType DEF GoodEntry
<1>6. /\ punching \in Threads /\ handling \in Handlers
      /\ \A n, m \in Nodes : m \notin punching[n] /\ handling[n] # m
  BY HostGuests DEF Init, Threads, Handlers
<1>7. \A n, m \in Nodes : ~peers[n][m].listed
  BY <1>4, EntryType
<1>8. LobbyInv
  BY <1>2, <1>3 DEF Init, LobbyInv
<1>9. PacketsInv
  BY DEF Init, PacketsInv
<1>. QED
  BY <1>4, <1>5, <1>6, <1>7, <1>8, <1>9 DEF RoomInv, TablesInv, ThreadsInv, IdleInv

\* An entry that is not there, or new, is good.
LEMMA UnconnectedGood ==
    ASSUME RoomInv, NEW n \in Nodes, NEW m \in Nodes, Ends(n, m)
    PROVE  GoodEntry(n, m, Absent) /\ GoodEntry(n, m, Fresh)
<1>1. 0 <= sess[m]
  BY RoomAssumption DEF RoomInv, LobbyInv
<1>. QED
  BY <1>1, EntryType DEF GoodEntry

\* Every step keeps RoomInv.
LEMMA StepRoom ==
    ASSUME RoomInv, [Next]_vars
    PROVE  RoomInv'
<1>1. CASE UNCHANGED vars
  <2>1. UNCHANGED <<lobby, inbox, peers, punching, handling>> /\ net' = net
    BY <1>1 DEF vars, lobby
  <2>. QED
    BY <2>1, KeepRoomSending
\* The steps that leave the tables and the threads alone.
<1>a. ASSUME UNCHANGED <<peers, punching, handling>>, LobbyInv', IdleInv',
             \A a \in Nodes : sess[a] <= sess'[a], net' \subseteq net
      PROVE  RoomInv'
  BY <1>a, KeepRoom DEF RoomInv, TablesInv, ThreadsInv
<1>2. CASE Beacon
  <2>1. /\ UNCHANGED <<peers, punching, handling, net>> /\ UNCHANGED lobby
        /\ inbox' = [g \in Guests |-> IF In(g) THEN inbox[g] \cup {code[Host]} ELSE inbox[g]]
    BY <1>2 DEF Beacon
  <2>2. inbox' \in [Guests -> SUBSET Codes]
    BY <2>1, HostGuests DEF RoomInv, LobbyInv
  <2>3. LobbyInv' /\ IdleInv'
    BY <2>1, <2>2 DEF RoomInv, LobbyInv, IdleInv, In, lobby
  <2>4. \A a \in Nodes : sess[a] <= sess'[a]
    BY <2>1, RoomAssumption DEF RoomInv, LobbyInv, lobby
  <2>. QED
    BY <1>a, <2>1, <2>3, <2>4
<1>3. ASSUME NEW c \in Codes, ChangePasscode(c)
      PROVE  RoomInv'
  <2>1. /\ place' = place /\ sess' = sess /\ clean' = clean /\ banned' = banned
        /\ inbox' = inbox /\ UNCHANGED <<peers, punching, handling, net>>
        /\ code' = [code EXCEPT ![Host] = c]
        /\ offered' = [g \in Guests |-> IF In(g) THEN offered[g] \cup {c} ELSE offered[g]]
    BY <1>3 DEF ChangePasscode
  <2>2. code' \in [Nodes -> Codes] /\ offered' \in [Guests -> SUBSET Codes]
    BY <2>1 DEF RoomInv, LobbyInv
  <2>3. LobbyInv' /\ IdleInv'
    BY <2>1, <2>2 DEF RoomInv, LobbyInv, IdleInv, In
  <2>4. \A a \in Nodes : sess[a] <= sess'[a]
    BY <2>1, RoomAssumption DEF RoomInv, LobbyInv
  <2>. QED
    BY <1>a, <2>1, <2>3, <2>4
<1>4. ASSUME NEW g \in Guests, NEW c \in Codes, Join(g, c)
      PROVE  RoomInv'
  <2>1. /\ place' = [place EXCEPT ![g] = "in"] /\ sess' = [sess EXCEPT ![g] = @ + 1]
        /\ code' = [code EXCEPT ![g] = c] /\ inbox' = [inbox EXCEPT ![g] = {}]
        /\ offered' = [offered EXCEPT ![g] = {code[Host]}]
        /\ clean' \subseteq clean \cup {g}
        /\ UNCHANGED <<banned, peers, punching, handling>>
        /\ sess[g] < MaxSessions
    BY <1>4 DEF Join
  <2>2. g \in Nodes /\ g # Host
    BY HostGuests
  <2>3. sess[g] \in 0..MaxSessions /\ sess[g] + 1 \in 0..MaxSessions /\ sess[g] + 1 # 0
    BY <2>1, <2>2, RoomAssumption DEF RoomInv, LobbyInv
  <2>4. /\ sess' \in [Nodes -> 0..MaxSessions] /\ sess'[Host] = 1
        /\ \A n \in Nodes : n # g => sess'[n] = sess[n]
        /\ sess'[g] = sess[g] + 1
    BY <2>1, <2>2, <2>3, HostGuests DEF RoomInv, LobbyInv
  <2>5. /\ place' \in [Nodes -> Places]
        /\ \A n \in Nodes : n # g => place'[n] = place[n]
        /\ place'[g] = "in"
    BY <2>1, <2>2 DEF RoomInv, LobbyInv, Places
  <2>6. code[Host] \in Codes
    BY HostGuests DEF RoomInv, LobbyInv
  <2>7. /\ code' \in [Nodes -> Codes] /\ inbox' \in [Guests -> SUBSET Codes]
        /\ offered' \in [Guests -> SUBSET Codes] /\ clean' \subseteq Guests
    BY <2>1, <2>2, <2>6 DEF RoomInv, LobbyInv
  <2>8. \A n \in Nodes : In(n)' => sess'[n] # 0
    BY <2>3, <2>4, <2>5 DEF RoomInv, LobbyInv, In
  <2>9. LobbyInv'
    BY <2>1, <2>4, <2>5, <2>7, <2>8 DEF RoomInv, LobbyInv
  <2>10. IdleInv'
    BY <2>1, <2>5 DEF RoomInv, IdleInv, In
  <2>11. \A a \in Nodes : sess[a] <= sess'[a]
    BY <2>3, <2>4, RoomAssumption DEF RoomInv, LobbyInv
  <2>12. net' \subseteq net
    BY <1>4 DEF Join, StillUnderWay
  <2>. QED
    BY <1>a, <2>1, <2>9, <2>10, <2>11, <2>12
<1>5. ASSUME NEW g \in Guests, NEW c \in Codes, HearBeacon(g, c)
      PROVE  RoomInv'
  <2>1. /\ UNCHANGED <<lobby, handling, net>>
        /\ inbox' \in [Guests -> SUBSET Codes] /\ In(g)
        /\ \/ peers' = peers /\ punching' = punching
           \/ /\ OnlyEntry(g, Host) /\ peers'[g][Host] = Fresh
              /\ punching' \in Threads
              /\ \A a, b \in Nodes : b \in punching'[a] =>
                     b \in punching[a] \/ (a = g /\ b = Host)
    BY <1>5, HearEffect
  <2>2. LobbyInv' /\ place' = place /\ sess' = sess
    BY <2>1 DEF RoomInv, LobbyInv, In, lobby
  <2>3. g \in Nodes /\ Host \in Nodes /\ Ends(g, Host)
    BY HostGuests DEF Ends
  <2>4. CASE peers' = peers /\ punching' = punching
    <3>1. IdleInv'
      BY <2>1, <2>2, <2>4 DEF RoomInv, IdleInv, In
    <3>2. \A a \in Nodes : sess[a] <= sess'[a]
      BY <2>2, RoomAssumption DEF RoomInv, LobbyInv
    <3>. QED
      BY <1>a, <2>1, <2>2, <2>4, <3>1, <3>2
  <2>5. CASE /\ OnlyEntry(g, Host) /\ peers'[g][Host] = Fresh
             /\ punching' \in Threads
             /\ \A a, b \in Nodes : b \in punching'[a] =>
                    b \in punching[a] \/ (a = g /\ b = Host)
    <3>1. GoodEntry(g, Host, peers'[g][Host])
      BY <2>3, <2>5, UnconnectedGood
    <3>2. handling' \in Handlers
      BY <2>1 DEF RoomInv, ThreadsInv
    <3>. QED
      BY <2>1, <2>2, <2>3, <2>5, <3>1, <3>2, KeepRoomInSession
  <2>. QED
    BY <2>1, <2>4, <2>5
<1>6. ASSUME NEW n \in Nodes, NEW m \in Nodes, SendPunch(n, m)
      PROVE  RoomInv'
  <2>1. /\ UNCHANGED <<lobby, inbox, peers, punching, handling>> /\ m \in punching[n]
        /\ net' = net \cup {Hello(n, m, "PUNCH")}
    BY <1>6 DEF SendPunch
  <2>2. In(n) /\ Ends(n, m)
    BY <2>1 DEF RoomInv, IdleInv, ThreadsInv
  <2>3. GoodPacket(Hello(n, m, "PUNCH"))
    BY <2>2, HelloGood
  <2>. QED
    BY <2>1, <2>3, KeepRoomSending
<1>7. ASSUME NEW n \in Nodes, NEW m \in Nodes, PunchEnds(n, m)
      PROVE  RoomInv'
  <2>1. /\ UNCHANGED <<lobby, inbox, handling, net>> /\ In(n) /\ Ends(n, m)
        /\ punching' \in Threads
        /\ \A a, b \in Nodes : b \in punching'[a] => b \in punching[a]
        /\ OnlyEntry(n, m)
        /\ peers'[n][m] = peers[n][m] \/ peers'[n][m] = Absent
    BY <1>7, PunchEndsEffect
  <2>2. LobbyInv' /\ place' = place /\ sess' = sess /\ handling' \in Handlers
    BY <2>1 DEF lobby, RoomInv, LobbyInv, ThreadsInv, In
  <2>3. GoodEntry(n, m, peers'[n][m])
    BY <2>1, UnconnectedGood DEF RoomInv, TablesInv
  <2>. QED
    BY <2>1, <2>2, <2>3, KeepRoomInSession
<1>8. ASSUME NEW p \in net, HearPunch(p)
      PROVE  RoomInv'
  <2>1. /\ UNCHANGED <<lobby, inbox>> /\ In(p.to)
        /\ OnlyEntry(p.to, p.from)
        /\ GoodEntry(p.to, p.from, peers'[p.to][p.from])
        /\ punching' \in Threads /\ handling' \in Handlers
        /\ \A a, b \in Nodes : b \in punching'[a] =>
             b \in punching[a] \/ (a = p.to /\ b = p.from)
        /\ \A a, b \in Nodes : handling'[a] = b =>
             handling[a] = b \/ (a = p.to /\ b = p.from)
        /\ net' = net \cup {Hello(p.to, p.from, "PUNCH_ACK")}
    BY <1>8, PunchEffect
  <2>2. LobbyInv' /\ place' = place /\ sess' = sess
    BY <2>1 DEF lobby, RoomInv, LobbyInv, In
  <2>3. p.to \in Nodes /\ p.from \in Nodes /\ Ends(p.to, p.from)
    BY PacketType
  <2>4. \A q \in net' : q \in net \/ GoodPacket(q)
    BY <2>1, <2>3, HelloGood
  <2>. QED
    BY <2>1, <2>2, <2>3, <2>4, KeepRoomInSession
<1>9. ASSUME NEW p \in net, RejectPunch(p)
      PROVE  RoomInv'
  <2>1. /\ UNCHANGED <<lobby, inbox, peers, punching, handling>>
        /\ p.from \in BannedAt(p.to)
        /\ net' = net \cup {Rejection(p.to, p.from)}
    BY <1>9 DEF RejectPunch
  <2>2. p.to = Host /\ p.from \in Guests
    BY <2>1 DEF BannedAt, RoomInv, LobbyInv
  <2>3. GoodPacket(Rejection(p.to, p.from))
    BY <2>2, HostGuests DEF Rejection, Rejections, GoodPacket, Ends
  <2>. QED
    BY <2>1, <2>3, KeepRoomSending
<1>10. ASSUME NEW p \in net, HearAck(p)
       PROVE  RoomInv'
  <2>1. /\ UNCHANGED <<lobby, inbox, punching, net>> /\ In(p.to)
        /\ OnlyEntry(p.to, p.from)
        /\ GoodEntry(p.to, p.from, peers'[p.to][p.from])
        /\ handling' \in Handlers
        /\ \A a, b \in Nodes : handling'[a] = b =>
             handling[a] = b \/ (a = p.to /\ b = p.from)
    BY <1>10, AckEffect
  <2>2. LobbyInv' /\ place' = place /\ sess' = sess /\ punching' \in Threads
    BY <2>1 DEF lobby, RoomInv, LobbyInv, ThreadsInv, In
  <2>3. p.to \in Nodes /\ p.from \in Nodes /\ Ends(p.to, p.from)
    BY PacketType
  <2>. QED
    BY <2>1, <2>2, <2>3, KeepRoomInSession
<1>11. ASSUME NEW n \in Nodes, MarkConnected(n)
       PROVE  RoomInv'
  <2>. DEFINE m == handling[n]
  <2>1. /\ UNCHANGED <<lobby, inbox, punching, net>>
        /\ m \in Nodes /\ In(n) /\ Ends(n, m)
        /\ OnlyEntry(n, m)
        /\ GoodEntry(n, m, peers'[n][m])
        /\ handling' \in Handlers
        /\ \A a, b \in Nodes : handling'[a] = b => handling[a] = b
    BY <1>11, MarkEffect
  <2>2. LobbyInv' /\ place' = place /\ sess' = sess /\ punching' \in Threads
    BY <2>1 DEF lobby, RoomInv, LobbyInv, ThreadsInv, In
  <2>. HIDE DEF m
  <2>. QED
    BY <2>1, <2>2, KeepRoomInSession
<1>12. ASSUME NEW n \in Nodes, NEW type \in {"DISCONNECT", "ROOM_CLOSED"},
              type = "DISCONNECT" <=> n # Host, NEW q \in ToAll(n, type)
       PROVE  GoodPacket(q)
  <2>1. PICK m \in Connected(n) \cap Boxed(n) : q = Control(n, m, type)
    BY <1>12 DEF ToAll
  <2>2. m \in Nodes /\ peers[n][m].key # 0
    BY <2>1 DEF Boxed
  <2>. QED
    BY <1>12, <2>1, <2>2, ControlGood
<1>13. CASE CloseRoom
  <2>1. EndSession(Host, "closed") /\ net' = net \cup ToAll(Host, "ROOM_CLOSED")
    BY <1>13 DEF CloseRoom
  <2>2. \A q \in ToAll(Host, "ROOM_CLOSED") : GoodPacket(q)
    BY <1>12, HostGuests
  <2>. QED
    BY <2>1, <2>2, HostGuests, KeepRoomEnding
<1>14. ASSUME NEW g \in Guests, LeaveRoom(g)
       PROVE  RoomInv'
  <2>1. EndSession(g, "menu") /\ net' = net \cup ToAll(g, "DISCONNECT")
    BY <1>14 DEF LeaveRoom
  <2>2. g \in Nodes /\ g # Host
    BY HostGuests
  <2>3. \A q \in ToAll(g, "DISCONNECT") : GoodPacket(q)
    BY <1>12, <2>2
  <2>. QED
    BY <2>1, <2>2, <2>3, KeepRoomEnding
<1>15. ASSUME NEW n \in Nodes, Vanish(n)
       PROVE  RoomInv'
  BY <1>15, KeepRoomEnding DEF Vanish
<1>16. ASSUME NEW g \in Guests, Kick(g) \/ Ban(g)
       PROVE  RoomInv'
  <2>1. /\ UNCHANGED <<place, sess, code, offered, clean, inbox, punching, handling>>
        /\ banned' \subseteq Guests /\ In(Host)
        /\ OnlyEntry(Host, g) /\ peers'[Host][g] = Absent
        /\ \A q \in net' : q \in net \/ \E type \in {"KICK", "BAN"} :
             q = Control(Host, g, type) /\ peers[Host][g].key # 0
    BY <1>16, DropEffect
  <2>2. LobbyInv' /\ punching' \in Threads /\ handling' \in Handlers
    BY <2>1 DEF RoomInv, LobbyInv, ThreadsInv, In
  <2>3. g \in Nodes /\ Host \in Nodes /\ Ends(Host, g)
    BY HostGuests DEF Ends
  <2>4. GoodEntry(Host, g, peers'[Host][g])
    BY <2>1, <2>3, UnconnectedGood
  <2>5. \A type \in {"KICK", "BAN"} :
          peers[Host][g].key # 0 => GoodPacket(Control(Host, g, type))
    BY <2>3, ControlGood
  <2>6. \A q \in net' : q \in net \/ GoodPacket(q)
    BY <2>1, <2>5
  <2>. QED
    BY <2>1, <2>2, <2>3, <2>4, <2>6, KeepRoomInSession
<1>17. ASSUME NEW p \in net, ReceiveDisconnect(p)
       PROVE  RoomInv'
  <2>1. /\ UNCHANGED <<lobby, inbox, punching, handling, net>> /\ In(p.to)
        /\ OnlyEntry(p.to, p.from) /\ peers'[p.to][p.from] = Absent
    BY <1>17, DisconnectEffect
  <2>2. /\ LobbyInv' /\ place' = place /\ sess' = sess
        /\ punching' \in Threads /\ handling' \in Handlers
    BY <2>1 DEF lobby, RoomInv, LobbyInv, ThreadsInv, In
  <2>3. p.to \in Nodes /\ p.from \in Nodes /\ Ends(p.to, p.from)
    BY PacketType
  <2>4. GoodEntry(p.to, p.from, peers'[p.to][p.from])
    BY <2>1, <2>3, UnconnectedGood
  <2>. QED
    BY <2>1, <2>2, <2>3, <2>4, KeepRoomInSession
<1>18. ASSUME NEW p \in net, ReceiveEnd(p)
       PROVE  RoomInv'
  BY <1>18, PacketType, KeepRoomEnding DEF ReceiveEnd
<1>. QED
  BY <1>1, <1>2, <1>3, <1>4, <1>5, <1>6, <1>7, <1>8, <1>9, <1>10, <1>11, <1>13,
     <1>14, <1>15, <1>16, <1>17, <1>18 DEF Next, Meet, Part

\* RoomInv holds: guests know only the host, and nobody has a key from the
\* future.
THEOREM RoomHolds == Spec => []RoomInv
BY InitRoom, StepRoom, PTL DEF Spec

\* The tables, codes and packets have their types.
THEOREM TypeCorrect == Spec => []TypeOK
BY RoomType, RoomHolds, PTL

-----------------------------------------------------------------------------
(* The code a guest joined with.                                           *)

\* The host's code, and those of the beacons a guest may still hear, are codes
\* the host has had in the guest's session.
CodesInv ==
    \A g \in Guests : In(g) => inbox[g] \subseteq offered[g] /\ code[Host] \in offered[g]

Greetings == {"PUNCH", "PUNCH_ACK"}

\* A handshake between the host and g has begun.  That the host still lists g
\* from an earlier session begins none.
Contact(g) ==
    \/ peers[g][Host].listed \/ Host \in punching[g] \/ handling[g] = Host
    \/ g \in punching[Host] \/ handling[Host] = g
    \/ \E p \in net : p.type \in Greetings /\ g \in {p.from, p.to}

CodeInv == \A g \in clean : In(g) /\ Contact(g) => code[g] \in offered[g]

\* A step that only takes away makes no contact ...
LEMMA NoNewContact ==
    ASSUME \A g \in Guests : peers'[g][Host].listed => peers[g][Host].listed,
           \A a, b \in Nodes : b \in punching'[a] => b \in punching[a],
           \A a, b \in Nodes : handling'[a] = b => handling[a] = b,
           \A q \in net' : q.type \in Greetings => q \in net
    PROVE  \A g \in Guests : Contact(g)' => Contact(g)
BY HostGuests DEF Contact

\* ... nor does one between two nodes that are in contact.
LEMMA OldContact ==
    ASSUME NEW n \in Nodes, NEW m \in Nodes, Ends(n, m),
           \A g \in Guests : g = n \/ g = m => Contact(g),
           OnlyEntry(n, m),
           \A a, b \in Nodes : b \in punching'[a] => b \in punching[a] \/ (a = n /\ b = m),
           \A a, b \in Nodes : handling'[a] = b => handling[a] = b \/ (a = n /\ b = m),
           \A q \in net' : q \in net \/ (q.from = n /\ q.to = m)
    PROVE  \A g \in Guests : Contact(g)' => Contact(g)
<1>1. SUFFICES ASSUME NEW g \in Guests, Contact(g)', g # n, g # m
               PROVE  Contact(g)
  OBVIOUS
<1>2. g \in Nodes /\ Host \in Nodes
  BY HostGuests
<1>3. /\ peers'[g][Host].listed => peers[g][Host].listed
      /\ Host \in punching'[g] => Host \in punching[g]
      /\ handling'[g] = Host => handling[g] = Host
      /\ g \in punching'[Host] => g \in punching[Host]
      /\ handling'[Host] = g => handling[Host] = g
  BY <1>1, <1>2 DEF OnlyEntry
<1>4. \A q \in net' : g \in {q.from, q.to} => q \in net
  BY <1>1
<1>. QED
  BY <1>1, <1>3, <1>4 DEF Contact

\* What a step must show when nobody joins.
LEMMA KeepCode ==
    ASSUME RoomInv, CodeInv, clean' = clean,
           \A g \in Guests : In(g)' => In(g),
           \A g \in Guests : code'[g] = code[g] /\ offered[g] \subseteq offered'[g],
           \A g \in Guests : Contact(g)' => Contact(g) \/ code[g] \in offered[g]
    PROVE  CodeInv'
<1>1. clean \subseteq Guests
  BY DEF RoomInv, LobbyInv
<1>. QED
  BY <1>1 DEF CodeInv

\* The same for one that leaves the lobby alone.
LEMMA KeepCodeInSession ==
    ASSUME RoomInv, CodeInv, UNCHANGED lobby,
           \A g \in Guests : Contact(g)' => Contact(g) \/ code[g] \in offered[g]
    PROVE  CodeInv'
BY KeepCode DEF lobby, In

\* At first nobody is clean, nor in a session but the host.
LEMMA InitCode == Init => CodesInv /\ CodeInv
BY HostGuests DEF Init, CodesInv, CodeInv, In

\* Every step keeps the codes a guest may hear among those of its session.
LEMMA StepCodes ==
    ASSUME RoomInv, CodesInv, [Next]_vars
    PROVE  CodesInv'
<1>1. ASSUME UNCHANGED <<code, offered>>, \A g \in Guests : In(g)' => In(g),
             \A g \in Guests : inbox'[g] \subseteq inbox[g]
      PROVE  CodesInv'
  BY <1>1 DEF CodesInv
<1>2. CASE UNCHANGED <<lobby, inbox>>
  BY <1>1, <1>2 DEF lobby, In
<1>3. CASE UNCHANGED vars
  BY <1>2, <1>3 DEF vars, lobby
<1>4. CASE Beacon
  <2>1. /\ UNCHANGED lobby
        /\ inbox' = [g \in Guests |-> IF In(g) THEN inbox[g] \cup {code[Host]} ELSE inbox[g]]
    BY <1>4 DEF Beacon
  <2>. QED
    BY <2>1 DEF CodesInv, In, lobby
<1>5. ASSUME NEW c \in Codes, ChangePasscode(c)
      PROVE  CodesInv'
  <2>1. /\ code' = [code EXCEPT ![Host] = c] /\ place' = place /\ inbox' = inbox
        /\ offered' = [g \in Guests |-> IF In(g) THEN offered[g] \cup {c} ELSE offered[g]]
    BY <1>5 DEF ChangePasscode
  <2>2. code'[Host] = c
    BY <2>1, HostGuests DEF RoomInv, LobbyInv
  <2>. QED
    BY <2>1, <2>2 DEF CodesInv, In
<1>6. ASSUME NEW g \in Guests, NEW c \in Codes, Join(g, c)
      PROVE  CodesInv'
  <2>1. /\ code' = [code EXCEPT ![g] = c] /\ inbox' = [inbox EXCEPT ![g] = {}]
        /\ offered' = [offered EXCEPT ![g] = {code[Host]}]
        /\ place' = [place EXCEPT ![g] = "in"]
    BY <1>6 DEF Join
  <2>2. code'[Host] = code[Host] /\ inbox'[g] = {} /\ offered'[g] = {code[Host]}
    BY <2>1, HostGuests DEF RoomInv, LobbyInv
  <2>3. \A k \in Guests \ {g} :
          place'[k] = place[k] /\ inbox'[k] = inbox[k] /\ offered'[k] = offered[k]
    BY <2>1, HostGuests DEF RoomInv, LobbyInv
  <2>4. ASSUME NEW k \in Guests, In(k)'
        PROVE  inbox'[k] \subseteq offered'[k] /\ code'[Host] \in offered'[k]
    <3>1. CASE k = g
      BY <2>2, <3>1
    <3>2. CASE k # g
      BY <2>2, <2>3, <2>4, <3>2 DEF CodesInv, In
    <3>. QED
      BY <3>1, <3>2
  <2>. QED
    BY <2>4 DEF CodesInv
<1>7. ASSUME NEW g \in Guests, NEW c \in Codes, HearBeacon(g, c)
      PROVE  CodesInv'
  <2>1. UNCHANGED lobby /\ \A k \in Guests : inbox'[k] \subseteq inbox[k]
    BY <1>7, HearEffect
  <2>. QED
    BY <1>1, <2>1 DEF lobby, In
<1>8. CASE \/ \E n, m \in Nodes : SendPunch(n, m) \/ PunchEnds(n, m)
           \/ \E p \in net : HearPunch(p) \/ HearAck(p) \/ RejectPunch(p)
           \/ \E n \in Nodes : MarkConnected(n)
           \/ \E g \in Guests : Kick(g)
           \/ \E p \in net : ReceiveDisconnect(p)
  BY <1>2, <1>8 DEF SendPunch, PunchEnds, HearPunch, HearAck, RejectPunch, MarkConnected,
       Kick, ReceiveDisconnect
<1>9. ASSUME NEW g \in Guests, Ban(g)
      PROVE  CodesInv'
  BY <1>1, <1>9 DEF Ban, In
<1>10. ASSUME NEW n \in Nodes, NEW where \in {"menu", "closed"}, EndSession(n, where)
       PROVE  CodesInv'
  <2>1. /\ UNCHANGED <<code, offered, inbox>> /\ ~In(n)'
        /\ \A a \in Nodes \ {n} : place'[a] = place[a]
    BY <1>10, EndEffect
  <2>. QED
    BY <1>1, <2>1, HostGuests DEF In
<1>11. CASE \/ CloseRoom
            \/ \E n \in Nodes : Vanish(n)
            \/ \E g \in Guests : LeaveRoom(g)
            \/ \E p \in net : ReceiveEnd(p)
  BY <1>10, <1>11, HostGuests, PacketType DEF CloseRoom, LeaveRoom, Vanish, ReceiveEnd
<1>. QED
  BY <1>3, <1>4, <1>5, <1>6, <1>7, <1>8, <1>9, <1>11 DEF Next, Meet, Part

\* Every step keeps CodeInv: only an authentic beacon makes a first contact.
LEMMA StepCode ==
    ASSUME RoomInv, CodesInv, CodeInv, [Next]_vars
    PROVE  CodeInv'
<1>. DEFINE Known == \A g \in Guests : Contact(g)' => Contact(g)
<1>1. CASE UNCHANGED vars
  <2>1. UNCHANGED lobby /\ UNCHANGED <<peers, punching, handling, net>>
    BY <1>1 DEF vars, lobby
  <2>. QED
    BY <2>1, NoNewContact, KeepCodeInSession
<1>2. CASE Beacon
  <2>1. UNCHANGED lobby /\ UNCHANGED <<peers, punching, handling, net>>
    BY <1>2 DEF Beacon
  <2>. QED
    BY <2>1, NoNewContact, KeepCodeInSession
<1>3. ASSUME NEW c \in Codes, ChangePasscode(c)
      PROVE  CodeInv'
  <2>1. /\ place' = place /\ clean' = clean
        /\ UNCHANGED <<peers, punching, handling, net>>
        /\ code' = [code EXCEPT ![Host] = c]
        /\ offered' = [g \in Guests |-> IF In(g) THEN offered[g] \cup {c} ELSE offered[g]]
    BY <1>3 DEF ChangePasscode
  <2>2. \A g \in Guests : code'[g] = code[g] /\ offered[g] \subseteq offered'[g]
    BY <2>1, HostGuests DEF RoomInv, LobbyInv
  <2>3. Known
    BY <2>1, NoNewContact
  <2>4. \A g \in Guests : In(g)' => In(g)
    BY <2>1 DEF In
  <2>. QED
    BY <2>1, <2>2, <2>3, <2>4, KeepCode
<1>4. ASSUME NEW g \in Guests, NEW c \in Codes, Join(g, c)
      PROVE  CodeInv'
  <2>1. /\ ~In(g) /\ clean \subseteq Guests
        /\ code' = [code EXCEPT ![g] = c]
        /\ offered' = [offered EXCEPT ![g] = {code[Host]}]
        /\ place' = [place EXCEPT ![g] = "in"]
        /\ UNCHANGED <<peers, punching, handling>>
        /\ clean' = IF HostAtRest(g) /\ \A p \in net' : g \notin {p.from, p.to}
                    THEN clean \cup {g} ELSE clean \ {g}
    BY <1>4 DEF Join, RoomInv, LobbyInv, In
  <2>2. net' \subseteq net
    BY <1>4 DEF Join, StillUnderWay
  <2>3. Known
    BY <2>1, <2>2, NoNewContact
  <2>4. g \in clean' => ~Contact(g)'
    <3>1. ~peers[g][Host].listed /\ Host \notin punching[g] /\ handling[g] # Host
      BY <2>1, HostGuests DEF RoomInv, IdleInv
    <3>2. CASE HostAtRest(g) /\ \A p \in net' : g \notin {p.from, p.to}
      BY <2>1, <3>1, <3>2 DEF Contact, HostAtRest
    <3>3. CASE ~(HostAtRest(g) /\ \A p \in net' : g \notin {p.from, p.to})
      BY <2>1, <3>3
    <3>. QED
      BY <3>2, <3>3
  <2>5. ASSUME NEW k \in clean', In(k)', Contact(k)'
        PROVE  code'[k] \in offered'[k]
    <3>1. k # g /\ k \in clean /\ k \in Guests
      BY <2>1, <2>4, <2>5
    <3>2. place'[k] = place[k] /\ code'[k] = code[k] /\ offered'[k] = offered[k]
      BY <2>1, <3>1, HostGuests DEF RoomInv, LobbyInv
    <3>. QED
      BY <2>3, <2>5, <3>1, <3>2 DEF CodeInv, In
  <2>. QED
    BY <2>5 DEF CodeInv
<1>5. ASSUME NEW g \in Guests, NEW c \in Codes, HearBeacon(g, c)
      PROVE  CodeInv'
  <2>1. /\ UNCHANGED <<lobby, handling, net>> /\ In(g) /\ c \in inbox[g]
        /\ \/ peers' = peers /\ punching' = punching
           \/ /\ c = code[g] /\ OnlyEntry(g, Host)
              /\ \A a, b \in Nodes : b \in punching'[a] <=>
                     b \in punching[a] \/ (a = g /\ b = Host)
    BY <1>5, HearEffect
  <2>2. ASSUME NEW k \in Guests, Contact(k)'
        PROVE  Contact(k) \/ code[k] \in offered[k]
    <3>1. CASE peers' = peers /\ punching' = punching
      BY <2>1, <2>2, <3>1 DEF Contact
    <3>2. CASE /\ c = code[g] /\ OnlyEntry(g, Host)
               /\ \A a, b \in Nodes : b \in punching'[a] <=>
                      b \in punching[a] \/ (a = g /\ b = Host)
      <4>1. CASE k = g
        BY <2>1, <3>2, <4>1 DEF CodesInv
      <4>2. CASE k # g
        <5>1. k \in Nodes /\ Host \in Nodes /\ g # Host /\ k # Host
          BY HostGuests
        <5>2. peers'[k][Host] = peers[k][Host]
          BY <3>2, <4>2, <5>1 DEF OnlyEntry
        <5>3. /\ Host \in punching'[k] <=> Host \in punching[k]
              /\ k \in punching'[Host] <=> k \in punching[Host]
          BY <3>2, <4>2, <5>1
        <5>. QED
          BY <2>1, <2>2, <5>2, <5>3 DEF Contact
      <4>. QED
        BY <4>1, <4>2
    <3>. QED
      BY <2>1, <3>1, <3>2
  <2>. QED
    BY <2>1, <2>2, KeepCodeInSession
<1>6. ASSUME NEW n \in Nodes, NEW m \in Nodes, SendPunch(n, m)
      PROVE  CodeInv'
  <2>1. /\ UNCHANGED lobby /\ UNCHANGED <<peers, punching, handling>> /\ m \in punching[n]
        /\ net' = net \cup {Hello(n, m, "PUNCH")}
    BY <1>6 DEF SendPunch
  <2>2. Ends(n, m) /\ OnlyEntry(n, m)
    BY <2>1 DEF RoomInv, ThreadsInv, TablesInv, OnlyEntry
  <2>3. \A g \in Guests : g = n \/ g = m => Contact(g)
    BY <2>1, <2>2, HostGuests DEF Contact, Ends
  <2>4. Hello(n, m, "PUNCH").from = n /\ Hello(n, m, "PUNCH").to = m
    BY DEF Hello
  <2>5. Known
    BY <2>1, <2>2, <2>3, <2>4, OldContact
  <2>. QED
    BY <2>1, <2>5, KeepCodeInSession
<1>7. ASSUME NEW n \in Nodes, NEW m \in Nodes, PunchEnds(n, m)
      PROVE  CodeInv'
  <2>1. /\ UNCHANGED lobby /\ UNCHANGED <<handling, net>>
        /\ \A a, b \in Nodes : b \in punching'[a] => b \in punching[a]
        /\ OnlyEntry(n, m)
        /\ peers'[n][m] = peers[n][m] \/ peers'[n][m] = Absent
    BY <1>7, PunchEndsEffect DEF lobby
  <2>2. \A g \in Guests : peers'[g][Host].listed => peers[g][Host].listed
    BY <2>1, EntryType, HostGuests DEF OnlyEntry
  <2>3. Known
    BY <2>1, <2>2, NoNewContact
  <2>. QED
    BY <2>1, <2>3, KeepCodeInSession
\* The ends of a handshake packet are in contact.
<1>8. ASSUME NEW p \in net, p.type \in Greetings
      PROVE  /\ p.from \in Nodes /\ p.to \in Nodes /\ Ends(p.to, p.from)
             /\ \A g \in Guests : g = p.from \/ g = p.to => Contact(g)
  BY <1>8, PacketType DEF Contact
<1>9. ASSUME NEW p \in net, HearPunch(p)
      PROVE  CodeInv'
  <2>1. /\ UNCHANGED lobby /\ OnlyEntry(p.to, p.from) /\ p.type \in Greetings
        /\ \A a, b \in Nodes : b \in punching'[a] =>
             b \in punching[a] \/ (a = p.to /\ b = p.from)
        /\ \A a, b \in Nodes : handling'[a] = b =>
             handling[a] = b \/ (a = p.to /\ b = p.from)
        /\ net' = net \cup {Hello(p.to, p.from, "PUNCH_ACK")}
    BY <1>9, PunchEffect DEF Greetings
  <2>2. /\ Hello(p.to, p.from, "PUNCH_ACK").from = p.to
        /\ Hello(p.to, p.from, "PUNCH_ACK").to = p.from
    BY DEF Hello
  <2>3. Known
    BY <1>8, <2>1, <2>2, OldContact
  <2>. QED
    BY <2>1, <2>3, KeepCodeInSession
<1>10. ASSUME NEW p \in net, RejectPunch(p)
       PROVE  CodeInv'
  <2>1. /\ UNCHANGED lobby /\ UNCHANGED <<peers, punching, handling>>
        /\ net' = net \cup {Rejection(p.to, p.from)}
    BY <1>10 DEF RejectPunch
  <2>2. Rejection(p.to, p.from).type \notin Greetings
    BY DEF Rejection, Greetings
  <2>3. Known
    BY <2>1, <2>2, NoNewContact
  <2>. QED
    BY <2>1, <2>3, KeepCodeInSession
<1>11. ASSUME NEW p \in net, HearAck(p)
       PROVE  CodeInv'
  <2>1. /\ UNCHANGED lobby /\ UNCHANGED <<punching, net>>
        /\ OnlyEntry(p.to, p.from) /\ p.type \in Greetings
        /\ \A a, b \in Nodes : handling'[a] = b =>
             handling[a] = b \/ (a = p.to /\ b = p.from)
    BY <1>11, AckEffect DEF Greetings
  <2>2. Known
    BY <1>8, <2>1, OldContact
  <2>. QED
    BY <2>1, <2>2, KeepCodeInSession
<1>12. ASSUME NEW n \in Nodes, MarkConnected(n)
       PROVE  CodeInv'
  <2>. DEFINE m == handling[n]
  <2>1. /\ UNCHANGED lobby /\ UNCHANGED <<punching, net>>
        /\ m \in Nodes /\ OnlyEntry(n, m)
        /\ peers'[n][m].listed = peers[n][m].listed
        /\ \A a, b \in Nodes : handling'[a] = b => handling[a] = b
    BY <1>12, MarkEffect
  <2>. HIDE DEF m
  <2>2. \A g \in Guests : peers'[g][Host].listed => peers[g][Host].listed
    BY <2>1, HostGuests DEF OnlyEntry
  <2>3. Known
    BY <2>1, <2>2, NoNewContact
  <2>. QED
    BY <2>1, <2>3, KeepCodeInSession
<1>13. ASSUME NEW n \in Nodes, NEW where \in {"menu", "closed"}, EndSession(n, where),
              \A q \in net' : q.type \in Greetings => q \in net
       PROVE  CodeInv'
  <2>1. /\ UNCHANGED <<code, offered, clean>> /\ ~In(n)'
        /\ \A a \in Nodes \ {n} : place'[a] = place[a]
        /\ \A b \in Nodes :
             peers'[n][b] = Absent /\ b \notin punching'[n] /\ handling'[n] # b
        /\ \A a, b \in Nodes : a # n =>
             /\ peers'[a][b] = peers[a][b]
             /\ b \in punching'[a] <=> b \in punching[a]
             /\ handling'[a] = handling[a]
    BY <1>13, EndEffect
  <2>2. \A a, b \in Nodes :
          /\ peers'[a][b].listed => peers[a][b].listed
          /\ b \in punching'[a] => b \in punching[a]
          /\ handling'[a] = b => handling[a] = b
    BY <2>1, EntryType
  <2>3. Known
    BY <1>13, <2>2, HostGuests, NoNewContact
  <2>4. \A g \in Guests : In(g)' => In(g)
    BY <2>1, HostGuests DEF In
  <2>. QED
    BY <2>1, <2>3, <2>4, KeepCode
<1>14. ASSUME NEW n \in Nodes, NEW type, type \notin Greetings, NEW q \in ToAll(n, type)
       PROVE  q.type \notin Greetings
  BY <1>14 DEF ToAll, Control
<1>15. CASE CloseRoom
  <2>1. EndSession(Host, "closed") /\ net' = net \cup ToAll(Host, "ROOM_CLOSED")
    BY <1>15 DEF CloseRoom
  <2>2. \A q \in ToAll(Host, "ROOM_CLOSED") : q.type \notin Greetings
    BY <1>14, HostGuests DEF Greetings
  <2>. QED
    BY <1>13, <2>1, <2>2, HostGuests
<1>16. ASSUME NEW g \in Guests, LeaveRoom(g)
       PROVE  CodeInv'
  <2>1. EndSession(g, "menu") /\ net' = net \cup ToAll(g, "DISCONNECT")
    BY <1>16 DEF LeaveRoom
  <2>2. \A q \in ToAll(g, "DISCONNECT") : q.type \notin Greetings
    BY <1>14, HostGuests DEF Greetings
  <2>. QED
    BY <1>13, <2>1, <2>2, HostGuests
<1>17. ASSUME NEW n \in Nodes, Vanish(n)
       PROVE  CodeInv'
  BY <1>13, <1>17 DEF Vanish
<1>18. ASSUME NEW g \in Guests, Kick(g) \/ Ban(g)
       PROVE  CodeInv'
  <2>1. /\ UNCHANGED <<place, code, offered, clean, punching, handling>>
        /\ OnlyEntry(Host, g) /\ peers'[Host][g] = Absent
        /\ \A q \in net' : q \in net \/ \E type \in {"KICK", "BAN"} :
             q = Control(Host, g, type)
    BY <1>18, DropEffect
  <2>2. \A q \in net' : q.type \in Greetings => q \in net
    BY <2>1 DEF Control, Greetings
  <2>3. \A k \in Guests : peers'[k][Host].listed => peers[k][Host].listed
    BY <2>1, HostGuests DEF OnlyEntry
  <2>4. Known
    BY <2>1, <2>2, <2>3, NoNewContact
  <2>5. \A k \in Guests : In(k)' => In(k)
    BY <2>1 DEF In
  <2>. QED
    BY <2>1, <2>4, <2>5, KeepCode
<1>19. ASSUME NEW p \in net, ReceiveDisconnect(p)
       PROVE  CodeInv'
  <2>1. /\ UNCHANGED lobby /\ UNCHANGED <<punching, handling, net>>
        /\ OnlyEntry(p.to, p.from) /\ peers'[p.to][p.from] = Absent
    BY <1>19, DisconnectEffect
  <2>2. \A k \in Guests : peers'[k][Host].listed => peers[k][Host].listed
    BY <2>1, EntryType, HostGuests DEF OnlyEntry
  <2>3. Known
    BY <2>1, <2>2, NoNewContact
  <2>. QED
    BY <2>1, <2>3, KeepCodeInSession
<1>20. ASSUME NEW p \in net, ReceiveEnd(p)
       PROVE  CodeInv'
  BY <1>13, <1>20, PacketType DEF ReceiveEnd
<1>. QED
  BY <1>1, <1>2, <1>3, <1>4, <1>5, <1>6, <1>7, <1>9, <1>10, <1>11, <1>12, <1>15,
     <1>16, <1>17, <1>18, <1>19, <1>20 DEF Next, Meet, Part

\* A guest of which nothing older was under way is connected only with a code
\* the host has had in its session: _discover_loop checks the tag of every
\* beacon before it adds the sender, and the host punches nobody it has not
\* heard of.
THEOREM CodeHolds == Spec => []CodeNeeded
<1>1. RoomInv /\ CodeInv => CodeNeeded
  <2>1. ASSUME RoomInv, NEW g \in clean, peers[g][Host].connected
        PROVE  Contact(g)
    BY <2>1, HostGuests DEF RoomInv, LobbyInv, TablesInv, GoodEntry, Contact
  <2>. QED
    BY <2>1 DEF CodeInv, CodeNeeded
<1>2. CodesInv /\ CodeInv /\ RoomInv /\ [Next]_vars => CodesInv' /\ CodeInv'
  BY StepCodes, StepCode
<1>. QED
  BY <1>1, <1>2, InitCode, RoomHolds, PTL DEF Spec

=============================================================================
