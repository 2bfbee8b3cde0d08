# Specifications of p2p_chat

TLA+ models of the chat program in `src/`, the TLC configurations that check
them on small instances, and proofs that TLAPS checks for every instance.
Line numbers are those of `src/` unless a path says otherwise.

## 1. The system

`client.py` asks for a name, opens one UDP socket and runs one `UDPClient`
(`session.py`) after another on it. A `UDPClient` is a chat session: it holds
the other members of a room in a table, shakes hands with them by PUNCH and
PUNCH_ACK packets that carry public keys, and then exchanges encrypted
datagrams. There is no server and, apart from chat acks, no retransmission.

| Part | State | Operations | Talks to |
|---|---|---|---|
| Peer table (`session.py`) | `_peers`: a dict for each address with box, `connected` and display data; `_peer_by_pubkey`; `_banned_ips`; `_muted` | `_add_peer`, `_build_box`, `_remove_unconnected_peer`, `_kick_peer`, `_ban_peer`, `_set_all_muted`, the branches of `_recv_loop` and `_discover_loop` | every thread of the session |
| Delivery (`session.py`) | `_ack_trackers`, the fields of each `_MsgTracker`, the verdict on each message and the icon on its line | chat branch of `_send_loop`, `_MsgTracker.ack`, `_MsgTracker._timeout`, ack and chat branches of `_recv_loop` | peer table, remote peers, a timer per message |
| Profile (`session.py`) | `username`, `motd`; what peers know of them | `_send_meta_to`, `/nick`, `/motd`, META, NICK and MOTD branches of `_recv_loop` | peer table, remote peers |
| Lifecycle (`session.py`, `client.py`) | `done`, `_first_connected`, `_prev_sigint`, `_panel_disabled`, the installed handler, the socket's timeout, the terminal's mode and scroll region, the threads | `__init__`, `_handle_sigint`, the frames of `_recv_loop` and `_send_loop`, `_readline_styled` as the owner of the raw mode | every thread; the sessions before and after |
| Room and discovery (`session.py`, `discovery.py`, `client.py`) | host's beacon and passcode, `_banned_ips`, each member's table, the packets under way | `_discover_loop`, `scan_active_rooms`, the handshake, DISCONNECT, KICK, BAN, ROOM_CLOSED, PUNCH_BAN | peer tables of several processes |
| Panel (`session.py`, `ui.py`) | the painted bar, `_tab_selected` | `_statusbar`, `_paint_panel`, the Tab, Escape, k and B keys | peer table, the threads that paint |
| Storage (`db.py`) | one SQLite file: message log, presets, key, settings | `log_message`, `load_history`, the preset functions, `_get_box`, the setting functions | threads of one session, other processes |
| `stun.py`, `config.py`, `ui.py`, `protocol.py` | a request; a JSON file; the screen; constants | | |

What makes these parts hard is that five kinds of thread (receive, discovery,
one punch thread for each added peer, main, input) and a timer for each message
share the table and hold `_peers_lock` only for single accesses, that a peer is
known by its address, by its key and by its discovery id, each of which may
change without the others, and that nothing is certain about the network.

What would make each part correct:

- Peer table: never more peers than slots; one slot for each session; a dict
  belongs to one address; a slot is not held for ever by a silent peer, nor
  taken from a connected one by a deadline; a connected peer has a box; the
  threads end with the session.
- Delivery: each message gets one verdict, which never says more than is true
  and is shown on the message it is about.
- Profile: a connected peer has been told the current name and message of the day.
- Lifecycle: a session ends in every way it is left and gives back the signal
  handler, the scroll region and the terminal; nothing of it disturbs the next;
  the chat opens for a handshake, not for a ban.
- Room: those who know the room code meet, those who do not, do not; who is
  banned is told so, and so is everybody when the room closes.
- Panel: the bar shows who is connected, and a key acts on the peer it shows.
- Storage: the history is the last messages in order; presets are neither
  lost nor doubled, and their passcodes stay readable.

Several of these sentences are not true of the code. Section 3 says which, under
"Disagreements", and what the properties of the passing runs say instead.

## 2. The modules

| Module | Content |
|---|---|
| `Roster` | what the peer table promises to the rest of the program |
| `PeerTable` | the peer table and the threads that change it, a refinement of `Roster` |
| `PeerTableProofs` | its theorems, the refinement among them |
| `MCPeerTable` | symmetry, view and ip assignment for TLC |
| `DeliveryStatus` | what the verdict on a message promises |
| `Delivery` | the code that gives the verdict and shows it, a refinement of `DeliveryStatus` |
| `DeliveryProofs` | its theorems, the refinement among them |
| `MCDelivery` | imports `TLC` for the instances |
| `ProfileSync` | greeting and change broadcast of the profile, while dicts move and go |
| `ProfileSyncProofs` | its theorems |
| `MCProfileSync` | its symmetry and view |
| `HistoryLog` | what the chat history promises |
| `Storage` | `db.py` with concurrent clients, a refinement of `HistoryLog` |
| `StorageProofs` | its theorems, the refinement among them |
| `MCStorage` | its symmetry and view |
| `Lifecycle` | one process from session to session: threads, signals, terminal |
| `LifecycleProofs` | its theorems |
| `Room` | a host and its guests, each with a table, over a lossy network |
| `RoomProofs` | its theorems |
| `MCRoom` | its view |
| `Panel` | the status bar and the selection of a peer in it |
| `PanelProofs` | its theorems |
| `MCLifecycle`, `MCPanel` | import `TLC`; `MCPanel` has the symmetry |

Each module stands for one thing several actors do to one piece of state.
`Delivery`, `ProfileSync` and `Panel` keep of the peer table only what they need,
since `PeerTable` has the detail. `Room` composes the tables of several processes:
there a handler is one step, but for the one of a handshake, whose answer goes out
before the sender is connected. `Lifecycle` has the main, input and receive threads
of several sessions around the parts the other modules look into.

### PeerTable

One action is one critical section of `_peers_lock`, or one access made outside
it; the locals a thread carries from one to the next are fields of its variable.

- `peers` and `entry` are `_peers`: the dict under each address, and the
  contents of each dict. They are apart because threads keep references to
  dicts that have left the table. An element of `Entries` is the identity of a
  dict; one that no thread can reach may be used for a new dict.
- `peerByPubkey` is `_peer_by_pubkey`; `seenSids` the discovery loop's local.
- `recv`, `disc`, `puncher`, `dial`, `ui` are the receive loop, the discovery
  loop, the punch threads, the main thread in Internet mode and the input
  thread. A packet goes `Receive`, `Lookup`, then `Admit` and `RecvAddPeer` for
  an unknown address, `BuildBox`, `FetchPeer` and `MarkConnected` for a
  handshake, `Decrypt` and `DropPeer` for the rest. A beacon goes `HearBeacon`,
  `TakeReconnecting` for a session heard before, `DiscAddPeer`. `AddPeer` is
  `_add_peer`, called by three threads.
- A dict's event `connected` is set outside `_peers_lock` (lines 754 and 786), so
  the two critical sections that test it and then take the dict out of the table
  are two actions each, `PunchTest` and `PunchRemove` (427, 428), `HearBeacon` and
  `TakeReconnecting` (651, 655). The lock is held in between: `Unlocked` is the
  guard of every action that takes it, and `MarkConnected` does not have that guard.
- `Roster` has a limited number of slots, which peers take, are connected in, move
  with and leave. `KeepsRoster` says that the table, seen through `Status`, does
  nothing else, whichever thread acts: nobody is connected without a slot, a slot
  beyond the limit is never taken, and a peer loses what it reached only by a move
  or with its slot. That a deadline never takes the slot of a connected peer is
  not among it, because it is not so (section 3).
- The network is open: every packet may come at any time from any address.
  This includes each loss, delay, repetition and reordering, and peers whose
  address or key changes. The sessions at the other ends are not modelled here.
- Left out: packets with malformed keys (`_build_box` returns None), an
  `OSError` of the socket, the discovery socket that cannot be bound, the
  display data in a dict, META, NICK, MOTD and chat packets (they leave the
  table's structure alone), and the error that a locked database raises in
  `_log`. `MarkConnected` is one action from the test of `connected` to its set:
  nobody else sets it.

### Delivery

`Snapshot`, `SendTo`, `PrintPending`, `MakeTracker` and `Register` are the
chat branch of `_send_loop` in its order; `HearAck`, `FindTracker` and `Ack` the
ack branch of `_recv_loop`; `Timeout` a timer. `Deliver` is the remote peer,
which is the same program. An address is a peer and the number of its moves:
an ack that comes from an address the message was not sent to is the same
event as in the code, where `_pending` holds addresses. Packets sent stay in
`chat` and `acks` and may be delivered any number of times or never.
The chat message that ends the thread with a KeyError is `SendTo` on an address
that is gone.

What a tracker decides and what the user reads are two variables. `status` is
the verdict, as handed to the update function of the message. `shown` is the icon
on each message's line: the update function writes at a row computed from the
height of the terminal (`ui.py:590`), which is the row of the line printed last.
`PrintLine` prints a message there, `PrintOther` anything else, and `Update` writes
the verdict of one message on whatever line is there by then. The properties of
the run `delivery` and the theorems are about `status`; `IndicatorIsOwn` is about
`shown`, and fails.

### ProfileSync

`profile` is `username` and `motd`. The receive thread goes `HearKnown`, `HearNew` or
`HearMoved` and `RecvAddPeer`, then `BuildBox` or `BuildBoxMoved`, `FetchPeer`,
`MarkConnected`, and `ReadField` and `SendField` for META and for MOTD; `DropPeer` is
a DISCONNECT. The discovery thread goes `DiscTake`, `DiscAddPeer` or `DiscAddNew`;
`PunchTimeout` is a punch thread. The input thread goes `Change`, `ListTargets`,
`SendChange`, and `RemovePeer` for a kick. `Targets` are the connected peers that have
a box, as in line 505. The box of a dict is the key it was made with, and `None` after
`_add_peer`, which also resets the event; `MarkConnected` works on the dict the thread
fetched, wherever it is by then, and so a dict may be connected without a box.

Two history variables: `told`, the fields sent to each address and session with
their current values, and `greeted`, the address and session each dict was greeted as.
`ProfileSent` says that a peer at the address and with the session it was greeted
as has been sent the current profile once the two threads are at rest. Two kinds of
peers are connected and were not greeted so: those whose dict was moved while the
handshake completed (no box, `JoinersTold` fails), and sessions that took the place
of a connected one at the same address (another box, `RejoinersTold` fails).

The index of keys is in `PeerTable`: here a key may be found at any address. The
session is a host; of any other, the message of the day is not there.

### Storage

`db` is what is committed, `draft` the tables as the open write transaction
sees them, `lock` SQLite's write lock, `client` the program counter and the
arguments of each client. Between two SQL statements of a function other
clients run, as far as SQLite lets them: the first write of a transaction takes
the lock. That, the rollback of a client that dies and the busy timeout are
external. `History` orders the rows by their rank, which is what `ORDER BY id`
does, so that no recursive operator stands in the way of the proofs.
Left out: creation of the tables, columns nothing depends on, and the
settings table (an upsert of one row).

### Lifecycle

`main` is the place of the main thread in `__init__`: `Open` installs the handler
and starts the receive loop, `WaitTimeout` and `Connected` are the two ends of the
wait for the first peer, `EnablePanel`, `ShowHistory` and `StartInput` follow,
`CloseSession` comes after `done`, `Join` waits for the input thread. `Signal`,
`HandlerPrint` and `HandlerSet` are `_handle_sigint`, which Python runs on the
main thread between two of its steps. `recv[s]` is the receive loop of session
`s` with the packet in hand, from `RecvStart` to `RecvClose`; `timed` is the
timeout of the one socket all sessions share, which a loop that ends takes away
from the next one (line 950). `RecvBar` and `RecvUnblock` are the two events a
PUNCH_BAN sets, in this order; `first` is also set by a handshake, and the history
variable `met` tells the two apart. `Prompt`, `Line`, `Leave` and `InputInterrupt` are
the input thread as the owner of the terminal's mode.
Left out: a second SIGINT inside the handler; a handler that strikes while the
main thread holds `_peers_lock`, which is held for a few instructions (while it
holds `print_lock` to read the history, the handler is stuck: `HandlerPrint` is
disabled at `"history"`, which is the deadlock of line 446); messages printed
after the panel is closed; where in its loop the receive loop of a session that
is over stands in `recvfrom` when the next session sets the timeout.

### Room

A node is a process at one address; `sess[n]` is the number of its session and
stands for its key. `peers[n]` is its table. `Join` is the scan, the choice of a
room and the passcode prompt; `Beacon` and `HearBeacon` the discovery loop of the
host and of a guest; `SendPunch` and `PunchEnds` a punch thread; `HearPunch`,
`HearAck`, `RejectPunch`, `ReceiveDisconnect` and `ReceiveEnd` the branches
of the receive loop. A handshake packet is two steps: `HearPunch` sends the answer
(line 748), and `MarkConnected` sets the event (754) of the entry there still is, so
that a `/close`, a kick or the deadline may come in between; `handling` is the
packet's sender meanwhile. `ChangePasscode`, `CloseRoom`, `LeaveRoom`, `Kick` and `Ban`
are what users do. `Vanish` is any node that is gone without a word, the host
too: killed, or ended by an `OSError` of its socket (683-685). `net` is every
datagram ever sent, and each may arrive at any time, again, or never. A control
packet is readable only with the keys it was encrypted for, the rest is in the
clear, as in the code.

Two history variables: `offered`, the codes the host has had since each guest's
session began, and `clean`, the guests whose session began when nothing of an
earlier one was under way, no packet (`StillUnderWay`) and no thread of the host
(`HostAtRest`). The second session of a guest may be clean or not: the host may
have the first one in its table, connected, in either case.

The host does not open a second room, and addresses do not change here.

### Panel

`order` and `online` are the keys of `_peers` and those connected; `bar` is what is
on the screen. `PaintRead` and `PaintWrite` are `_statusbar`: it holds `print_lock`
throughout, and `_peers_lock` only for the list. `Tab`, `Deselect`, `PressK` and
`KickPeer` are the keys of a host. `dropped` is a history variable, the dicts
that `_add_peer` refused after a move (line 734) and nobody painted over; the
properties make the exception they need for it explicitly.
A list of addresses is the set of pairs `<<a, b>>` in which `a` is at or before the
place of `b`. Taking an address out, appending one and keeping the connected
ones are then operations on sets, about which proofs need no induction.
Left out: moves by the discovery loop, which does not paint, and the order of
the characters in the bar.

## 3. The runs

Every run's state space is finite: the only counters are bounded by the named
constants `MaxMoves` (Delivery), `MaxRows` and `MaxPresets` (Storage) and
`MaxSessions` (Room, Lifecycle), in the guards; the pools `Entries` and `Punchers`
(`PeerTable`) and `Dicts` (`ProfileSync`) bound the dicts and punch threads alive at
one time. Deadlock is not checked: a session may end, and nothing obliges a user
or a network to do anything.

| Run | Instance | Shows |
|---|---|---|
| `peers_internet` | 3 addresses (1 dialled), 2 keys, 2 slots, 3 dicts, 2 punch threads | `TypeOK`, `RoomCapacity`, `OneSlotPerKey`, `BoxIndexed`, the refinement `KeepsRoster` |
| `peers_lan` | 2 addresses, 1 key, 1 discovery id, 1 slot, all user commands | `EntryInOnePlace` and `KeepsRoster` with both loops, a punch thread and the user |
| `peers_live` | 2 addresses heard by the discovery loop, 1 key, 2 slots, 2 punch threads, fair | `UnconnectedSlotFreed`, `ThreadsEnd` |
| `delivery` | 1 message, 3 peers, 1 move each, fair | `TypeOK`, `OkMeansReceived`, `DoneMatchesStatus`, the refinement `KeepsPromise`, `EveryMessageResolved`, `AckDroppedOnlyEarly` |
| `storage` | 2 clients, 2 rooms, 3 messages with a cap of 2, 1 preset name saved twice, 2 keys | `TypeOK`, `RoomLogBounded`, `PasscodesReadable`, `OnePresetPerName`, the refinement `KeepsHistory`, `SavedPresetKept` |
| `profile` | 2 addresses, 1 session of the peer, 3 dicts, 3 values | `TypeOK`, `ProfileSent` |
| `room` | 1 guest, 2 sessions of it, 2 codes, 1 slot, fair | `TypeOK`, `CodeNeeded`, `GuestMeetsHost`, `BannedTurnedAway` |
| `lifecycle` | 2 sessions, each host or guest, fair | `TypeOK`, `HandlerBelongs`, `PanelClosed`, `RoomNeedsHandshake`, `SessionReturns`, `GuestWaitEnds`, `BannedLeaves` |
| `panel` | 3 addresses, 2 slots for peers | `TypeOK`, `BarCurrent`, `KicksHighlighted` |
| `sender_crash` | violates `SenderSurvives` | a DISCONNECT during the send loop ends the input thread |
| `wrong_code` | violates `LockedNeedsPasscode` | a guest who comes back with a wrong passcode is connected by the punches the host still sends |
| `ctrl_c` | violates `CtrlCLeaves` (1 session) | Ctrl+C at the prompt leaves the session open without a prompt |

Why these bounds are enough to be interesting: in `peers_internet` two slots and three
addresses make the room full with a peer left over; two keys let one session take
the address another one had; two punch threads make one of them outlive the dict it
was started for; three dicts allow one in the table, one in hand and one still
referenced by a thread that is late. In `peers_lan` one slot is contended for by both
loops while its dict is in the hands of either. In `peers_live` a dict moves between
two addresses, with a punch thread for each; peers come by beacons and are connected
by PUNCH_ACK there, and by PUNCH in the other two runs. In `storage` three messages
exceed the cap in one room and leave another room untouched. In `delivery` three
recipients tell `partial` from `ok` and `fail`; the tracker, the timer and the acks of
one message touch those of no other, which the theorems say for any number. In
`profile` the dict of the peer moves between two addresses while a third dict may
take the place it left. In `room` the second session of the guest meets the packets
and the host's entry of the first one, and one slot makes the room full. In
`lifecycle` the threads the first session leaves behind run through all of the
second. In `panel` three addresses for two slots let a move lose its slot.

`Symmetry` is used in safety runs only, and leaves out the dialled address.
`View` of `MCPeerTable` and of `MCProfileSync` hides the contents of dicts that no
thread can reach: no guard, action or property reads them, and a dict is given its
contents when it is used anew, so states that agree on the view have the same
future. `View` of `MCStorage` hides the tables of a transaction that is over. `View`
of `MCRoom` hides packets nobody can read any more, the code and the beacons of a
node that is in no session, beacons of other codes than the guest's, and of the
history everything but whether `CodeNeeded` is satisfied so far. Whether a room was
closed or its host vanished is hidden too, since only `ClosingReachesAll` asks.

What `GuestMeetsHost` asks: a guest of which nothing older was under way and that has
the current code is in the end connected, and the host, if it lists the guest, is
connected to it with the key of this session and not of an earlier one. The way out
through a full room counts only if others than this guest fill it. `CodeNeeded` asks
that a guest, of which nothing older was under way, be connected only with a code the
host has had since the guest began. What is weaker in it than in the docs is shown
by `wrong_code` and by `new_code`, below.

### Fairness

`PeerTable` assumes that threads are scheduled: a handler begun is carried through, a
punch thread reaches its deadline, and the discovery loop, whose own socket times out
(`session.py:581`), comes back to its test of `done`. It is strong fairness because a
thread may have to wait for `_peers_lock`, which the others leave again and again.
Nothing is assumed of a receive loop at `recvfrom`: its timeout (677) is that of the
socket all sessions share, and a loop of an earlier session that ends late takes it
off (950). So `ThreadsEnd` is about the discovery and the punch threads, and
`Lifecycle`, where the socket and its timeout are, shows that the main thread gets
back to the menu all the same (`SessionReturns`).

`Delivery` assumes that a send begun is carried through and that timers fire.
`Lifecycle` assumes that the main thread, the handler and the receive loops go on,
except at a `recvfrom` that blocks, and that an input thread comes to its prompt; a
packet, a signal, a key or a failing disk is never owed.

`Room` assumes that the host's loop and a guest's discovery and punch threads turn,
and strong fairness for what is sent again and again by the sessions that are on: one
of the guest's punches, and one of the answers to them, arrives in the end. It assumes
that a handler that has sent its answer goes on to `MarkConnected`, and does not for
ever take longer than the host's deadline (`MarkListed`), which is seconds. Nothing is
assumed of packets sent once or by an earlier session, or of the users.
`QuietSpec` is the part of `FairSpec` in which nobody leaves, so that `room_mesh`
fails for the discovery alone.

### Disagreements with the code's own text

The three violating runs are described in `PROJECT.json` with the lines quoted. The
following configurations are kept beside them; in each TLC finds the property
violated too, in a few seconds (`profile_rekeyed.cfg`, the one exception, passes: it
checks `ProfileSent` with two sessions at one address).

| Configuration | Violates | What the code does | What is contradicted |
|---|---|---|---|
| `deadline_race.cfg` | `DeadlineSparesConnected` (`PeerTable`) | 427 tests `connected` under the lock, 754 sets it outside: a handshake completed in between is announced and its peer removed | `session.py:424`: "Remove a peer that never completed the handshake, freeing its slot." |
| `indicator_row.cfg` | `IndicatorIsOwn` (`Delivery`) | the verdict is written at row `rows - 5` whenever it comes (`ui.py:590`, 618-627): after one more line, on another message | `ui.py:573-574`: "The updater uses absolute row positioning to overwrite the indicator. If the message has scrolled out of the scroll region the update is a no-op." |
| `motd_moved.cfg` | `JoinersTold` (`ProfileSync`) | a dict moved by the discovery loop (655, 404) while its handshake completes (754) is connected without a box; 505 leaves it out | `README.md:69`: the message of the day is "shown to every peer on join" |
| `motd_rejoin.cfg` | `RejoinersTold` (`ProfileSync`) | a new session at the address of one that is still connected is not greeted (753) | the same |
| `new_code.cfg` | `NewJoinersNeedNewCode` (`Room`) | the handshake carries no code: who heard a beacon of the old one gets a slot after `/passcode` (737) | `session.py:1297`: "Passcode changed. New joiners need the new code." |
| `room_close.cfg` | `ClosingReachesAll` (`Room`) | a `/close` between the answer (748) and `connected.set()` (754) leaves out the guest that answer connects (505) | `README.md:92`: "Close the room, force-disconnecting all peers immediately." |
| `room_mesh.cfg` | `JoinersMeet` (`Room`) | only a host sends beacons (589): guests of one host never meet | `README.md:59`: "new peers join automatically without interrupting the chat" |
| `history_raw.cfg` | `HistoryCooked` (`Lifecycle`) | the input thread of a session its host ended still reads in raw mode (988) while the next one prints the history | `session.py:257-258`: "Start send thread AFTER history is printed so tty.setraw doesn't race with print_history" |

`wrong_code` has the longer story: the host's punch thread for a guest that has gone
goes on for seconds, the handshake checks no code, and so the next session at that
address is connected with whatever passcode it was started with, also one the room
never had (724, 742). `README.md:59` says "Locked rooms (🔒) require a passcode.", and
1297 that new joiners need the new one.

Other races of the same kind that the models reach, for which we have found no
text that promises the contrary:

- An ack that comes before its tracker is registered is dropped (1357-1373), and
  the message gets the verdict failed or partial. `AckDroppedOnlyEarly` says, and
  `DeliveryProofs` proves, that this window is the only one.
- `/mute` misses a dict that is out of the table for a move (957).
- The punch deadline may remove an entry between the fetch and `connected.set()`,
  and a peer is announced that is not in the table (754).
- `_add_peer` may refuse the dict a move has taken out (734), which is lost.
- The old name may be sent after the new one (519).
- A KICK, BAN, DISCONNECT or ROOM_CLOSED that is lost leaves the two sides in
  disagreement on who is in the room (346).
- SIGINT while the main thread prints the history stops the process (446).
- A `k` or `B` typed into a message while a peer is selected acts on it (1083).
- Two clients that find no key both insert one (`db.py:109`); the second gets an
  `IntegrityError` (in `Storage` it goes to `failed`).

## 4. The proofs

`PeerTableProofs` proves for every finite set of addresses, every `MaxPeers`
of at least 2 and any sets of keys, dicts, threads and discovery ids, from
`ConstantsAssumption` alone:

| Theorem | Statement |
|---|---|
| `TypeCorrect` | `Spec => []TypeOK` |
| `CapacityHolds` | `Spec => []RoomCapacity` |
| `OnePlaceHolds` | `Spec => []EntryInOnePlace` |
| `IndexHolds` | `Spec => []BoxIndexed` |
| `OneSlotHolds` | `Spec => []OneSlotPerKey` |
| `RosterKept` | `Spec => KeepsRoster` |

The argument goes in layers. `TypeOK` is inductive by itself, because it says
which locals a thread has at each place of its code; without that, a dict or
an address a thread works on could be `None`. `RoomCapacity` is inductive given
`TypeOK`: only `AddPeer` and the migration in `BuildBox` put a dict under an
address, the first makes its own test under the lock, and the second frees an
address in the same step, so that the stale `full` of the callers does not
matter. `EntryInOnePlace` is inductive given `TypeOK`: a dict in a thread's
hands is in no other place, and a fresh dict is one no thread reaches.
`OneSlotPerKey` is not inductive: to know that `BuildBox` leaves no second dict
with the key, one has to know that the index finds the first. `BoxIndexed` says
so, and is inductive given the two before; `OneSlotPerKey` follows from it, as
one key has one indexed address. `RosterKept` maps each step of each thread to one
of `Roster` or to a stutter. It needs all three: a dict put under an address is in
no other place (`EntryInOnePlace`), so that connecting it, which happens outside the
lock, changes the status of one address; and the slot it takes is free
(`RoomCapacity`). That nothing is tested and removed in one step makes no difference
to it: a slot may be left in any status.

`DeliveryProofs` proves for every set of messages and peers and every number of
moves, from `DeliveryAssumption` alone:

| Theorem | Statement |
|---|---|
| `TypeCorrect` | `Spec => []TypeOK` |
| `DoneMatches` | `Spec => []DoneMatchesStatus` |
| `OkHolds` | `Spec => []OkMeansReceived` |
| `DroppedEarly` | `Spec => AckDroppedOnlyEarly` |
| `PromiseKept` | `Spec => KeepsPromise` |

None of the invariants is inductive by itself. `TrackInv` says which stages of a
message's life, its tracker, its timer and the input thread can be in together:
without it a timer could strike a message whose tracker is still to be made.
`AckInv` follows a packet: what is in `chat` went to a target, what is in `acks`
came from a target that has the message, and an address that is no longer
pending has it. `OkMeansReceived` follows, because the verdict is "ok" only with an
empty pending set. For `DroppedEarly`, the ack in hand proves that the message
was sent, and a message that was sent is registered or still with the sender.
`PromiseKept` maps `Snapshot` to `Address`, `PrintPending` to `Await`,
`Deliver` to `Arrive`, the steps that make a tracker done to `Resolve`, and every
other step to a stutter; both invariants are needed for the guards of `Resolve`.
All of this is about the verdict. On which line it is written is no part of it.

`LifecycleProofs` proves for any number of sessions, from `LifecycleAssumption`:

| Theorem | Statement |
|---|---|
| `TypeCorrect` | `Spec => []TypeOK` |
| `HandlerHolds` | `Spec => []HandlerBelongs` |
| `PanelHolds` | `Spec => []PanelClosed` |
| `HandshakeHolds` | `Spec => []RoomNeedsHandshake` |

`HandlerInv` adds to `HandlerBelongs` that the handler a session found is always
Python's default (`prev = 0`), which every way out of `__init__` puts back.
`PanelInv` says where the scroll region is clear, also after a signal handler has
closed the panel in the middle of its opening: while the main thread is before
it or past it, and in a running session once `_panel_disabled` is set.
`WaitInv` is why a ban opens no room: a receive loop that is about to set `first` for
a ban has set `done` before (`BarInv`), nothing unsets `done`, a loop that has begun
is of a session that was opened (`BegunInv`), and so a session with `first` set and
nobody met is over (`FirstInv`).

`ProfileSyncProofs` proves for any number of addresses, sessions and dicts and any
profiles, from `ProfileAssumption`:

| Theorem | Statement |
|---|---|
| `TypeCorrect` | `Spec => []TypeOK` |
| `ProfileHolds` | `Spec => []ProfileSent` |

`Account` says who covers what a greeted peer is still owed (`Settled`): the receive
thread that greets it (`GreetingCovers`), or the input thread that announces a change
(`BroadcastCovers`). It is inductive because of the order of two accesses in each
thread. A change is made before the list of targets is taken, and the greeting
reads the profile after `connected.set()`; so the input thread finds the peer
connected, or the receive thread reads the new value. A dict that is moved, removed
or given another box is no longer greeted where it is (`AddPeerGreets`), so the steps
of the other threads take peers away from what the account covers and add none.

`StorageProofs` proves for every set of clients, rooms, names and keys, every cap
and any number of rows, from `StorageAssumption`:

| Theorem | Statement |
|---|---|
| `TypeCorrect` | `Spec => []TypeOK` |
| `LogBounded` | `Spec => []RoomLogBounded` |
| `PasscodesHold` | `Spec => []PasscodesReadable` |
| `OnePresetHolds` | `Spec => []OnePresetPerName` |
| `PresetKept` | `Spec => SavedPresetKept` |
| `HistoryKept` | `Spec => KeepsHistory` |

`StorageInv` adds to these properties what the draft of the open transaction is at
each of its steps, in terms of what is committed (`DraftInv`), which arguments the
client has there (`ArgsInv`), and that row ids are unique and none is above the
last one handed out (`RowsInv`). `HistoryKept` maps `Commit` of a message to a
step of `HistoryLog` and everything else, a crash too, to a stutter: the message and the
pruning of its room become visible together. What the appended and capped room
looks like in order is the content of the lemmas `OrderOfAppend`, `OrderOfRest`,
`OrderOfCapped` and `RoomsOfCapped`; that a room has a first row comes from the
well-foundedness of `<` on the naturals.

`RoomProofs` proves for every number of guests and sessions, every set of codes and
every size of the room, from `RoomAssumption`:

| Theorem | Statement |
|---|---|
| `TypeCorrect` | `Spec => []TypeOK` |
| `CodeHolds` | `Spec => []CodeNeeded` |

Here a variable is a function of the nodes and `net` is everything ever sent, so
the invariants are about what traces a contact leaves. `RoomInv` says who can know
whom, and with which key: guests know only the host and are only known by it
(`TablesInv`, `ThreadsInv`), no key is from a session to come (`PacketsInv`), and who is
in no session has no table (`IdleInv`); the types follow. `CodeInv`: once there is any
trace of a contact between the host and a guest of which nothing older was under way
(`Contact`), the guest's code is one the host has had since the guest began. Every trace
but a beacon heard answers an earlier one, and a beacon is heard only by its code,
which the host has had (`CodesInv`). For the other guests it fails, for the reason in
section 3.

`PanelProofs` proves for every finite set of addresses and every number of slots,
from `PanelAssumption`:

| Theorem | Statement |
|---|---|
| `TypeCorrect` | `Spec => []TypeOK` |
| `BarShown` | `Spec => []BarCurrent` |
| `KicksRight` | `Spec => KicksHighlighted` |

`BarInv` says what the bar, or the picture in the hands of the thread that paints
it, agrees with while no other paint is owed (`Owed`), apart from the addresses of
a move that is in progress and of dicts that were dropped (`Exempt`). It is inductive
because every change of who is connected leaves its thread owing a paint, and a
thread that paints reads the table only after it got `print_lock`. `HighlightInv` says that
the selected name is the one that `tab` selects in the bar as painted; a key can
then be compared with what the user saw. `EveryPlace`, a list has exactly one
address at each place up to its size, makes the selection well-defined.

Only model-checked: liveness (`UnconnectedSlotFreed`, `ThreadsEnd`,
`EveryMessageResolved`, `GuestMeetsHost`, `BannedTurnedAway`, `SessionReturns`,
`GuestWaitEnds`, `BannedLeaves`), which is outside the prover's reach. Every
invariant and every action property of the passing runs, and the three
refinements, are proved.

## 5. Not modelled

- `stun.py`: one request and one parse, by one thread at the start, no state.
- `config.py`: one JSON file, one writer.
- `ui.py` beyond the bar, the scroll region and the indicator: layout, colour, sound.
- The edited text and the suggestion rows of `_readline_styled`.
- The settings table of `db.py`: an upsert of one row.
- `lan_discover`, which the client does not call; Internet mode between real
  nodes (`PeerTable` has it from one node's side, over an open network).
- What the receiving side of META, NICK and MOTD stores: an assignment each.
- The cryptography (a box is the key it was made with), and the encodings.

## 6. Plan

Modelled are the table every other part relies on, what the user sees of it
(delivery, profile, panel), the room of several processes, the process around
the sessions, and the storage. What is left, in this order:

1. A room in Internet mode between real nodes, each dialling all others, in the
   manner of `Room`; `PeerTable` has it from one side.
2. The input thread of a session that is over, as it reads and puts back the mode
   of a terminal the next session uses: what can be promised of it.
3. The walk over the attributes of a STUN answer as a function over bounded
   inputs, if `stun.py` grows beyond one request.
