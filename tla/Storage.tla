------------------------------ MODULE Storage ------------------------------
(***************************************************************************)
(* The SQLite file (src/db.py): the rolling message log and the room       *)
(* presets with their encryption key, used by several clients at once: the *)
(* receive and input threads of a session, and other sessions on the same  *)
(* machine.  Every call opens its own connection.  What SQLite does is     *)
(* external: the first write of a transaction takes the write lock, what   *)
(* it wrote is seen by others at the commit, a lock that is not free in    *)
(* time is an OperationalError, and a client that dies in a transaction    *)
(* leaves nothing of it.                                                   *)
(***************************************************************************)
EXTENDS Naturals, FiniteSets, Sequences

CONSTANTS
    Clients,     \* the threads and processes using the file
    Rooms, Bodies,
    Names,       \* preset names
    SecretKeys,  \* what the random generator may draw as enc_key
    Limit,       \* MSG_LOG_LIMIT
    MaxRows,     \* bound: messages ever logged
    MaxPresets,  \* bound: presets ever inserted
    None

ASSUME StorageAssumption ==
    /\ Limit \in Nat \ {0} /\ MaxRows \in Nat /\ MaxPresets \in Nat
    /\ None \notin Clients /\ None \notin SecretKeys /\ None \notin Names

VARIABLES
    db,      \* what is committed
    draft,   \* the tables as the open write transaction sees them
    lock,    \* the client with the open write transaction
    client   \* where each client is, and its arguments

vars == <<db, draft, lock, client>>

Row == [id : 1..MaxRows, room : Rooms, body : Bodies]
Preset == [id : 1..MaxPresets, name : Names, sealedWith : SecretKeys \cup {None}]
Tables == [rows : SUBSET Row, lastRow : 0..MaxRows,
           presets : SUBSET Preset, lastPreset : 0..MaxPresets,
           encKey : SecretKeys \cup {None}]

InTransaction == {"prune", "insertPreset", "commit"}
Waiting == {"insert", "makeKey", "delete"}

TypeOK ==
    /\ db \in Tables /\ draft \in Tables
    /\ lock \in Clients \cup {None}
    /\ client \in [Clients -> [pc : {"idle", "readKey", "failed"} \cup Waiting
                                       \cup InTransaction,
                               room : Rooms \cup {None}, body : Bodies \cup {None},
                               name : Names \cup {None},
                               key : SecretKeys \cup {None}, passcode : BOOLEAN]]
    /\ \A c \in Clients : client[c].pc \in InTransaction <=> lock = c

IdleClient == [pc |-> "idle", room |-> None, body |-> None, name |-> None,
               key |-> None, passcode |-> FALSE]

At(c, pc) == client[c].pc = pc
Goto(c, pc) == client' = [client EXCEPT ![c].pc = pc]

\* The first write of a transaction, on a copy of what is committed.
BeginWrite(c, tables) ==
    /\ lock = None
    /\ lock' = c
    /\ draft' = tables
    /\ UNCHANGED db

-----------------------------------------------------------------------------
(* The message log.                                                        *)

InRoom(rows, room) == {x \in rows : x.room = room}

\* ORDER BY id DESC LIMIT n.
NewestOffByOne(rows, n) ==
    {x \in rows : Cardinality({y \in rows : y.id > x.id}) <= n}
Oldest(rows, n) ==
    {x \in rows : Cardinality({y \in rows : y.id < x.id}) < n}
Newest(rows, n) ==
    {x \in rows : Cardinality({y \in rows : y.id > x.id}) < n}

\* ORDER BY id: the rows with k rows before them, of which there is one.
Ranked(rows, k) == {x \in rows : Cardinality({y \in rows : y.id < x.id}) = k}
TheRow(rows) == CHOOSE x \in rows : TRUE

\* load_history: the newest n rows of the room, oldest first.
History(rows, room, n) ==
    LET newest == Newest(InRoom(rows, room), n)
    IN [i \in 1..Cardinality(newest) |-> TheRow(Ranked(newest, i - 1)).body]

\* log_message for a named room ...
LogMessage(c, room, body) ==
    /\ At(c, "idle")
    /\ client' = [client EXCEPT ![c] = [IdleClient EXCEPT !.pc = "insert",
                                                          !.room = room, !.body = body]]
    /\ UNCHANGED <<db, draft, lock>>

\* ... inserts the message ...
InsertRow(c) ==
    /\ At(c, "insert")
    /\ db.lastRow < MaxRows
    /\ BeginWrite(c, [db EXCEPT !.lastRow = @ + 1,
                                !.rows = @ \cup {[id |-> db.lastRow + 1,
                                                  room |-> client[c].room,
                                                  body |-> client[c].body]}])
    /\ Goto(c, "prune")

\* ... and deletes what is beyond the cap of its room.
PruneRows(c) ==
    /\ At(c, "prune")
    /\ LET own == InRoom(draft.rows, client[c].room) IN
       draft' = [draft EXCEPT !.rows = (@ \ own) \cup Newest(own, Limit)]
    /\ Goto(c, "commit")
    /\ UNCHANGED <<db, lock>>

CommitKeepsLock(c) ==
    /\ At(c, "commit")
    /\ db' = draft
    /\ client' = [client EXCEPT ![c] = IdleClient]
    /\ UNCHANGED <<draft, lock>>

\* The commit that ends log_message and save_room_preset.
Commit(c) ==
    /\ At(c, "commit")
    /\ db' = draft
    /\ lock' = None
    /\ client' = [client EXCEPT ![c] = IdleClient]
    /\ UNCHANGED draft

-----------------------------------------------------------------------------
(* Room presets.                                                           *)

\* save_room_preset, with or without a passcode.
SavePreset(c, name, passcode) ==
    /\ At(c, "idle")
    /\ client' = [client EXCEPT ![c] = [IdleClient EXCEPT !.pc = "readKey", !.name = name,
                                                          !.passcode = passcode]]
    /\ UNCHANGED <<db, draft, lock>>

\* load_room_presets, which needs the key as well.
LoadPresets(c) ==
    /\ At(c, "idle")
    /\ client' = [client EXCEPT ![c] = [IdleClient EXCEPT !.pc = "readKey"]]
    /\ UNCHANGED <<db, draft, lock>>

\* What a client does with the box: a load reads the presets and is done.
WithBox(c, k) ==
    IF client[c].name = None THEN IdleClient
    ELSE [client[c] EXCEPT !.pc = "delete", !.key = k]

\* _get_box: read the key ...
ReadKey(c) ==
    /\ At(c, "readKey")
    /\ client' = [client EXCEPT ![c] = IF db.encKey = None THEN [@ EXCEPT !.pc = "makeKey"]
                                       ELSE WithBox(c, db.encKey)]
    /\ UNCHANGED <<db, draft, lock>>

MakeKeyReplacing(c, k) ==
    /\ At(c, "makeKey") /\ lock = None
    /\ db' = [db EXCEPT !.encKey = k]
    /\ client' = [client EXCEPT ![c] = WithBox(c, k)]
    /\ UNCHANGED <<draft, lock>>

\* ... and, if there was none, draw one, insert it and commit.  The key
\* column is the primary key: a second insert is an IntegrityError.
MakeKey(c, k) ==
    /\ At(c, "makeKey") /\ lock = None
    /\ IF db.encKey = None
       THEN /\ db' = [db EXCEPT !.encKey = k]
            /\ client' = [client EXCEPT ![c] = WithBox(c, k)]
       ELSE /\ Goto(c, "failed")
            /\ UNCHANGED db
    /\ UNCHANGED <<draft, lock>>

WithoutNobody(presets, name) == presets
Without(presets, name) == {x \in presets : x.name # name}

DeleteOldCommitted(c) ==
    /\ At(c, "delete") /\ lock = None
    /\ db' = [db EXCEPT !.presets = Without(@, client[c].name)]
    /\ draft' = db'
    /\ lock' = c
    /\ Goto(c, "insertPreset")

\* Replace the preset of that name: delete the old row, insert the new one.
DeleteOld(c) ==
    /\ At(c, "delete")
    /\ BeginWrite(c, [db EXCEPT !.presets = Without(@, client[c].name)])
    /\ Goto(c, "insertPreset")

InsertPreset(c) ==
    /\ At(c, "insertPreset")
    /\ draft.lastPreset < MaxPresets
    /\ draft' = [draft EXCEPT !.lastPreset = @ + 1,
                              !.presets = @ \cup {[id |-> draft.lastPreset + 1,
                                                   name |-> client[c].name,
                                                   sealedWith |-> IF client[c].passcode
                                                                  THEN client[c].key
                                                                  ELSE None]}]
    /\ Goto(c, "commit")
    /\ UNCHANGED <<db, lock>>

\* delete_room_preset and wipe_room_presets: one statement and its commit.
DeletePresets(c, gone) ==
    /\ At(c, "idle") /\ lock = None
    /\ \/ gone = db.presets
       \/ \E x \in db.presets : gone = {x}
    /\ db' = [db EXCEPT !.presets = @ \ gone]
    /\ UNCHANGED <<draft, lock, client>>

-----------------------------------------------------------------------------
(* Errors and crashes.                                                     *)

\* The write lock is not free within SQLite's busy timeout: an exception no
\* caller catches.
Busy(c) ==
    /\ client[c].pc \in Waiting
    /\ lock # None
    /\ Goto(c, "failed")
    /\ UNCHANGED <<db, draft, lock>>

\* The client dies and is started again; its open transaction is rolled back.
Crash(c) ==
    /\ ~At(c, "idle")
    /\ client' = [client EXCEPT ![c] = IdleClient]
    /\ lock' = IF lock = c THEN None ELSE lock
    /\ UNCHANGED <<db, draft>>

-----------------------------------------------------------------------------
EmptyTables == [rows |-> {}, lastRow |-> 0, presets |-> {}, lastPreset |-> 0,
                encKey |-> None]

Init ==
    /\ db = EmptyTables /\ draft = EmptyTables
    /\ lock = None
    /\ client = [c \in Clients |-> IdleClient]

Next ==
    \E c \in Clients :
        \/ \E room \in Rooms, body \in Bodies : LogMessage(c, room, body)
        \/ InsertRow(c) \/ PruneRows(c) \/ Commit(c)
        \/ \E name \in Names, passcode \in BOOLEAN : SavePreset(c, name, passcode)
        \/ LoadPresets(c) \/ ReadKey(c)
        \/ \E k \in SecretKeys : MakeKey(c, k)
        \/ DeleteOld(c) \/ InsertPreset(c)
        \/ \E gone \in SUBSET db.presets : DeletePresets(c, gone)
        \/ Busy(c) \/ Crash(c)

Spec == Init /\ [][Next]_vars

-----------------------------------------------------------------------------
(* Properties.                                                             *)

\* No committed log holds more than Limit messages of a room.
RoomLogBounded ==
    \A room \in Rooms : Cardinality(InRoom(db.rows, room)) <= Limit

\* The history shown for a room is its last Limit messages, in order, and
\* every committed message is one of them at first.
Promise == INSTANCE HistoryLog WITH
    log <- [room \in Rooms |-> History(db.rows, room, Limit)],
    logged <- db.lastRow

KeepsHistory == Promise!Spec

\* Every stored passcode can be decrypted with the stored key, although two
\* clients may make the key at the same time.
PasscodesReadable ==
    \A x \in db.presets : x.sealedWith \in {None, db.encKey}

\* A name has one preset.
OnePresetPerName ==
    \A x, y \in db.presets : x.name = y.name => x = y

\* Saving a preset anew never loses it, even if the client dies between the
\* delete and the insert.
SavedPresetKept ==
    [][client' # client =>
          {x.name : x \in db.presets} \subseteq {x.name : x \in db'.presets}]_vars

=============================================================================
