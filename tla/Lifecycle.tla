----------------------------- MODULE Lifecycle -----------------------------
(***************************************************************************)
(* One process of p2p_chat from session to session (src/session.py:        *)
(* UDPClient.__init__, _handle_sigint, the frames of _recv_loop and        *)
(* _send_loop; src/client.py: the menu).  The main thread runs one session *)
(* after the other on one socket, one terminal and one SIGINT handler; the *)
(* receive and input threads of a session are daemons that may outlive it. *)
(*                                                                         *)
(* SIGINT runs on the main thread, between any two of its steps: while a   *)
(* handler is in progress (sig) the main thread does nothing else.  What   *)
(* the network, the user and the disk do is free.                          *)
(***************************************************************************)
EXTENDS Naturals

CONSTANTS MaxSessions  \* bound: sessions one process runs

ASSUME LifecycleAssumption == MaxSessions \in Nat \ {0}

Sessions == 1..MaxSessions

VARIABLES
    main,       \* where the main thread is
    cur,        \* the session it runs, or ran last
    role,       \* LAN host (waits for ever) or any other session
    first,      \* the event _first_connected
    met,        \* history: a peer has shaken hands with this session
    prev,       \* _prev_sigint
    disabled,   \* _panel_disabled
    done,       \* the event done of each session
    recv,       \* each receive loop: its place and the packet in hand
    timed,      \* the socket has a timeout
    handler,    \* the session that handles SIGINT, 0 for Python's default
    sig,        \* the signal handler in progress
    region,     \* the scroll region leaves room for the panel
    input,      \* each input thread
    tty,        \* mode of the terminal
    saved       \* the mode each _readline_styled puts back

vars == <<main, cur, role, first, met, prev, disabled, done, recv, timed, handler, sig,
          region, input, tty, saved>>
joining == <<first, met>>
threads == <<done, joining, recv, timed>>
screen  == <<region, disabled>>
keys    == <<input, tty, saved>>
signals == <<handler, prev, sig>>

InSession == {"wait", "connected", "history", "opened", "run", "join"}

TypeOK ==
    /\ main \in InSession \cup {"menu", "exited"}
    /\ cur \in 0..MaxSessions /\ (main \in InSession => cur # 0)
    /\ role \in {"host", "guest"} /\ prev \in 0..MaxSessions
    /\ first \in BOOLEAN /\ met \in BOOLEAN /\ disabled \in BOOLEAN
    /\ done \in [Sessions -> BOOLEAN]
    /\ recv \in [Sessions ->
           [pc : {"none", "start", "check", "timed", "blocking", "mark", "print",
                  "bar", "unblock", "close", "ended", "dead"},
            packet : {"none", "other", "end", "ban"}]]
    /\ timed \in BOOLEAN
    /\ handler \in 0..MaxSessions
    /\ sig \in {"none", "print", "set"}
    /\ (sig # "none" => main \in InSession /\ handler = cur)
    /\ region \in BOOLEAN
    /\ input \in [Sessions -> {"none", "idle", "reading", "ended"}]
    /\ tty \in {"cooked", "raw"} /\ saved \in [Sessions -> {"cooked", "raw"}]

-----------------------------------------------------------------------------
(* The main thread.                                                        *)

\* print_lock is held for long only by the main thread while it draws the
\* panel and reads the history; every other holder is one step.
LockFree == main # "history"

\* ui.enable_statusbar sets the scroll region, ui.disable_statusbar clears it.
OpenPanel == region' = TRUE
ClosePanel == region' = FALSE

AtAnyTime(p) == main = p

\* The main thread is at p, and no signal handler has interrupted it.
At(p) == main = p /\ sig = "none"

\* A choice in the menu makes the next UDPClient: its handler is installed and
\* its receive thread started.
Open(r) ==
    /\ At("menu") /\ cur < MaxSessions
    /\ cur' = cur + 1
    /\ role' = r /\ first' = FALSE /\ met' = FALSE /\ disabled' = FALSE
    /\ prev' = handler
    /\ handler' = cur'
    /\ recv' = [recv EXCEPT ![cur'].pc = "start"]
    /\ main' = "wait"
    /\ UNCHANGED <<done, timed, sig, region, keys>>

KeepHandler == UNCHANGED handler

\* Every way out of __init__ puts back the handler it found.
Restore == handler' = prev

WaitTimeoutSwapped ==
    /\ At("wait") /\ role = "host" /\ ~first
    /\ done' = [done EXCEPT ![cur] = TRUE]
    /\ Restore
    /\ main' = "menu"
    /\ UNCHANGED <<cur, role, joining, recv, timed, prev, sig, screen, keys>>

\* Nobody answered within PUNCH_TIMEOUT.  A LAN host waits for ever.
WaitTimeout ==
    /\ At("wait") /\ role = "guest" /\ ~first
    /\ done' = [done EXCEPT ![cur] = TRUE]
    /\ Restore
    /\ main' = "menu"
    /\ UNCHANGED <<cur, role, joining, recv, timed, prev, sig, screen, keys>>

\* The wait is over, by a handshake or by a ban.
Connected ==
    /\ At("wait") /\ first
    /\ IF done[cur] THEN Restore /\ main' = "menu"
       ELSE main' = "connected" /\ UNCHANGED handler
    /\ UNCHANGED <<cur, role, threads, prev, sig, screen, keys>>

\* enable_statusbar, then the history, under print_lock.
EnablePanel ==
    /\ At("connected")
    /\ OpenPanel
    /\ main' = "history"
    /\ UNCHANGED <<cur, role, threads, signals, disabled, keys>>

ShowHistory ==
    /\ At("history")
    /\ main' = "opened"
    /\ UNCHANGED <<cur, role, threads, signals, screen, keys>>

StartInputKeepsFlag ==
    /\ At("opened")
    /\ input' = [input EXCEPT ![cur] = "idle"]
    /\ main' = "run"
    /\ UNCHANGED <<cur, role, threads, signals, screen, tty, saved>>

\* The panel is from now on the main thread's to close.
StartInput ==
    /\ At("opened")
    /\ disabled' = FALSE
    /\ input' = [input EXCEPT ![cur] = "idle"]
    /\ main' = "run"
    /\ UNCHANGED <<cur, role, threads, signals, region, tty, saved>>

\* done.wait() returns.
CloseSession ==
    /\ At("run") /\ done[cur]
    /\ IF disabled THEN UNCHANGED region ELSE ClosePanel
    /\ Restore
    /\ main' = "join"
    /\ UNCHANGED <<cur, role, threads, prev, sig, disabled, keys>>

JoinForEver ==
    /\ At("join") /\ recv[cur].pc \in {"ended", "dead"}
    /\ main' = "menu"
    /\ UNCHANGED <<cur, role, threads, signals, screen, keys>>

\* The receive thread has ended, or the two seconds are over.
Join ==
    /\ At("join")
    /\ main' = "menu"
    /\ UNCHANGED <<cur, role, threads, signals, screen, keys>>

-----------------------------------------------------------------------------
(* SIGINT.                                                                 *)

\* Ctrl+C makes a signal while the terminal is not raw.  Python's own handler
\* raises KeyboardInterrupt, which ends the program from the menu and from
\* join; the handler of a session that is over calls sys.exit.
Signal ==
    /\ tty = "cooked" /\ sig = "none" /\ main # "exited"
    /\ IF handler = 0 \/ (handler # 0 /\ done[handler])
       THEN main' = "exited" /\ UNCHANGED sig
       ELSE sig' = "print" /\ UNCHANGED main
    /\ UNCHANGED <<cur, role, threads, handler, prev, screen, keys>>

\* _handle_sigint, from its test of done on: the panel goes under print_lock,
\* which is not reentrant.
HandlerPrint ==
    /\ sig = "print" /\ LockFree
    /\ ClosePanel
    /\ disabled' = TRUE
    /\ sig' = "set"
    /\ UNCHANGED <<main, cur, role, threads, handler, prev, keys>>

HandlerSet ==
    /\ sig = "set"
    /\ done' = [done EXCEPT ![handler] = TRUE]
    /\ sig' = "none"
    /\ UNCHANGED <<main, cur, role, joining, recv, timed, handler, prev, screen, keys>>

-----------------------------------------------------------------------------
(* The receive loop of session s.                                          *)

RecvUnchanged == UNCHANGED <<main, cur, role, signals, screen, keys>>

\* _first_connected.set(), which only the main thread of that session reads.
SetFirst(s) == first' = (first \/ s = cur)

RecvGo(s, to) == recv' = [recv EXCEPT ![s].pc = to]

\* The timeout is the socket's, not the loop's.
RecvStart(s) ==
    /\ recv[s].pc = "start"
    /\ timed' = TRUE
    /\ RecvGo(s, "check")
    /\ RecvUnchanged /\ UNCHANGED <<done, joining>>

\* The test of done, and the call of recvfrom with the timeout of that moment.
RecvCheck(s) ==
    /\ recv[s].pc = "check"
    /\ RecvGo(s, IF done[s] THEN "close" ELSE IF timed THEN "timed" ELSE "blocking")
    /\ RecvUnchanged /\ UNCHANGED <<done, joining, timed>>

RecvTimeout(s) ==
    /\ recv[s].pc = "timed"
    /\ RecvGo(s, "check")
    /\ RecvUnchanged /\ UNCHANGED <<done, joining, timed>>

\* The first PUNCH or PUNCH_ACK of a peer.
RecvPunch(s) ==
    /\ recv[s].pc \in {"timed", "blocking"}
    /\ recv' = [recv EXCEPT ![s] = [pc |-> "mark", packet |-> "other"]]
    /\ RecvUnchanged /\ UNCHANGED <<done, joining, timed>>

\* A datagram that is printed, one that ends the session (KICK, BAN,
\* ROOM_CLOSED), or PUNCH_BAN.
RecvPacket(s, p) ==
    /\ recv[s].pc \in {"timed", "blocking"}
    /\ recv' = [recv EXCEPT ![s] = [pc |-> "print", packet |-> p]]
    /\ RecvUnchanged /\ UNCHANGED <<done, joining, timed>>

\* OSError from the socket.
RecvError(s) ==
    /\ recv[s].pc \in {"timed", "blocking"}
    /\ done' = [done EXCEPT ![s] = TRUE]
    /\ RecvGo(s, "close")
    /\ RecvUnchanged /\ UNCHANGED <<joining, timed>>

RecvMark(s) ==
    /\ recv[s].pc = "mark"
    /\ SetFirst(s)
    /\ met' = (met \/ s = cur)
    /\ RecvGo(s, "print")
    /\ RecvUnchanged /\ UNCHANGED <<done, timed>>

Idle == [pc |-> "check", packet |-> "none"]

\* Printed and logged; a packet that ends the session then sets done.
RecvPrint(s) ==
    /\ recv[s].pc = "print" /\ LockFree
    /\ IF recv[s].packet = "ban" THEN RecvGo(s, "bar") /\ UNCHANGED done
       ELSE /\ recv' = [recv EXCEPT ![s] = Idle]
            /\ done' = [done EXCEPT ![s] = @ \/ recv[s].packet = "end"]
    /\ RecvUnchanged /\ UNCHANGED <<joining, timed>>

\* The database stays locked: the error of _log ends the thread.
RecvLogFails(s) ==
    /\ recv[s].pc = "print" /\ LockFree /\ recv[s].packet # "ban"
    /\ recv' = [recv EXCEPT ![s] = [pc |-> "dead", packet |-> "none"]]
    /\ RecvUnchanged /\ UNCHANGED <<done, joining, timed>>

RecvBarFirst(s) ==
    /\ recv[s].pc = "bar"
    /\ SetFirst(s)
    /\ RecvGo(s, "unblock")
    /\ RecvUnchanged /\ UNCHANGED <<done, met, timed>>

\* PUNCH_BAN: done first, so that the wait it ends does not open the room.
RecvBar(s) ==
    /\ recv[s].pc = "bar"
    /\ done' = [done EXCEPT ![s] = TRUE]
    /\ RecvGo(s, "unblock")
    /\ RecvUnchanged /\ UNCHANGED <<joining, timed>>

RecvUnblockForgets(s) ==
    /\ recv[s].pc = "unblock"
    /\ recv' = [recv EXCEPT ![s] = Idle]
    /\ RecvUnchanged /\ UNCHANGED <<done, joining, timed>>

\* The wait of __init__ ends.
RecvUnblock(s) ==
    /\ recv[s].pc = "unblock"
    /\ SetFirst(s)
    /\ recv' = [recv EXCEPT ![s] = Idle]
    /\ RecvUnchanged /\ UNCHANGED <<done, met, timed>>

\* The loop is left, and the socket blocks again.
RecvClose(s) ==
    /\ recv[s].pc = "close"
    /\ timed' = FALSE
    /\ RecvGo(s, "ended")
    /\ RecvUnchanged /\ UNCHANGED <<done, joining>>

-----------------------------------------------------------------------------
(* The input thread of session s.                                          *)

InputUnchanged == UNCHANGED <<main, cur, role, joining, recv, timed, signals, screen>>

\* The test of done; _readline_styled notes the mode and makes it raw.
Prompt(s) ==
    /\ input[s] = "idle"
    /\ IF done[s] THEN input' = [input EXCEPT ![s] = "ended"] /\ UNCHANGED <<tty, saved>>
       ELSE /\ input' = [input EXCEPT ![s] = "reading"]
            /\ saved' = [saved EXCEPT ![s] = tty]
            /\ tty' = "raw"
    /\ InputUnchanged /\ UNCHANGED done

\* The finally clause of _readline_styled.
GiveBack(s) == tty' = saved[s]

\* Enter: a message, or a command after which the loop goes on.
Line(s) ==
    /\ input[s] = "reading"
    /\ GiveBack(s)
    /\ input' = [input EXCEPT ![s] = IF done[s] THEN "ended" ELSE "idle"]
    /\ InputUnchanged /\ UNCHANGED <<done, saved>>

\* /exit, or /close of a host.
Leave(s) ==
    /\ input[s] = "reading" /\ ~done[s] /\ LockFree
    /\ GiveBack(s)
    /\ done' = [done EXCEPT ![s] = TRUE]
    /\ input' = [input EXCEPT ![s] = "ended"]
    /\ InputUnchanged /\ UNCHANGED saved

\* Ctrl+C or Ctrl+D in raw mode is a character.  It ends the thread, and a host
\* tells its guests that the room is closed.
InputInterrupt(s) ==
    /\ input[s] = "reading"
    /\ GiveBack(s)
    /\ input' = [input EXCEPT ![s] = "ended"]
    /\ InputUnchanged /\ UNCHANGED <<done, saved>>

-----------------------------------------------------------------------------
Init ==
    /\ main = "menu" /\ cur = 0
    /\ role = "guest" /\ first = FALSE /\ met = FALSE /\ prev = 0 /\ disabled = FALSE
    /\ done = [s \in Sessions |-> FALSE]
    /\ recv = [s \in Sessions |-> [pc |-> "none", packet |-> "none"]]
    /\ timed = FALSE
    /\ handler = 0 /\ sig = "none" /\ region = FALSE
    /\ input = [s \in Sessions |-> "none"]
    /\ tty = "cooked" /\ saved = [s \in Sessions |-> "cooked"]

MainStep == WaitTimeout \/ Connected \/ EnablePanel \/ ShowHistory \/ StartInput
            \/ CloseSession \/ Join

HandlerStep == HandlerPrint \/ HandlerSet

RecvStep(s) ==
    \/ RecvStart(s) \/ RecvCheck(s) \/ RecvTimeout(s) \/ RecvMark(s) \/ RecvPrint(s)
    \/ RecvLogFails(s) \/ RecvBar(s) \/ RecvUnblock(s) \/ RecvClose(s)

\* Daemon threads end with the process.
Next ==
    /\ main # "exited"
    /\ \/ \E r \in {"host", "guest"} : Open(r)
       \/ MainStep \/ HandlerStep \/ Signal
       \/ \E s \in Sessions :
             \/ RecvStep(s) \/ RecvPunch(s) \/ RecvError(s)
             \/ \E p \in {"other", "end", "ban"} : RecvPacket(s, p)
             \/ Prompt(s) \/ Line(s) \/ Leave(s) \/ InputInterrupt(s)

Spec == Init /\ [][Next]_vars

\* Threads are scheduled and timeouts elapse.  Nothing is assumed of packets,
\* signals or the user.
Fairness ==
    /\ WF_vars(MainStep) /\ WF_vars(HandlerStep)
    /\ \A s \in Sessions : WF_vars(RecvStep(s)) /\ WF_vars(Prompt(s))

FairSpec == Spec /\ Fairness

-----------------------------------------------------------------------------
(* Properties.                                                             *)

\* A signal is handled by the session the user is in, and by Python's default
\* in the menu, however the sessions before were left (lines 210 to 268).
HandlerBelongs ==
    /\ main = "menu" => handler = 0
    /\ main \in InSession \ {"join"} => handler = cur

\* The menu never finds the terminal with the scroll region of a session, be
\* the panel closed by the signal handler or by the main thread, and wherever
\* the signal interrupts the opening of the panel.
PanelClosed == main = "menu" => ~region

\* The chat opens for a handshake only: a wait that a ban ends does not open it,
\* although the same event ends both (lines 714, 715 and 242).
RoomNeedsHandshake ==
    main \in {"connected", "history", "opened", "run"} => met

\* However a session was ended, and whatever the sessions before have left on
\* the socket, the main thread gets back to the menu.
SessionReturns ==
    main = "run" /\ done[cur] ~> main \in {"menu", "exited"}

\* A session that does not wait for guests does not wait for ever.
GuestWaitEnds ==
    main = "wait" /\ role = "guest" ~> main # "wait"

\* Who is turned away by PUNCH_BAN while waiting gets back to the menu, a LAN host
\* included, whose wait has no timeout (line 715).
BannedLeaves ==
    main = "wait" /\ recv[cur].pc = "bar" /\ ~first
        ~> main \in {"menu", "exited"}

\* "Start send thread AFTER history is printed so tty.setraw doesn't race with
\* print_history": the terminal is not raw while a session shows the history.
HistoryCooked == main = "history" => tty = "cooked"

\* The hint row of the greeting: "Ctrl+C . leave / quit".  In raw mode Ctrl+C
\* is the character that ends the input thread of a session.
CtrlCLeaves ==
    main = "run" /\ input[cur] = "ended" ~> main \in {"menu", "exited"}

=============================================================================
