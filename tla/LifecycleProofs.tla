-------------------------- MODULE LifecycleProofs --------------------------
(***************************************************************************)
(* Proofs about Lifecycle, for every number of sessions.  TypeOK and       *)
(* HandlerBelongs need each other: a signal is handled by the session the  *)
(* main thread is in, since every session finds Python's default handler   *)
(* and puts it back (HandlerInv).  The panel and the wait for a handshake  *)
(* are then two inductive invariants of their own.                         *)
(***************************************************************************)
EXTENDS Lifecycle, TLAPS

\* Where the main thread is tells whose handler is installed.
HandlerInv ==
    /\ prev = 0
    /\ main \in {"menu", "join"} => handler = 0
    /\ main \in InSession \ {"join"} => handler = cur

\* The scroll region is set from EnablePanel on, until the signal handler or
\* CloseSession clears it; whoever does so first tells the other.
PanelInv ==
    /\ main \in {"menu", "wait", "connected", "join"} => ~region
    /\ main = "run" /\ disabled => ~region

\* Without a handshake the wait of a session is ended by a ban only, which has
\* set done before; and nothing unsets done.
BarInv == \A s \in Sessions : recv[s].pc = "unblock" => done[s]
BegunInv == \A s \in Sessions : recv[s].pc # "none" => s <= cur
FirstInv == main \in InSession /\ first /\ ~met => done[cur]

WaitInv == BarInv /\ BegunInv /\ FirstInv /\ RoomNeedsHandshake

-----------------------------------------------------------------------------
(* The handler.                                                            *)

\* The initial state is well-formed, and nobody handles SIGINT.
LEMMA InitHandler == Init => TypeOK /\ HandlerInv
<1>. SUFFICES ASSUME Init PROVE TypeOK /\ HandlerInv
  OBVIOUS
<1>. USE DEF Init
<1>1. /\ main \notin InSession /\ cur \in 0..MaxSessions
      /\ prev \in 0..MaxSessions /\ handler \in 0..MaxSessions
  BY LifecycleAssumption DEF InSession
<1>2. /\ done \in [Sessions -> BOOLEAN]
      /\ input \in [Sessions -> {"none", "idle", "reading", "ended"}]
      /\ saved \in [Sessions -> {"cooked", "raw"}]
  OBVIOUS
<1>3. recv \in [Sessions ->
           [pc : {"none", "start", "check", "timed", "blocking", "mark", "print",
                  "bar", "unblock", "close", "ended", "dead"},
            packet : {"none", "other", "end", "ban"}]]
  OBVIOUS
<1>. QED
  BY <1>1, <1>2, <1>3 DEF TypeOK, HandlerInv

\* Every step of the main thread and of the handler keeps the two together.
LEMMA MainHandler ==
    ASSUME TypeOK, HandlerInv,
           (\E r \in {"host", "guest"} : Open(r)) \/ MainStep \/ HandlerStep \/ Signal
    PROVE  TypeOK' /\ HandlerInv'
<1>. USE DEF TypeOK, HandlerInv, InSession, Sessions, At,
             threads, joining, screen, keys, signals
<1>1. CASE \E r \in {"host", "guest"} : Open(r)
  <2>1. PICK r \in {"host", "guest"} : Open(r)
    BY <1>1
  <2>2. cur' \in Sessions /\ cur' # 0 /\ cur' \in 0..MaxSessions
    BY <2>1, LifecycleAssumption DEF Open
  <2>3. recv' \in [Sessions ->
           [pc : {"none", "start", "check", "timed", "blocking", "mark", "print",
                  "bar", "unblock", "close", "ended", "dead"},
            packet : {"none", "other", "end", "ban"}]]
    BY <2>1, <2>2 DEF Open
  <2>. QED
    BY <2>1, <2>2, <2>3 DEF Open
<1>2. CASE WaitTimeout
  BY <1>2 DEF WaitTimeout, Restore
<1>3. CASE Connected
  BY <1>3 DEF Connected, Restore
<1>4. CASE EnablePanel
  BY <1>4 DEF EnablePanel, OpenPanel
<1>5. CASE ShowHistory
  BY <1>5 DEF ShowHistory
<1>6. CASE StartInput
  BY <1>6 DEF StartInput
<1>7. CASE CloseSession
  BY <1>7 DEF CloseSession, Restore, ClosePanel
<1>8. CASE Join
  BY <1>8 DEF Join
<1>9. CASE HandlerPrint
  BY <1>9 DEF HandlerPrint, ClosePanel
<1>10. CASE HandlerSet
  BY <1>10 DEF HandlerSet
<1>11. CASE Signal
  BY <1>11 DEF Signal
<1>. QED
  BY <1>1, <1>2, <1>3, <1>4, <1>5, <1>6, <1>7, <1>8, <1>9, <1>10, <1>11
     DEF MainStep, HandlerStep

\* The receive threads only touch their own place, done and the socket.
LEMMA RecvHandler ==
    ASSUME TypeOK, HandlerInv, NEW s \in Sessions,
           \/ RecvStep(s) \/ RecvPunch(s) \/ RecvError(s)
           \/ \E p \in {"other", "end", "ban"} : RecvPacket(s, p)
    PROVE  TypeOK' /\ HandlerInv'
<1>1. /\ RecvUnchanged
      /\ done' \in [Sessions -> BOOLEAN]
      /\ first' \in BOOLEAN /\ met' \in BOOLEAN /\ timed' \in BOOLEAN
      /\ recv' \in [Sessions ->
           [pc : {"none", "start", "check", "timed", "blocking", "mark", "print",
                  "bar", "unblock", "close", "ended", "dead"},
            packet : {"none", "other", "end", "ban"}]]
  <2>. USE DEF TypeOK, RecvGo, SetFirst, Idle, joining
  <2>1. CASE RecvStart(s)
    BY <2>1 DEF RecvStart
  <2>2. CASE RecvCheck(s)
    BY <2>2 DEF RecvCheck
  <2>3. CASE RecvTimeout(s)
    BY <2>3 DEF RecvTimeout
  <2>4. CASE RecvMark(s)
    BY <2>4 DEF RecvMark
  <2>5. CASE RecvPrint(s)
    <3>1. RecvUnchanged /\ first' = first /\ met' = met /\ timed' = timed
      BY <2>5 DEF RecvPrint
    <3>2. CASE recv[s].packet = "ban"
      BY <2>5, <3>1, <3>2 DEF RecvPrint
    <3>3. CASE recv[s].packet # "ban"
      <4>1. done' = [done EXCEPT ![s] = @ \/ recv[s].packet = "end"]
        BY <2>5, <3>3 DEF RecvPrint
      <4>2. (done[s] \/ recv[s].packet = "end") \in BOOLEAN
        OBVIOUS
      <4>3. done' \in [Sessions -> BOOLEAN]
        BY <4>1, <4>2, Zenon
      <4>. QED
        BY <2>5, <3>1, <3>3, <4>3 DEF RecvPrint
    <3>. QED
      BY <3>2, <3>3
  <2>6. CASE RecvLogFails(s)
    BY <2>6 DEF RecvLogFails
  <2>7. CASE RecvBar(s)
    BY <2>7 DEF RecvBar
  <2>8. CASE RecvUnblock(s)
    BY <2>8 DEF RecvUnblock
  <2>9. CASE RecvClose(s)
    BY <2>9 DEF RecvClose
  <2>10. CASE RecvPunch(s)
    BY <2>10 DEF RecvPunch
  <2>11. CASE RecvError(s)
    BY <2>11 DEF RecvError
  <2>12. CASE \E p \in {"other", "end", "ban"} : RecvPacket(s, p)
    BY <2>12 DEF RecvPacket
  <2>. QED
    BY <2>1, <2>2, <2>3, <2>4, <2>5, <2>6, <2>7, <2>8, <2>9, <2>10, <2>11, <2>12
       DEF RecvStep
<1>. QED
  BY <1>1 DEF RecvUnchanged, signals, screen, keys, TypeOK, HandlerInv

\* The input threads only touch their own place, done and the terminal.
LEMMA InputHandler ==
    ASSUME TypeOK, HandlerInv, NEW s \in Sessions,
           Prompt(s) \/ Line(s) \/ Leave(s) \/ InputInterrupt(s)
    PROVE  TypeOK' /\ HandlerInv'
<1>1. /\ InputUnchanged
      /\ done' \in [Sessions -> BOOLEAN]
      /\ input' \in [Sessions -> {"none", "idle", "reading", "ended"}]
      /\ tty' \in {"cooked", "raw"} /\ saved' \in [Sessions -> {"cooked", "raw"}]
  BY DEF TypeOK, Prompt, Line, Leave, InputInterrupt, GiveBack
<1>. QED
  BY <1>1 DEF InputUnchanged, joining, signals, screen, TypeOK, HandlerInv

\* A step is one of the three kinds.
LEMMA StepHandler ==
    ASSUME TypeOK, HandlerInv, [Next]_vars
    PROVE  TypeOK' /\ HandlerInv'
<1>1. CASE UNCHANGED vars
  BY <1>1 DEF vars, TypeOK, HandlerInv
<1>2. CASE Next
  BY <1>2, MainHandler, RecvHandler, InputHandler DEF Next
<1>. QED
  BY <1>1, <1>2

LEMMA HandlerAlways == Spec => [](TypeOK /\ HandlerInv)
BY InitHandler, StepHandler, PTL DEF Spec

\* A signal is handled by the session the user is in, and by Python's default
\* in the menu, however many sessions there were and however they were left.
THEOREM HandlerHolds == Spec => []HandlerBelongs
<1>1. HandlerInv => HandlerBelongs
  BY DEF HandlerInv, HandlerBelongs
<1>. QED
  BY <1>1, HandlerAlways, PTL

\* Every variable keeps its type, and a signal handler in progress belongs to
\* the session the main thread is in.
THEOREM TypeCorrect == Spec => []TypeOK
BY HandlerAlways, PTL

-----------------------------------------------------------------------------
(* The panel.                                                              *)

\* The panel is closed when the menu comes back, wherever signals strike.
THEOREM PanelHolds == Spec => []PanelClosed
<1>1. Init => PanelInv
  BY DEF Init, PanelInv
<1>2. ASSUME TypeOK, PanelInv, [Next]_vars
      PROVE  PanelInv'
  <2>. USE DEF TypeOK, PanelInv, InSession, At, screen
  <2>1. CASE MainStep
    BY <1>2, <2>1 DEF MainStep, WaitTimeout, Connected, EnablePanel, ShowHistory, StartInput,
                CloseSession, Join, ClosePanel
  <2>2. CASE HandlerStep
    BY <1>2, <2>2 DEF HandlerStep, HandlerPrint, HandlerSet, ClosePanel
  <2>3. CASE Signal \/ \E r \in {"host", "guest"} : Open(r)
    BY <1>2, <2>3 DEF Signal, Open
  <2>4. ASSUME NEW s \in Sessions,
               \/ RecvStep(s) \/ RecvPunch(s) \/ RecvError(s)
               \/ \E p \in {"other", "end", "ban"} : RecvPacket(s, p)
        PROVE  PanelInv'
    <3>1. RecvUnchanged
      BY <2>4 DEF RecvStep, RecvStart, RecvCheck, RecvTimeout, RecvMark, RecvPrint,
                  RecvLogFails, RecvBar, RecvUnblock, RecvClose, RecvPunch, RecvError,
                  RecvPacket
    <3>. QED
      BY <1>2, <3>1 DEF RecvUnchanged
  <2>5. ASSUME NEW s \in Sessions,
               Prompt(s) \/ Line(s) \/ Leave(s) \/ InputInterrupt(s)
        PROVE  PanelInv'
    BY <1>2, <2>5 DEF Prompt, Line, Leave, InputInterrupt, InputUnchanged
  <2>6. CASE UNCHANGED vars
    BY <1>2, <2>6 DEF vars
  <2>. QED
    BY <1>2, <2>1, <2>2, <2>3, <2>4, <2>5, <2>6 DEF Next
<1>3. PanelInv => PanelClosed
  BY DEF PanelInv, PanelClosed
<1>. QED
  BY <1>1, <1>2, <1>3, TypeCorrect, PTL DEF Spec

-----------------------------------------------------------------------------
(* The wait for a handshake.                                               *)

\* No receive loop has begun, and no session.
LEMMA InitWait == Init => WaitInv
BY LifecycleAssumption DEF Init, WaitInv, BarInv, BegunInv, FirstInv,
    RoomNeedsHandshake, InSession, Sessions

\* A new session has a receive loop that has read nothing.
LEMMA MainWait ==
    ASSUME TypeOK, WaitInv,
           (\E r \in {"host", "guest"} : Open(r)) \/ MainStep \/ HandlerStep \/ Signal
    PROVE  WaitInv'
<1>. USE DEF TypeOK, WaitInv, BarInv, BegunInv, FirstInv, RoomNeedsHandshake, InSession,
            Sessions, At, threads, joining
<1>1. ASSUME NEW r \in {"host", "guest"}, Open(r)
      PROVE  WaitInv'
  <2>1. /\ cur' = cur + 1 /\ cur' \in Sessions /\ cur \in Nat /\ ~first'
        /\ main' = "wait" /\ done' = done /\ recv' = [recv EXCEPT ![cur'].pc = "start"]
    BY <1>1, LifecycleAssumption DEF Open
  <2>2. \A s \in Sessions : recv'[s].pc = recv[s].pc \/ (s = cur' /\ recv'[s].pc = "start")
    BY <2>1
  <2>. QED
    BY <2>1, <2>2
<1>2. CASE Connected
  BY <1>2 DEF Connected
<1>3. CASE WaitTimeout
  BY <1>3 DEF WaitTimeout
<1>4. CASE EnablePanel \/ ShowHistory \/ StartInput \/ CloseSession \/ Join
  BY <1>4 DEF EnablePanel, ShowHistory, StartInput, CloseSession, Join
<1>5. CASE HandlerPrint \/ Signal
  <2>1. /\ UNCHANGED <<cur, first, met, done, recv>>
        /\ main' = main \/ main' = "exited"
    BY <1>5 DEF HandlerPrint, Signal
  <2>. QED
    BY <2>1
<1>6. CASE HandlerSet
  BY <1>6 DEF HandlerSet
<1>. QED
  BY <1>1, <1>2, <1>3, <1>4, <1>5, <1>6 DEF MainStep, HandlerStep

\* The receive loop of the session sets first after met, or after done.
LEMMA RecvWait ==
    ASSUME TypeOK, WaitInv, NEW s \in Sessions,
           \/ RecvStep(s) \/ RecvPunch(s) \/ RecvError(s)
           \/ \E p \in {"other", "end", "ban"} : RecvPacket(s, p)
    PROVE  WaitInv'
<1>1. /\ main' = main /\ cur' = cur
      /\ \A x \in Sessions \ {s} : recv'[x] = recv[x] /\ done'[x] = done[x]
      /\ recv[s].pc # "none" /\ (done[s] => done'[s])
  BY DEF RecvUnchanged, RecvGo, TypeOK, RecvStep, RecvStart, RecvCheck, RecvTimeout,
         RecvMark, RecvPrint, RecvLogFails, RecvBar, RecvUnblock, RecvClose, RecvPunch,
         RecvError, RecvPacket
<1>2. s <= cur /\ (recv[s].pc = "unblock" => done[s])
  BY <1>1 DEF WaitInv, BarInv, BegunInv
<1>3. recv'[s].pc = "unblock" => done'[s]
  BY DEF RecvGo, Idle, TypeOK, RecvStep, RecvStart, RecvCheck, RecvTimeout,
         RecvMark, RecvPrint, RecvLogFails, RecvBar, RecvUnblock, RecvClose, RecvPunch,
         RecvError, RecvPacket
<1>4. (met => met') /\ (first' /\ ~met' => (first /\ ~met) \/ (s = cur /\ done'[s]))
  <2>1. CASE RecvMark(s)
    <3>1. first' = (first \/ s = cur) /\ met' = (met \/ s = cur)
      BY <2>1 DEF RecvMark, SetFirst
    <3>. QED
      BY <3>1
  <2>2. CASE RecvUnblock(s)
    BY <1>1, <1>2, <2>2 DEF RecvUnblock, SetFirst
  <2>3. CASE ~RecvMark(s) /\ ~RecvUnblock(s)
    BY <2>3 DEF joining, RecvStep, RecvStart, RecvCheck, RecvTimeout, RecvPrint,
                RecvLogFails, RecvBar, RecvClose, RecvPunch, RecvError, RecvPacket
  <2>. QED
    BY <2>1, <2>2, <2>3
<1>5. BarInv' /\ BegunInv'
  BY <1>1, <1>2, <1>3 DEF WaitInv, BarInv, BegunInv, Sessions
<1>6. FirstInv'
  <2>1. main \in InSession => cur \in Sessions
    BY LifecycleAssumption DEF TypeOK, Sessions
  <2>. QED
    BY <1>1, <1>4, <2>1 DEF WaitInv, FirstInv, InSession
<1>7. RoomNeedsHandshake'
  BY <1>1, <1>4 DEF WaitInv, RoomNeedsHandshake
<1>. QED
  BY <1>5, <1>6, <1>7 DEF WaitInv

\* The chat opens for a handshake only, however a ban, a signal, a failing socket
\* and the loops of earlier sessions interleave with the wait.
THEOREM HandshakeHolds == Spec => []RoomNeedsHandshake
<1>1. ASSUME TypeOK, WaitInv, [Next]_vars
      PROVE  WaitInv'
  <2>1. ASSUME NEW s \in Sessions,
               Prompt(s) \/ Line(s) \/ Leave(s) \/ InputInterrupt(s)
        PROVE  WaitInv'
    <3>1. UNCHANGED <<main, cur, first, met, recv>> /\ \A x \in Sessions : done[x] => done'[x]
      BY <1>1, <2>1 DEF TypeOK, Prompt, Line, Leave, InputInterrupt, InputUnchanged, joining
    <3>. QED
      BY <1>1, <3>1 DEF TypeOK, WaitInv, BarInv, BegunInv, FirstInv,
                       RoomNeedsHandshake, InSession, Sessions
  <2>2. CASE UNCHANGED vars
    BY <1>1, <2>2 DEF vars, WaitInv, BarInv, BegunInv, FirstInv, RoomNeedsHandshake,
                      InSession, Sessions
  <2>. QED
    BY <1>1, <2>1, <2>2, MainWait, RecvWait DEF Next
<1>2. WaitInv => RoomNeedsHandshake
  BY DEF WaitInv
<1>. QED
  BY <1>1, <1>2, InitWait, TypeCorrect, PTL DEF Spec

=============================================================================
