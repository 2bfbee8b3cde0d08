-------------------------- MODULE DeliveryProofs ---------------------------
(***************************************************************************)
(* Proofs about Delivery, for every set of messages and peers and any      *)
(* number of moves.  After the types come two layers.  The first           *)
(* (TrackInv) says which part of a message's life its tracker, its timer   *)
(* and the input thread may be in together; DoneMatchesStatus needs it.    *)
(* The second (AckInv) follows a packet from the targets to the ack and to *)
(* the tracker's pending set; OkMeansReceived needs it.  The refinement of *)
(* DeliveryStatus uses both.                                               *)
(***************************************************************************)
EXTENDS Delivery, TLAPS

-----------------------------------------------------------------------------
(* Types.                                                                  *)

\* The address of a peer is one of Addrs, whatever it has moved.
LEMMA AddressType ==
    ASSUME TypeOK
    PROVE  Present \subseteq Addrs /\ \A p \in Peers : Address(p) \in Addrs
<1>1. \A p \in Peers : moves[p] \in 0..MaxMoves
  BY DEF TypeOK
<1>2. \A p \in Peers : Address(p) \in Addrs
  BY <1>1 DEF Address, Addrs
<1>. QED
  BY <1>2 DEF Present

\* The initial state is well-formed.
LEMMA InitType == Init => TypeOK
<1>. SUFFICES ASSUME Init PROVE TypeOK
  OBVIOUS
<1>1. moves \in [Peers -> 0..MaxMoves]
  <2>1. 0 \in 0..MaxMoves
    BY DeliveryAssumption
  <2>. QED
    BY <2>1 DEF Init
<1>2. tracker \in [Msgs -> [pending : SUBSET Addrs, done : BOOLEAN]]
  BY DEF Init
<1>. QED
  BY <1>1, <1>2 DEF Init, TypeOK, IdleSender, IdleAckr, Final

\* The verdict of a message and the line it is written on stay well-formed.
LEMMA UpdateType ==
    ASSUME TypeOK, NEW m \in Msgs, NEW v \in Final, Update(m, v)
    PROVE  /\ status' \in [Msgs -> {"none", "pending"} \cup Final]
           /\ shown' \in [Msgs -> {"none", "pending"} \cup Final]
           /\ lastLine' \in Msgs \cup {None}
BY DEF Update, TypeOK

\* Every step keeps the types.
LEMMA StepType ==
    ASSUME TypeOK, [Next]_vars
    PROVE  TypeOK'
<1>. USE DEF TypeOK, network, screen, Final
<1>1. ASSUME NEW m \in Msgs, Snapshot(m)
      PROVE  TypeOK'
  BY <1>1, AddressType, DeliveryAssumption DEF Snapshot
<1>2. ASSUME NEW a \in Addrs, SendTo(a)
      PROVE  TypeOK'
  <2>1. sender.msg \in Msgs
    BY <1>2 DEF SendTo
  <2>2. CASE a \in Present
    <3>1. chat' \subseteq Msgs \X Addrs
      <4>1. chat' = chat \cup {<<sender.msg, a>>}
        BY <1>2, <2>2 DEF SendTo
      <4>2. <<sender.msg, a>> \in Msgs \X Addrs
        BY <2>1
      <4>. QED
        BY <4>1, <4>2
    <3>2. sender' = [sender EXCEPT !.left = @ \ {a}]
      BY <1>2, <2>2 DEF SendTo
    <3>. QED
      BY <1>2, <3>1, <3>2 DEF SendTo
  <2>3. CASE a \notin Present
    <3>1. sender' = [pc |-> "crashed", msg |-> None, left |-> {}]
      BY <1>2, <2>3 DEF SendTo, IdleSender
    <3>. QED
      BY <1>2, <2>3, <3>1 DEF SendTo
  <2>. QED
    BY <2>2, <2>3
<1>3. CASE PrintPending
  BY <1>3 DEF PrintPending, PrintLine
<1>u. /\ status \in [Msgs -> {"none", "pending"} \cup Final]
      /\ shown \in [Msgs -> {"none", "pending"} \cup Final]
      /\ lastLine \in Msgs \cup {None}
  OBVIOUS
<1>4. CASE MakeTracker
  <2>1. sender.msg \in Msgs
    BY <1>4 DEF MakeTracker
  <2>2. /\ status' \in [Msgs -> {"none", "pending"} \cup Final]
        /\ shown' \in [Msgs -> {"none", "pending"} \cup Final]
        /\ lastLine' \in Msgs \cup {None}
    <3>1. UNCHANGED <<status, screen>> \/ Update(sender.msg, "ok")
      BY <1>4 DEF MakeTracker
    <3>2. CASE UNCHANGED <<status, screen>>
      BY <1>u, <3>2
    <3>3. CASE Update(sender.msg, "ok")
      BY <2>1, <3>3, UpdateType
    <3>. QED
      BY <3>1, <3>2, <3>3
  <2>. QED
    BY <1>4, <2>2 DEF MakeTracker
<1>5. CASE Register
  BY <1>5 DEF Register, IdleSender
<1>6. ASSUME NEW m \in Msgs, NEW a \in Addrs, HearAck(m, a)
      PROVE  TypeOK'
  BY <1>6, DeliveryAssumption DEF HearAck, Addrs
<1>7. CASE FindTracker
  BY <1>7 DEF FindTracker, IdleAckr
<1>8. CASE Ack
  <2>. DEFINE left == tracker[ackr.msg].pending \ {ackr.addr}
  <2>1. ackr.msg \in Msgs
    BY <1>8 DEF Ack
  <2>2. CASE tracker[ackr.msg].done
    BY <1>8, <2>2 DEF Ack, CountAck, IdleAckr
  <2>3. CASE ~tracker[ackr.msg].done
    <3>1. [pending |-> left, done |-> left = {}] \in [pending : SUBSET Addrs, done : BOOLEAN]
      BY <2>1
    <3>2. tracker' = [tracker EXCEPT ![ackr.msg] = [pending |-> left, done |-> left = {}]]
      BY <1>8, <2>3 DEF Ack, CountAck
    <3>3. tracker' \in [Msgs -> [pending : SUBSET Addrs, done : BOOLEAN]]
      BY <3>1, <3>2
    <3>4. /\ status' \in [Msgs -> {"none", "pending"} \cup Final]
          /\ shown' \in [Msgs -> {"none", "pending"} \cup Final]
          /\ lastLine' \in Msgs \cup {None}
      <4>1. UNCHANGED <<status, screen>> \/ Update(ackr.msg, "ok")
        BY <1>8, <2>3 DEF Ack, CountAck
      <4>2. CASE UNCHANGED <<status, screen>>
        BY <1>u, <4>2
      <4>3. CASE Update(ackr.msg, "ok")
        BY <2>1, <4>3, UpdateType
      <4>. QED
        BY <4>1, <4>2, <4>3
    <3>. QED
      BY <1>8, <3>3, <3>4 DEF Ack, IdleAckr
  <2>. QED
    BY <2>2, <2>3
<1>9. ASSUME NEW m \in Msgs, Timeout(m)
      PROVE  TypeOK'
  <2>1. Verdict(m) \in {"partial", "fail"}
    BY DEF Verdict
  <2>2. tracker' \in [Msgs -> [pending : SUBSET Addrs, done : BOOLEAN]]
    <3>1. [tracker[m] EXCEPT !.done = TRUE] \in [pending : SUBSET Addrs, done : BOOLEAN]
      <4>1. tracker[m] \in [pending : SUBSET Addrs, done : BOOLEAN]
        OBVIOUS
      <4>2. ASSUME NEW S, NEW r \in [pending : S, done : BOOLEAN]
            PROVE  [r EXCEPT !.done = TRUE] \in [pending : S, done : BOOLEAN]
        OBVIOUS
      <4>. QED
        BY <4>1, <4>2
    <3>2. \/ tracker' = tracker
          \/ tracker' = [tracker EXCEPT ![m] = [tracker[m] EXCEPT !.done = TRUE]]
      BY <1>9 DEF Timeout
    <3>. QED
      BY <3>1, <3>2
  <2>3. /\ status' \in [Msgs -> {"none", "pending"} \cup Final]
        /\ shown' \in [Msgs -> {"none", "pending"} \cup Final]
        /\ lastLine' \in Msgs \cup {None}
    <3>1. UNCHANGED <<status, screen>> \/ Update(m, Verdict(m))
      BY <1>9 DEF Timeout
    <3>2. CASE UNCHANGED <<status, screen>>
      BY <1>u, <3>2
    <3>3. CASE Update(m, Verdict(m))
      BY <2>1, <3>3, UpdateType
    <3>. QED
      BY <3>1, <3>2, <3>3
  <2>. QED
    BY <1>9, <2>2, <2>3 DEF Timeout
<1>10. ASSUME NEW m \in Msgs, NEW p \in Peers, Deliver(m, p)
       PROVE  TypeOK'
  BY <1>10, AddressType DEF Deliver
<1>11. ASSUME NEW p \in Peers, LeaveRoom(p) \/ JoinRoom(p)
       PROVE  TypeOK'
  BY <1>11 DEF LeaveRoom, JoinRoom, Listed
<1>12. ASSUME NEW p \in Peers, Move(p)
       PROVE  TypeOK'
  <2>1. moves[p] + 1 \in 0..MaxMoves
    <3>1. moves[p] \in 0..MaxMoves /\ MaxMoves \in Nat
      BY DeliveryAssumption
    <3>2. moves[p] < MaxMoves
      BY <1>12 DEF Move
    <3>. QED
      BY <3>1, <3>2
  <2>2. moves' \in [Peers -> 0..MaxMoves]
    BY <1>12, <2>1 DEF Move
  <2>. QED
    BY <1>12, <2>2 DEF Move
<1>13. CASE UNCHANGED vars
  BY <1>13 DEF vars
<1>14. CASE PrintOther
  BY <1>14 DEF PrintOther
<1>. QED
  BY <1>1, <1>2, <1>3, <1>4, <1>5, <1>6, <1>7, <1>8, <1>9, <1>10, <1>11, <1>12, <1>13,
     <1>14 DEF Next, SendStep

\* Every variable keeps its type; the input thread has a message in hand
\* wherever it works on one, and the receive thread an ack.
THEOREM TypeCorrect == Spec => []TypeOK
BY InitType, StepType, PTL DEF Spec

-----------------------------------------------------------------------------
(* What the actions that change a tracker do to the message n.             *)

\* The tracker and the verdict of message n stay as they are.
Untouched(n) == tracker'[n] = tracker[n] /\ status'[n] = status[n]

\* _MsgTracker.__init__ concerns the sender's message only.
LEMMA MakeEffect ==
    ASSUME TypeOK, MakeTracker, NEW n \in Msgs
    PROVE  \/ n # sender.msg /\ Untouched(n)
           \/ /\ n = sender.msg
              /\ tracker'[n].pending = targets[n]
              /\ tracker'[n].done <=> targets[n] = {}
              /\ status'[n] = IF targets[n] = {} THEN "ok" ELSE status[n]
<1>1. sender.msg \in Msgs
  BY DEF MakeTracker, TypeOK
<1>2. tracker' = [tracker EXCEPT ![sender.msg] =
                    [pending |-> targets[sender.msg], done |-> targets[sender.msg] = {}]]
  BY DEF MakeTracker
<1>3. status' = IF targets[sender.msg] = {} THEN [status EXCEPT ![sender.msg] = "ok"]
                ELSE status
  BY DEF MakeTracker, Update
<1>4. tracker \in [Msgs -> [pending : SUBSET Addrs, done : BOOLEAN]]
  BY DEF TypeOK
<1>5. status \in [Msgs -> {"none", "pending"} \cup Final]
  BY DEF TypeOK
<1>6. CASE n # sender.msg
  BY <1>1, <1>2, <1>3, <1>4, <1>5, <1>6 DEF Untouched
<1>7. CASE n = sender.msg
  <2>1. tracker'[n] = [pending |-> targets[n], done |-> targets[n] = {}]
    BY <1>2, <1>4, <1>7
  <2>2. status'[n] = IF targets[n] = {} THEN "ok" ELSE status[n]
    BY <1>3, <1>5, <1>7
  <2>3. tracker'[n].pending = targets[n] /\ tracker'[n].done = (targets[n] = {})
    BY <2>1
  <2>. QED
    BY <1>7, <2>2, <2>3
<1>. QED
  BY <1>6, <1>7

\* _MsgTracker.ack takes the address out of a tracker that is not done, and
\* gives the verdict "ok" with the last one.
LEMMA CountEffect ==
    ASSUME TypeOK, Ack, NEW n \in Msgs
    PROVE  \/ Untouched(n)
           \/ /\ n = ackr.msg /\ ~tracker[n].done
              /\ tracker'[n].pending = tracker[n].pending \ {ackr.addr}
              /\ tracker'[n].done <=> tracker'[n].pending = {}
              /\ status'[n] = IF tracker'[n].pending = {} THEN "ok" ELSE status[n]
<1>. DEFINE m == ackr.msg
            left == tracker[m].pending \ {ackr.addr}
<1>1. m \in Msgs
  BY DEF Ack, TypeOK
<1>2. tracker \in [Msgs -> [pending : SUBSET Addrs, done : BOOLEAN]]
  BY DEF TypeOK
<1>3. status \in [Msgs -> {"none", "pending"} \cup Final]
  BY DEF TypeOK
<1>4. CASE tracker[m].done
  BY <1>4 DEF Ack, CountAck, Untouched
<1>5. CASE ~tracker[m].done
  <2>1. tracker' = [tracker EXCEPT ![m] = [pending |-> left, done |-> left = {}]]
    BY <1>5 DEF Ack, CountAck
  <2>2. status' = IF left = {} THEN [status EXCEPT ![m] = "ok"] ELSE status
    BY <1>5 DEF Ack, CountAck, Update
  <2>3. CASE n # m
    BY <1>1, <1>2, <1>3, <2>1, <2>2, <2>3 DEF Untouched
  <2>4. CASE n = m
    <3>1. tracker'[n] = [pending |-> left, done |-> left = {}]
      BY <1>2, <2>1, <2>4
    <3>2. status'[n] = IF left = {} THEN "ok" ELSE status[n]
      BY <1>3, <2>2, <2>4
    <3>3. tracker'[n].pending = left /\ tracker'[n].done = (left = {})
      BY <3>1
    <3>. QED
      BY <1>5, <2>4, <3>2, <3>3
  <2>. QED
    BY <2>3, <2>4
<1>. QED
  BY <1>4, <1>5

\* _MsgTracker._timeout ends a tracker that is not done and keeps its pending
\* set; the verdict is never "ok".
LEMMA TimeoutEffect ==
    ASSUME TypeOK, NEW m \in Msgs, Timeout(m), NEW n \in Msgs
    PROVE  \/ Untouched(n)
           \/ /\ n = m /\ ~tracker[n].done
              /\ tracker'[n].pending = tracker[n].pending
              /\ tracker'[n].done
              /\ status'[n] = IF tracker[n].pending = targets[n] THEN "fail" ELSE "partial"
<1>1. tracker \in [Msgs -> [pending : SUBSET Addrs, done : BOOLEAN]]
  BY DEF TypeOK
<1>2. status \in [Msgs -> {"none", "pending"} \cup Final]
  BY DEF TypeOK
<1>3. CASE tracker[m].done
  BY <1>3 DEF Timeout, Untouched
<1>4. CASE ~tracker[m].done
  <2>1. tracker' = [tracker EXCEPT ![m].done = TRUE]
    BY <1>4 DEF Timeout
  <2>2. status' = [status EXCEPT ![m] = Verdict(m)]
    BY <1>4 DEF Timeout, Update
  <2>3. CASE n # m
    BY <1>1, <1>2, <2>1, <2>2, <2>3 DEF Untouched
  <2>4. CASE n = m
    <3>1. tracker'[n] = [tracker[n] EXCEPT !.done = TRUE]
      BY <1>1, <2>1, <2>4
    <3>2. tracker[n] \in [pending : SUBSET Addrs, done : BOOLEAN]
      BY <1>1
    <3>3. tracker'[n].done /\ tracker'[n].pending = tracker[n].pending
      BY <3>1, <3>2
    <3>4. status'[n] = Verdict(n)
      BY <1>2, <2>2, <2>4
    <3>. QED
      BY <1>4, <2>4, <3>3, <3>4 DEF Verdict
  <2>. QED
    BY <2>3, <2>4
<1>. QED
  BY <1>3, <1>4

-----------------------------------------------------------------------------
(* The life of a message.                                                  *)

\* The input thread has not yet put m's tracker where acks find it.
Sending(m) == sender.msg = m /\ sender.pc \in {"send", "track", "register"}

\* m's tracker exists.
Made(m) == status[m] # "none" /\ ~(sender.pc = "track" /\ sender.msg = m)

Life(m) ==
    /\ m \in trackers \cup timers => Made(m)
    /\ targets[m] # {} /\ m \notin trackers => Sending(m) \/ sender.pc = "crashed"
    /\ Made(m) => tracker[m].pending \subseteq targets[m]
    /\ Made(m) /\ ~tracker[m].done => tracker[m].pending # {}
    /\ tracker[m].done <=> status[m] \in Final
    /\ status[m] = "ok" => tracker[m].pending = {}

SenderInv ==
    /\ sender.pc = "send" =>
         status[sender.msg] = "none" /\ sender.left \subseteq targets[sender.msg]
    /\ sender.pc = "track" => status[sender.msg] = "pending"
    /\ sender.pc = "register" => status[sender.msg] # "none"
    /\ ackr.pc = "count" => ackr.msg \in trackers

TrackInv == SenderInv /\ \A m \in Msgs : Life(m)

\* No message has a life before the first one is sent.
LEMMA InitTrack == Init => TrackInv
<1>. SUFFICES ASSUME Init PROVE TrackInv
  OBVIOUS
<1>1. SenderInv
  BY DEF Init, IdleSender, IdleAckr, SenderInv
<1>2. ASSUME NEW m \in Msgs PROVE Life(m)
  <2>1. status[m] = "none" /\ targets[m] = {} /\ ~tracker[m].done
    BY DEF Init
  <2>. QED
    BY <2>1 DEF Init, Life, Made, Final
<1>. QED
  BY <1>1, <1>2 DEF TrackInv

\* What the network, the peers and a new ack do leaves every life alone.
LEMMA FrameTrack ==
    ASSUME TrackInv, UNCHANGED <<sender, status, targets, tracker, trackers, timers>>,
           ackr'.pc = "count" => ackr.pc = "count" /\ ackr'.msg = ackr.msg
    PROVE  TrackInv'
<1>1. SenderInv'
  BY DEF TrackInv, SenderInv
<1>2. ASSUME NEW m \in Msgs PROVE Life(m)'
  BY DEF TrackInv, Life, Made, Sending
<1>. QED
  BY <1>1, <1>2 DEF TrackInv

\* Every step keeps the lives in order.
LEMMA StepTrack ==
    ASSUME TypeOK, TrackInv, [Next]_vars
    PROVE  TrackInv'
<1>1. ASSUME NEW m \in Msgs, Snapshot(m)
      PROVE  TrackInv'
  <2>1. /\ sender' = [pc |-> "send", msg |-> m, left |-> Present]
        /\ targets' = [targets EXCEPT ![m] = Present]
        /\ UNCHANGED <<status, tracker, trackers, timers, ackr>>
        /\ sender.pc = "idle" /\ status[m] = "none" /\ m \notin trackers
    BY <1>1 DEF Snapshot
  <2>2. targets'[m] = Present /\ \A n \in Msgs : n # m => targets'[n] = targets[n]
    BY <2>1 DEF TypeOK
  <2>3. SenderInv'
    BY <2>1, <2>2 DEF TrackInv, SenderInv
  <2>4. ASSUME NEW n \in Msgs PROVE Life(n)'
    <3>1. Life(n)
      BY DEF TrackInv
    <3>2. CASE n = m
      BY <2>1, <2>2, <3>1, <3>2 DEF Life, Made, Sending
    <3>3. CASE n # m
      BY <2>1, <2>2, <3>1, <3>3 DEF Life, Made, Sending
    <3>. QED
      BY <3>2, <3>3
  <2>. QED
    BY <2>3, <2>4 DEF TrackInv
<1>2. ASSUME NEW a \in Addrs, SendTo(a)
      PROVE  TrackInv'
  <2>1. /\ sender.pc = "send"
        /\ \/ /\ sender'.pc = "send" /\ sender'.msg = sender.msg
              /\ sender'.left \subseteq sender.left
           \/ sender'.pc = "crashed"
        /\ UNCHANGED <<status, targets, tracker, trackers, timers, ackr>>
    BY <1>2 DEF SendTo, IdleSender, TypeOK
  <2>2. SenderInv'
    BY <2>1 DEF TrackInv, SenderInv
  <2>3. ASSUME NEW n \in Msgs PROVE Life(n)'
    <3>1. Life(n)
      BY DEF TrackInv
    <3>. QED
      BY <2>1, <3>1 DEF Life, Made, Sending
  <2>. QED
    BY <2>2, <2>3 DEF TrackInv
<1>3. CASE PrintPending
  <2>1. /\ sender.pc = "send" /\ sender'.pc = "track" /\ sender'.msg = sender.msg
        /\ sender.msg \in Msgs
        /\ UNCHANGED <<targets, tracker, trackers, timers, ackr>>
    BY <1>3 DEF PrintPending, TypeOK
  <2>2. /\ status[sender.msg] = "none" /\ status'[sender.msg] = "pending"
        /\ \A n \in Msgs : n # sender.msg => status'[n] = status[n]
    BY <1>3, <2>1 DEF PrintPending, PrintLine, TypeOK, TrackInv, SenderInv
  <2>3. SenderInv'
    BY <2>1, <2>2 DEF TrackInv, SenderInv
  <2>4. ASSUME NEW n \in Msgs PROVE Life(n)'
    <3>1. Life(n)
      BY DEF TrackInv
    <3>2. CASE n = sender.msg
      BY <2>1, <2>2, <3>1, <3>2 DEF Life, Made, Sending, Final
    <3>3. CASE n # sender.msg
      BY <2>1, <2>2, <3>1, <3>3 DEF Life, Made, Sending
    <3>. QED
      BY <3>2, <3>3
  <2>. QED
    BY <2>3, <2>4 DEF TrackInv
<1>4. CASE MakeTracker
  <2>1. /\ sender.pc = "track" /\ sender'.pc = "register" /\ sender'.msg = sender.msg
        /\ sender.msg \in Msgs
        /\ timers' = IF targets[sender.msg] = {} THEN timers ELSE timers \cup {sender.msg}
        /\ status[sender.msg] = "pending"
        /\ UNCHANGED <<targets, trackers, ackr>>
    BY <1>4 DEF MakeTracker, TypeOK, TrackInv, SenderInv
  <2>2. SenderInv'
    <3>1. status'[sender.msg] # "none"
      BY <1>4, <2>1, MakeEffect
    <3>. QED
      BY <2>1, <3>1 DEF TrackInv, SenderInv
  <2>3. ASSUME NEW n \in Msgs PROVE Life(n)'
    <3>1. Life(n)
      BY DEF TrackInv
    <3>2. CASE n # sender.msg
      <4>1. Untouched(n)
        BY <1>4, <3>2, MakeEffect
      <4>. QED
        BY <2>1, <3>1, <3>2, <4>1 DEF Life, Made, Sending, Untouched
    <3>3. CASE n = sender.msg
      <4>1. /\ tracker'[n].pending = targets[n]
            /\ tracker'[n].done <=> targets[n] = {}
            /\ status'[n] = IF targets[n] = {} THEN "ok" ELSE status[n]
        BY <1>4, <3>3, MakeEffect
      <4>2. status'[n] = IF targets[n] = {} THEN "ok" ELSE "pending"
        BY <2>1, <3>3, <4>1
      <4>. QED
        BY <2>1, <3>1, <3>3, <4>1, <4>2 DEF Life, Made, Sending, Final
    <3>. QED
      BY <3>2, <3>3
  <2>. QED
    BY <2>2, <2>3 DEF TrackInv
<1>5. CASE Register
  <2>1. /\ sender.pc = "register" /\ sender'.pc = "idle" /\ sender'.msg = None
        /\ sender.msg \in Msgs
        /\ trackers' = trackers \cup {sender.msg}
        /\ status[sender.msg] # "none"
        /\ UNCHANGED <<status, targets, tracker, timers, ackr>>
    BY <1>5 DEF Register, IdleSender, TypeOK, TrackInv, SenderInv
  <2>2. SenderInv'
    BY <2>1 DEF TrackInv, SenderInv
  <2>3. ASSUME NEW n \in Msgs PROVE Life(n)'
    <3>1. Life(n)
      BY DEF TrackInv
    <3>. QED
      BY <2>1, <3>1 DEF Life, Made, Sending
  <2>. QED
    BY <2>2, <2>3 DEF TrackInv
<1>6. ASSUME NEW m \in Msgs, NEW a \in Addrs, HearAck(m, a)
      PROVE  TrackInv'
  BY <1>6, FrameTrack DEF HearAck
<1>7. CASE FindTracker
  <2>1. ackr'.pc = "count" => ackr'.msg = ackr.msg /\ ackr.msg \in trackers
    BY <1>7 DEF FindTracker, IdleAckr, TypeOK
  <2>2. UNCHANGED <<sender, status, targets, tracker, trackers, timers>>
    BY <1>7 DEF FindTracker
  <2>3. SenderInv'
    BY <2>1, <2>2 DEF TrackInv, SenderInv
  <2>4. ASSUME NEW n \in Msgs PROVE Life(n)'
    BY <2>2 DEF TrackInv, Life, Made, Sending
  <2>. QED
    BY <2>3, <2>4 DEF TrackInv
<1>8. CASE Ack
  <2>1. /\ ackr.msg \in Msgs /\ ackr.msg \in trackers /\ ackr'.pc = "idle"
        /\ UNCHANGED <<sender, targets, trackers, timers>>
    BY <1>8 DEF Ack, IdleAckr, TypeOK, TrackInv, SenderInv
  <2>2. ASSUME NEW n \in Msgs
        PROVE  /\ Life(n)'
               /\ status'[n] = status[n] \/ (Made(n) /\ status'[n] # "none")
    <3>1. Life(n) /\ Life(ackr.msg)
      BY <2>1 DEF TrackInv
    <3>2. CASE Untouched(n)
      BY <2>1, <3>1, <3>2 DEF Life, Made, Sending, Untouched
    <3>3. CASE ~Untouched(n)
      <4>1. /\ n = ackr.msg /\ ~tracker[n].done
            /\ tracker'[n].pending = tracker[n].pending \ {ackr.addr}
            /\ tracker'[n].done <=> tracker'[n].pending = {}
            /\ status'[n] = IF tracker'[n].pending = {} THEN "ok" ELSE status[n]
        BY <1>8, <3>3, CountEffect
      <4>2. Made(n) /\ status[n] \notin Final
        BY <2>1, <3>1, <4>1 DEF Life
      <4>. QED
        BY <2>1, <3>1, <4>1, <4>2 DEF Life, Made, Sending, Final
    <3>. QED
      BY <3>2, <3>3
  <2>3. SenderInv'
    <3>1. sender.pc \in {"send", "track", "register"} => sender.msg \in Msgs
      BY DEF TypeOK
    <3>. QED
      BY <2>1, <2>2, <3>1 DEF TrackInv, SenderInv, Made
  <2>. QED
    BY <2>2, <2>3 DEF TrackInv
<1>9. ASSUME NEW m \in Msgs, Timeout(m)
      PROVE  TrackInv'
  <2>1. /\ m \in timers /\ timers' = timers \ {m}
        /\ UNCHANGED <<sender, targets, trackers, ackr>>
    BY <1>9 DEF Timeout
  <2>2. ASSUME NEW n \in Msgs
        PROVE  /\ Life(n)'
               /\ status'[n] = status[n] \/ (Made(n) /\ status'[n] # "none")
    <3>1. Life(n)
      BY DEF TrackInv
    <3>2. CASE Untouched(n)
      BY <2>1, <3>1, <3>2 DEF Life, Made, Sending, Untouched
    <3>3. CASE ~Untouched(n)
      <4>1. /\ n = m /\ ~tracker[n].done
            /\ tracker'[n].pending = tracker[n].pending
            /\ tracker'[n].done
            /\ status'[n] = IF tracker[n].pending = targets[n] THEN "fail" ELSE "partial"
        BY <1>9, <3>3, TimeoutEffect
      <4>2. Made(n) /\ status'[n] \in {"fail", "partial"}
        BY <2>1, <3>1, <4>1 DEF Life
      <4>. QED
        BY <2>1, <3>1, <4>1, <4>2 DEF Life, Made, Sending, Final
    <3>. QED
      BY <3>2, <3>3
  <2>3. SenderInv'
    <3>1. sender.pc \in {"send", "track", "register"} => sender.msg \in Msgs
      BY DEF TypeOK
    <3>. QED
      BY <2>1, <2>2, <3>1 DEF TrackInv, SenderInv, Made
  <2>. QED
    BY <2>2, <2>3 DEF TrackInv
<1>10. ASSUME NEW m \in Msgs, NEW p \in Peers, Deliver(m, p)
       PROVE  TrackInv'
  BY <1>10, FrameTrack DEF Deliver
<1>11. ASSUME NEW p \in Peers, LeaveRoom(p) \/ JoinRoom(p) \/ Move(p)
       PROVE  TrackInv'
  BY <1>11, FrameTrack DEF LeaveRoom, JoinRoom, Move
<1>12. CASE PrintOther \/ UNCHANGED vars
  BY <1>12, FrameTrack DEF PrintOther, vars
<1>. QED
  BY <1>1, <1>2, <1>3, <1>4, <1>5, <1>6, <1>7, <1>8, <1>9, <1>10, <1>11, <1>12
     DEF Next, SendStep

\* Types and lives hold throughout.
LEMMA TrackHolds == Spec => [](TypeOK /\ TrackInv)
BY InitType, StepType, InitTrack, StepTrack, PTL DEF Spec

\* A tracker is done exactly when it has given its verdict: neither a late ack
\* nor the timer changes that of the other (_MsgTracker, lines 101-138).
THEOREM DoneMatches == Spec => []DoneMatchesStatus
<1>1. TrackInv => DoneMatchesStatus
  BY DEF TrackInv, Life, DoneMatchesStatus
<1>. QED
  BY <1>1, TrackHolds, PTL

-----------------------------------------------------------------------------
(* From the packet to the count.                                           *)

\* The packets of message m come from its recipients, and an address that is
\* no longer pending belongs to a peer that has the message.
Told(m) ==
    /\ \A a \in Addrs : <<m, a>> \in chat => a \in targets[m]
    /\ \A a \in Addrs : <<m, a>> \in acks => a \in targets[m] /\ a[1] \in received[m]
    /\ Made(m) => \A a \in targets[m] : a \in tracker[m].pending \/ a[1] \in received[m]

AckInHand == ackr.pc # "idle" => <<ackr.msg, ackr.addr>> \in acks

AckInv == AckInHand /\ \A m \in Msgs : Told(m)

\* Nothing is sent at first.
LEMMA InitAck == Init => AckInv
BY DEF Init, IdleAckr, IdleSender, AckInv, AckInHand, Told, Made

\* What neither sends, counts nor delivers leaves the packets alone.
LEMMA FrameAck ==
    ASSUME AckInv, UNCHANGED <<targets, tracker, network>>, AckInHand',
           \A n \in Msgs : Made(n)' => Made(n)
    PROVE  AckInv'
BY DEF AckInv, Told, network

\* Every step keeps packets and counts in agreement.
LEMMA StepAck ==
    ASSUME TypeOK, TrackInv, AckInv, [Next]_vars
    PROVE  AckInv'
<1>1. ASSUME NEW m \in Msgs, Snapshot(m)
      PROVE  AckInv'
  <2>1. /\ targets' = [targets EXCEPT ![m] = Present]
        /\ UNCHANGED <<status, tracker, ackr, chat, acks, received>>
        /\ sender.pc = "idle" /\ status[m] = "none" /\ m \notin trackers
    BY <1>1 DEF Snapshot, network
  <2>2. \A n \in Msgs : n # m => targets'[n] = targets[n]
    BY <2>1 DEF TypeOK
  <2>3. targets[m] = {}
    BY <2>1 DEF TrackInv, Life, Sending
  <2>4. AckInHand'
    BY <2>1 DEF AckInv, AckInHand
  <2>5. ASSUME NEW n \in Msgs PROVE Told(n)'
    <3>1. Told(n)
      BY DEF AckInv
    <3>2. CASE n = m
      BY <2>1, <2>3, <3>1, <3>2 DEF Told, Made
    <3>3. CASE n # m
      <4>1. Made(n)' => Made(n)
        BY <2>1 DEF Made
      <4>. QED
        BY <2>1, <2>2, <3>1, <3>3, <4>1 DEF Told
    <3>. QED
      BY <3>2, <3>3
  <2>. QED
    BY <2>4, <2>5 DEF AckInv
<1>2. ASSUME NEW a \in Addrs, SendTo(a)
      PROVE  AckInv'
  <2>1. /\ sender.pc = "send" /\ sender.msg \in Msgs
        /\ sender'.pc \in {"send", "crashed"}
        /\ chat' = chat \/ chat' = chat \cup {<<sender.msg, a>>}
        /\ UNCHANGED <<status, targets, tracker, ackr, acks, received>>
    BY <1>2 DEF SendTo, IdleSender, TypeOK
  <2>2. a \in targets[sender.msg]
    BY <1>2, <2>1 DEF SendTo, TrackInv, SenderInv
  <2>3. ASSUME NEW n \in Msgs PROVE Told(n)'
    <3>1. Told(n)
      BY DEF AckInv
    <3>2. Made(n)' => Made(n)
      BY <2>1 DEF Made
    <3>. QED
      BY <2>1, <2>2, <3>1, <3>2 DEF Told
  <2>4. AckInHand'
    BY <2>1 DEF AckInv, AckInHand
  <2>. QED
    BY <2>3, <2>4 DEF AckInv
<1>3. CASE PrintPending
  <2>1. /\ sender' = [sender EXCEPT !.pc = "track"] /\ sender.msg \in Msgs
        /\ status' = [status EXCEPT ![sender.msg] = "pending"]
        /\ sender.pc = "send"
        /\ UNCHANGED <<targets, tracker, ackr, network>>
    BY <1>3 DEF PrintPending, PrintLine, TypeOK
  <2>2. ASSUME NEW n \in Msgs, Made(n)' PROVE Made(n)
    <3>1. n # sender.msg
      BY <2>1, <2>2 DEF Made, TypeOK
    <3>. QED
      BY <2>1, <2>2, <3>1 DEF Made, TypeOK
  <2>3. AckInHand'
    BY <2>1 DEF AckInv, AckInHand, network
  <2>. QED
    BY <2>1, <2>2, <2>3, FrameAck
<1>4. CASE MakeTracker
  <2>1. /\ sender.pc = "track" /\ sender'.pc = "register"
        /\ UNCHANGED <<targets, ackr, chat, acks, received>>
    BY <1>4 DEF MakeTracker, TypeOK, network
  <2>2. AckInHand'
    BY <2>1 DEF AckInv, AckInHand
  <2>3. ASSUME NEW n \in Msgs PROVE Told(n)'
    <3>1. Told(n)
      BY DEF AckInv
    <3>2. CASE n = sender.msg
      BY <1>4, <2>1, <3>1, <3>2, MakeEffect DEF Told
    <3>3. CASE n # sender.msg
      BY <1>4, <2>1, <3>1, <3>3, MakeEffect DEF Told, Made, Untouched
    <3>. QED
      BY <3>2, <3>3
  <2>. QED
    BY <2>2, <2>3 DEF AckInv
<1>5. CASE Register
  <2>1. /\ sender.pc = "register" /\ UNCHANGED <<status, targets, tracker, ackr, network>>
    BY <1>5 DEF Register
  <2>2. \A n \in Msgs : Made(n)' => Made(n)
    BY <2>1 DEF Made
  <2>3. AckInHand'
    BY <2>1 DEF AckInv, AckInHand, network
  <2>. QED
    BY <2>1, <2>2, <2>3, FrameAck
<1>6. ASSUME NEW m \in Msgs, NEW a \in Addrs, HearAck(m, a)
      PROVE  AckInv'
  <2>1. /\ ackr' = [pc |-> "lookup", msg |-> m, addr |-> a] /\ <<m, a>> \in acks
        /\ UNCHANGED <<sender, status, targets, tracker, network>>
    BY <1>6 DEF HearAck
  <2>2. AckInHand' /\ \A n \in Msgs : Made(n)' => Made(n)
    BY <2>1 DEF AckInHand, Made, network
  <2>. QED
    BY <2>1, <2>2, FrameAck
<1>7. CASE FindTracker
  <2>1. /\ ackr' = [ackr EXCEPT !.pc = "count"] \/ ackr'.pc = "idle"
        /\ ackr.pc = "lookup"
        /\ UNCHANGED <<sender, status, targets, tracker, network>>
    BY <1>7 DEF FindTracker, IdleAckr
  <2>2. AckInHand' /\ \A n \in Msgs : Made(n)' => Made(n)
    BY <2>1 DEF AckInv, AckInHand, Made, network, TypeOK
  <2>. QED
    BY <2>1, <2>2, FrameAck
<1>8. CASE Ack
  <2>1. /\ ackr'.pc = "idle" /\ <<ackr.msg, ackr.addr>> \in acks
        /\ ackr.msg \in Msgs /\ ackr.addr \in Addrs
        /\ UNCHANGED <<sender, targets, chat, acks, received>>
    BY <1>8 DEF Ack, IdleAckr, AckInv, AckInHand, network, TypeOK
  <2>2. ASSUME NEW n \in Msgs PROVE Told(n)'
    <3>1. Told(n) /\ Life(n)
      BY DEF AckInv, TrackInv
    <3>2. CASE Untouched(n)
      BY <2>1, <3>1, <3>2 DEF Told, Made, Untouched
    <3>3. CASE ~Untouched(n)
      <4>1. /\ n = ackr.msg
            /\ tracker'[n].pending = tracker[n].pending \ {ackr.addr}
        BY <1>8, <3>3, CountEffect
      <4>2. ackr.addr[1] \in received[n]
        BY <2>1, <3>1, <4>1 DEF Told
      <4>3. Made(n)
        BY <1>8, <2>1, <4>1, <3>1 DEF Ack, TrackInv, SenderInv, Life
      <4>. QED
        BY <2>1, <3>1, <4>1, <4>2, <4>3 DEF Told
    <3>. QED
      BY <3>2, <3>3
  <2>. QED
    BY <2>1, <2>2 DEF AckInv, AckInHand
<1>9. ASSUME NEW m \in Msgs, Timeout(m)
      PROVE  AckInv'
  <2>1. m \in timers /\ UNCHANGED <<sender, targets, ackr, chat, acks, received>>
    BY <1>9 DEF Timeout, network
  <2>2. ASSUME NEW n \in Msgs PROVE Told(n)'
    <3>1. Told(n) /\ Life(n)
      BY DEF AckInv, TrackInv
    <3>2. CASE Untouched(n)
      BY <2>1, <3>1, <3>2 DEF Told, Made, Untouched
    <3>3. CASE ~Untouched(n)
      <4>1. n = m /\ tracker'[n].pending = tracker[n].pending
        BY <1>9, <3>3, TimeoutEffect
      <4>2. Made(n)
        BY <2>1, <4>1, <3>1 DEF Life
      <4>. QED
        BY <2>1, <3>1, <4>1, <4>2 DEF Told
    <3>. QED
      BY <3>2, <3>3
  <2>. QED
    BY <2>1, <2>2 DEF AckInv, AckInHand
<1>10. ASSUME NEW m \in Msgs, NEW p \in Peers, Deliver(m, p)
       PROVE  AckInv'
  <2>. DEFINE b == Address(p)
  <2>1. /\ <<m, b>> \in chat /\ acks' = acks \cup {<<m, b>>}
        /\ received' = [received EXCEPT ![m] = @ \cup {p}]
        /\ UNCHANGED <<sender, status, targets, tracker, ackr, chat>>
    BY <1>10 DEF Deliver
  <2>2. b \in Addrs /\ b[1] = p
    BY AddressType DEF Address
  <2>3. b \in targets[m]
    BY <2>1, <2>2 DEF AckInv, Told
  <2>4. p \in received'[m] /\ \A n \in Msgs : received[n] \subseteq received'[n]
    BY <2>1 DEF TypeOK
  <2>. HIDE DEF b
  <2>5. ASSUME NEW n \in Msgs PROVE Told(n)'
    <3>1. Told(n)
      BY DEF AckInv
    <3>2. Made(n)' => Made(n)
      BY <2>1 DEF Made
    <3>3. received[n] \subseteq received'[n]
      BY <2>4
    <3>4. ASSUME NEW a \in Addrs, <<n, a>> \in acks'
          PROVE  a \in targets[n] /\ a[1] \in received'[n]
      BY <2>1, <2>2, <2>3, <2>4, <3>1, <3>3, <3>4 DEF Told
    <3>. QED
      BY <2>1, <3>1, <3>2, <3>3, <3>4 DEF Told
  <2>6. AckInHand'
    BY <2>1 DEF AckInv, AckInHand
  <2>. QED
    BY <2>5, <2>6 DEF AckInv
<1>11. ASSUME NEW p \in Peers, LeaveRoom(p) \/ JoinRoom(p) \/ Move(p)
       PROVE  AckInv'
  <2>1. UNCHANGED <<sender, status, targets, tracker, ackr, network>>
    BY <1>11 DEF LeaveRoom, JoinRoom, Move
  <2>2. AckInHand' /\ \A n \in Msgs : Made(n)' => Made(n)
    BY <2>1 DEF AckInv, AckInHand, Made, network
  <2>. QED
    BY <2>1, <2>2, FrameAck
<1>12. CASE PrintOther \/ UNCHANGED vars
  <2>1. UNCHANGED <<sender, status, targets, tracker, ackr, network>>
    BY <1>12 DEF PrintOther, vars, network
  <2>2. AckInHand' /\ \A n \in Msgs : Made(n)' => Made(n)
    BY <2>1 DEF AckInv, AckInHand, Made, network
  <2>. QED
    BY <2>1, <2>2, FrameAck
<1>. QED
  BY <1>1, <1>2, <1>3, <1>4, <1>5, <1>6, <1>7, <1>8, <1>9, <1>10, <1>11, <1>12
     DEF Next, SendStep

\* Types, lives and packets hold throughout.
LEMMA AckHolds == Spec => [](TypeOK /\ TrackInv /\ AckInv)
BY InitType, StepType, InitTrack, StepTrack, InitAck, StepAck, PTL DEF Spec

\* The verdict is "ok" only when nobody is pending, so every recipient has the
\* message, whatever was lost, repeated or late (lines 117-125).
THEOREM OkHolds == Spec => []OkMeansReceived
<1>1. TypeOK /\ TrackInv /\ AckInv => OkMeansReceived
  <2>. SUFFICES ASSUME TypeOK, TrackInv, AckInv, NEW m \in Msgs, status[m] = "ok",
                       NEW a \in targets[m]
                PROVE  a[1] \in received[m]
    BY DEF OkMeansReceived
  <2>1. tracker[m].pending = {}
    BY DEF TrackInv, Life
  <2>2. Made(m)
    BY DEF Made, TrackInv, SenderInv
  <2>3. a \in tracker[m].pending \/ a[1] \in received[m]
    BY <2>2 DEF AckInv, Told
  <2>. QED
    BY <2>1, <2>3
<1>. QED
  BY <1>1, AckHolds, PTL

\* An ack is dropped only before its message is registered (lines 1357-1373),
\* or if the input thread died: an ack is of a message that was sent, and a
\* message that was sent is registered or still in the sender's hands.
THEOREM DroppedEarly == Spec => AckDroppedOnlyEarly
<1>1. ASSUME TypeOK, TrackInv, AckInv, [Next]_vars
      PROVE  [ackr.pc = "lookup" /\ ackr'.pc = "idle"
                => \/ sender.msg = ackr.msg /\ sender.pc \in {"send", "track", "register"}
                   \/ sender.pc = "crashed"]_vars
  <2>. SUFFICES ASSUME Next, ackr.pc = "lookup", ackr'.pc = "idle"
                PROVE  Sending(ackr.msg) \/ sender.pc = "crashed"
    BY <1>1 DEF Sending, vars
  <2>1. FindTracker
    BY DEF Next, SendStep, Snapshot, SendTo, PrintPending, MakeTracker, Register,
           HearAck, Ack, Timeout, Deliver, LeaveRoom, JoinRoom, Move, PrintOther
  <2>2. ackr.msg \in Msgs /\ ackr.addr \in Addrs
    BY <1>1 DEF TypeOK
  <2>3. ackr.msg \notin trackers
    BY <1>1, <2>1 DEF FindTracker, TypeOK
  <2>4. ackr.addr \in targets[ackr.msg]
    BY <1>1, <2>2 DEF AckInv, AckInHand, Told
  <2>. QED
    BY <1>1, <2>2, <2>3, <2>4 DEF TrackInv, Life
<1>. QED
  BY <1>1, AckHolds, PTL DEF Spec, AckDroppedOnlyEarly

-----------------------------------------------------------------------------
(* The verdict keeps its promise: Delivery implements DeliveryStatus.      *)

\* Whom a message was addressed to, as DeliveryStatus sees it.
Recipients == [m \in Msgs |-> {a[1] : a \in targets[m]}]

\* The verdict and what it stands for stay as they are.
LEMMA StutterStep ==
    ASSUME UNCHANGED <<status, targets, received>>
    PROVE  UNCHANGED Promise!vars
BY DEF Promise!vars

\* A message whose tracker is made and not done is pending.
LEMMA LivePending ==
    ASSUME TypeOK, TrackInv, NEW m \in Msgs, m \in trackers \cup timers, ~tracker[m].done
    PROVE  status[m] = "pending"
<1>1. status[m] \in {"none", "pending"} \cup Final
  BY DEF TypeOK
<1>2. Life(m)
  BY DEF TrackInv
<1>. QED
  BY <1>1, <1>2 DEF Life, Made

\* A message is addressed to some peers.
LEMMA AddressStep ==
    ASSUME NEW m \in Msgs, NEW R \in SUBSET Peers, status[m] = "none", Recipients[m] = {},
           Recipients' = [Recipients EXCEPT ![m] = R], UNCHANGED <<status, received>>
    PROVE  Promise!Next
<1>1. Promise!Address(m, R)
  BY DEF Promise!Address, Recipients
<1>. QED
  BY <1>1 DEF Promise!Next

\* One message goes from pending to its verdict.
LEMMA ResolveStep ==
    ASSUME NEW m \in Msgs, NEW s \in Final, status[m] = "pending",
           status' = [status EXCEPT ![m] = s], UNCHANGED <<targets, received>>,
           s = "ok" => \A a \in targets[m] : a[1] \in received[m],
           s = "partial" => \E a \in targets[m] : a[1] \in received[m],
           s = "fail" => targets[m] # {}
    PROVE  Promise!Next
<1>1. Recipients[m] = {a[1] : a \in targets[m]}
  BY DEF Recipients
<1>2. Promise!Resolve(m, s)
  BY <1>1 DEF Promise!Resolve, Recipients
<1>. QED
  BY <1>2 DEF Promise!Next, Promise!Final, Final

\* Every step of the code is a step of the promise, or none.
LEMMA PromiseStep ==
    ASSUME TypeOK, TrackInv, AckInv, [Next]_vars
    PROVE  [Promise!Next]_(Promise!vars)
<1>1. ASSUME NEW m \in Msgs, Snapshot(m)
      PROVE  Promise!Next
  <2>. DEFINE R == {a[1] : a \in Present}
  <2>1. /\ targets' = [targets EXCEPT ![m] = Present]
        /\ UNCHANGED <<status, received>>
        /\ sender.pc = "idle" /\ status[m] = "none" /\ m \notin trackers
    BY <1>1 DEF Snapshot, network
  <2>2. targets[m] = {}
    BY <2>1 DEF TrackInv, Life, Sending
  <2>3. R \in SUBSET Peers
    BY AddressType DEF Addrs
  <2>4. Recipients[m] = {}
    BY <2>2 DEF Recipients
  <2>5. Recipients' = [Recipients EXCEPT ![m] = R]
    BY <2>1 DEF Recipients, TypeOK
  <2>. QED
    BY <2>1, <2>3, <2>4, <2>5, AddressStep
<1>2. CASE PrintPending
  <2>1. /\ sender.msg \in Msgs /\ status[sender.msg] = "none"
        /\ status' = [status EXCEPT ![sender.msg] = "pending"]
        /\ UNCHANGED <<targets, received>>
    BY <1>2 DEF PrintPending, PrintLine, network, TypeOK, TrackInv, SenderInv
  <2>2. Promise!Await(sender.msg)
    BY <2>1 DEF Promise!Await
  <2>. QED
    BY <2>1, <2>2 DEF Promise!Next
<1>3. CASE MakeTracker
  <2>1. /\ sender.msg \in Msgs /\ status[sender.msg] = "pending"
        /\ UNCHANGED <<targets, received>>
    BY <1>3 DEF MakeTracker, network, TypeOK, TrackInv, SenderInv
  <2>2. CASE targets[sender.msg] = {}
    <3>1. status' = [status EXCEPT ![sender.msg] = "ok"]
      BY <1>3, <2>2 DEF MakeTracker, Update
    <3>. QED
      BY <2>1, <2>2, <3>1, ResolveStep DEF Final
  <2>3. CASE targets[sender.msg] # {}
    <3>1. UNCHANGED status
      BY <1>3, <2>3 DEF MakeTracker
    <3>. QED
      BY <2>1, <3>1, StutterStep
  <2>. QED
    BY <2>2, <2>3
<1>4. CASE Ack
  <2>. DEFINE m == ackr.msg
              left == tracker[m].pending \ {ackr.addr}
  <2>1. m \in Msgs /\ m \in trackers /\ UNCHANGED <<targets, received>>
    BY <1>4 DEF Ack, network, TypeOK, TrackInv, SenderInv
  <2>2. CASE tracker[m].done \/ left # {}
    <3>1. UNCHANGED status
      BY <1>4, <2>2 DEF Ack, CountAck
    <3>. QED
      BY <2>1, <3>1, StutterStep
  <2>3. CASE ~tracker[m].done /\ left = {}
    <3>1. status' = [status EXCEPT ![m] = "ok"]
      BY <1>4, <2>3 DEF Ack, CountAck, Update
    <3>2. status[m] = "pending" /\ Made(m)
      BY <2>1, <2>3, LivePending DEF TrackInv, Life
    <3>3. ackr.addr \in Addrs /\ <<m, ackr.addr>> \in acks
      BY <1>4 DEF Ack, AckInv, AckInHand, TypeOK
    <3>4. ackr.addr[1] \in received[m]
      BY <2>1, <3>3 DEF AckInv, Told
    <3>5. \A a \in targets[m] : a[1] \in received[m]
      BY <2>1, <2>3, <3>2, <3>4 DEF AckInv, Told
    <3>. QED
      BY <2>1, <3>1, <3>2, <3>5, ResolveStep DEF Final
  <2>. QED
    BY <2>2, <2>3
<1>5. ASSUME NEW m \in Msgs, Timeout(m)
      PROVE  [Promise!Next]_(Promise!vars)
  <2>1. m \in timers /\ UNCHANGED <<targets, received>>
    BY <1>5 DEF Timeout, network
  <2>2. CASE tracker[m].done
    <3>1. UNCHANGED status
      BY <1>5, <2>2 DEF Timeout
    <3>. QED
      BY <2>1, <3>1, StutterStep
  <2>3. CASE ~tracker[m].done
    <3>1. status' = [status EXCEPT ![m] = Verdict(m)]
      BY <1>5, <2>3 DEF Timeout, Update
    <3>2. Life(m) /\ Told(m) /\ Made(m) /\ status[m] = "pending"
      BY <2>1, <2>3, LivePending DEF TrackInv, AckInv, Life
    <3>3. tracker[m].pending # {} /\ tracker[m].pending \subseteq targets[m]
      BY <2>3, <3>2 DEF Life
    <3>4. CASE tracker[m].pending = targets[m]
      BY <2>1, <3>1, <3>2, <3>3, <3>4, ResolveStep DEF Verdict, Final
    <3>5. CASE tracker[m].pending # targets[m]
      <4>1. PICK a \in targets[m] : a \notin tracker[m].pending
        BY <3>3, <3>5
      <4>2. a[1] \in received[m]
        BY <3>2, <4>1 DEF Told
      <4>. QED
        BY <2>1, <3>1, <3>2, <3>5, <4>2, ResolveStep DEF Verdict, Final
    <3>. QED
      BY <3>4, <3>5
  <2>. QED
    BY <2>2, <2>3
<1>6. ASSUME NEW m \in Msgs, NEW p \in Peers, Deliver(m, p)
      PROVE  Promise!Next
  <2>1. /\ <<m, Address(p)>> \in chat
        /\ received' = [received EXCEPT ![m] = @ \cup {p}]
        /\ UNCHANGED <<status, targets>>
    BY <1>6 DEF Deliver
  <2>2. Address(p) \in targets[m]
    BY <2>1, AddressType DEF AckInv, Told
  <2>3. p \in Recipients[m]
    BY <2>2 DEF Recipients, Address
  <2>4. Promise!Arrive(m, p)
    BY <2>1, <2>3 DEF Promise!Arrive, Recipients
  <2>. QED
    BY <2>4 DEF Promise!Next
<1>7. ASSUME UNCHANGED <<status, targets, received>>
      PROVE  UNCHANGED Promise!vars
  BY <1>7, StutterStep
<1>. QED
  BY <1>1, <1>2, <1>3, <1>4, <1>5, <1>6, <1>7
     DEF Next, SendStep, SendTo, Register, HearAck, FindTracker, LeaveRoom, JoinRoom,
         Move, PrintOther, network, vars

\* The chat branch of _send_loop, the trackers and the ack branch of _recv_loop
\* together keep the promise of the verdict.
THEOREM PromiseKept == Spec => KeepsPromise
<1>1. Init => Promise!Init
  BY DEF Init, Promise!Init
<1>. QED
  BY <1>1, PromiseStep, AckHolds, PTL DEF Spec, KeepsPromise, Promise!Spec

=============================================================================
