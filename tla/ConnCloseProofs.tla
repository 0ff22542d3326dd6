--------------------------- MODULE ConnCloseProofs ---------------------------
(* Close against the senders on chanMessage: messageMutex and the closing flag
   keep MessageQuit the last message, sent once, and ahead of the close of the
   channel. *)
EXTENDS ConnIdProofs

(* The critical sections that hold messageMutex across steps. *)
Critical == {"send", "close.quit", "close.wait", "close.timed", "close.join"}

QuitQueued == \E i \in DOMAIN chanMessage : chanMessage[i].op = "quit"

(* MessageQuit has been sent. *)
QuitSent ==
    \/ pm \in {"cleanup", "exited"}
    \/ pm = "sending" /\ out.ret = "cleanup"
    \/ QuitQueued

(* Who may be in a critical section, and what each has done by then. *)
LockInv ==
    /\ \A p \in Procs : pc[p] \in Critical <=> messageMutex = p
    /\ \A p \in Procs : pc[p] = "send" => ~closing
    /\ \A p \in Procs : pc[p] = "close.quit" => ~QuitSent
    /\ \A p \in Procs : pc[p] \in {"close.wait", "close.timed"} => QuitSent
    /\ \A p \in Procs : pc[p] \in {"close.quit", "close.wait", "close.timed"}
                            => closing /\ ~chanClosed
    /\ \A p \in Procs : pc[p] = "close.join" => chanClosed
    /\ QuitSent => closing
    /\ chanClosed => QuitSent
    /\ closing /\ messageMutex = None => chanClosed
    /\ wgClose = IF chanClosed THEN 0 ELSE 1

(* Nothing follows MessageQuit into the queue. *)
QuitInv ==
    /\ \A i \in DOMAIN chanMessage : chanMessage[i].op = "quit" => i = Len(chanMessage)
    /\ pm \in {"cleanup", "exited"} => chanMessage = <<>>
    /\ pm = "sending" /\ out.ret = "cleanup" => chanMessage = <<>>

(* Whether MessageQuit was sent depends on the queue and on where
   processMessages is. *)
LEMMA QuitSentSame ==
    ASSUME UNCHANGED <<chanMessage, pm, out>>
    PROVE  QuitSent' <=> QuitSent
BY DEF QuitSent, QuitQueued

(* A step that keeps the mutex and the flags and moves nobody into or out of a
   critical section. *)
Quiet ==
    /\ UNCHANGED <<messageMutex, closing, chanClosed, wgClose>>
    /\ QuitSent' <=> QuitSent
    /\ \A q \in Procs : pc'[q] = pc[q] \/ (pc[q] \notin Critical /\ pc'[q] \notin Critical)

(* A quiet step preserves the mutex discipline. *)
LEMMA LockQuiet == LockInv /\ Quiet => LockInv'
<1> SUFFICES ASSUME LockInv, Quiet PROVE LockInv'
  OBVIOUS
<1> USE DEF LockInv, Quiet, Critical
<1>1. \A p \in Procs : pc'[p] \in Critical <=> messageMutex' = p
  OBVIOUS
<1>2. /\ \A p \in Procs : pc'[p] = "send" => ~closing'
      /\ \A p \in Procs : pc'[p] = "close.quit" => ~QuitSent'
      /\ \A p \in Procs : pc'[p] \in {"close.wait", "close.timed"} => QuitSent'
      /\ \A p \in Procs : pc'[p] \in {"close.quit", "close.wait", "close.timed"}
                              => closing' /\ ~chanClosed'
      /\ \A p \in Procs : pc'[p] = "close.join" => chanClosed'
  OBVIOUS
<1>3. /\ QuitSent' => closing'
      /\ chanClosed' => QuitSent'
      /\ closing' /\ messageMutex' = None => chanClosed'
      /\ wgClose' = IF chanClosed' THEN 0 ELSE 1
  OBVIOUS
<1>4. QED
  BY <1>1, <1>2, <1>3

(* A message other than MessageQuit leaves the queue. *)
LEMMA ReceiveQuiet ==
    ASSUME Types, NEW op, op # "quit", Receive(op),
           \/ UNCHANGED <<pm, out>>
           \/ \E i, w, b : Respond(i, w, b, "select")
    PROVE  QuitSent' <=> QuitSent
<1>1. QuitQueued' <=> QuitQueued
  <2>1. /\ chanMessage \in Seq(Message) /\ chanMessage # <<>>
        /\ chanMessage' = Tail(chanMessage) /\ Head(chanMessage).op # "quit"
    BY DEF Types, QueueTypes, Receive
  <2>2. /\ Head(chanMessage) = chanMessage[1]
        /\ \A i \in DOMAIN chanMessage' :
              i + 1 \in DOMAIN chanMessage /\ chanMessage'[i] = chanMessage[i + 1]
        /\ \A i \in DOMAIN chanMessage :
              i # 1 => i - 1 \in DOMAIN chanMessage' /\ chanMessage'[i - 1] = chanMessage[i]
    BY <2>1, QueueTail
  <2>3. ASSUME NEW i \in DOMAIN chanMessage, chanMessage[i].op = "quit" PROVE QuitQueued'
    BY Zenon, <2>1, <2>2, <2>3 DEF QuitQueued
  <2>4. ASSUME NEW i \in DOMAIN chanMessage', chanMessage'[i].op = "quit" PROVE QuitQueued
    BY <2>2, <2>4 DEF QuitQueued
  <2>5. QED
    BY <2>3, <2>4 DEF QuitQueued
<1>2. pm = "select" /\ (pm' = "select" \/ (pm' = "sending" /\ out'.ret = "select"))
  BY RespondFields DEF Receive
<1>3. QED
  BY <1>1, <1>2 DEF QuitSent

(* processMessages comes back from sendResponse. *)
LEMMA ReturnQuiet ==
    ASSUME Types, SendResponseReturn, UNCHANGED chanMessage
    PROVE  QuitSent' <=> QuitSent
<1>1. pm = "sending" /\ pm' = out.ret /\ out.ret \in {"select", "cleanup"}
  BY Zenon DEF SendResponseReturn, Types, LoopTypes, Sending
<1>2. QED
  BY <1>1 DEF QuitSent, QuitQueued

(* The actions that are quiet in this sense. *)
LEMMA QuietSteps ==
    ASSUME Types, IdInv, [Next]_vars,
           \A p \in Procs : ~SharedStep(p)
    PROVE  Quiet
<1>t. /\ pc \in [Procs -> CallerLocs \cup ReaderLocs \cup TimerLocs]
      /\ Callers \subseteq Procs /\ Readers \subseteq Procs /\ IDs \subseteq Procs
  BY DEF Types, CallTypes, Procs
<1> DEFINE Pcs == \A q \in Procs : pc'[q] = pc[q] \/ (pc[q] \notin Critical /\ pc'[q] \notin Critical)
           Flags == UNCHANGED <<messageMutex, closing, chanClosed, wgClose>>
<1>m. ASSUME NEW p \in Procs, NEW l, pc' = [pc EXCEPT ![p] = l],
             pc[p] \notin Critical, l \notin Critical
      PROVE  Pcs
  BY <1>m, <1>t
<1>u. ASSUME Flags, Pcs, QuitSent' <=> QuitSent PROVE Quiet
  BY <1>u DEF Quiet
<1> USE DEF flagVars, closeVars, chanVars, pmVars, OnlyPc, Goto, Critical
<1> HIDE DEF Pcs
<1>1. ASSUME NEW c \in Callers, NEW k \in Kinds, Call(c, k) PROVE Quiet
  <2>1. Pcs
    BY Zenon, <1>1, <1>t, <1>m DEF Call
  <2>2. QED
    BY <1>1, <2>1, <1>u, QuitSentSame DEF Call
<1>2. ASSUME NEW c \in Callers, \/ NextMessageID(c) \/ EncodeError(c) \/ SendMessage(c)
                                \/ CountRequest(c)
      PROVE Quiet
  <2>1. Pcs
    BY <1>2, <1>t, <1>m DEF NextMessageID, EncodeError, SendMessage, CountRequest
  <2>2. QED
    BY <1>2, <2>1, <1>u, QuitSentSame DEF NextMessageID, EncodeError, SendMessage, CountRequest
<1>3. ASSUME NEW c \in Callers, ReceiveClosed(c) \/ Delivered(c) \/ Cancelled(c)
      PROVE Quiet
  <2>1. Pcs
    BY <1>3, <1>t, <1>m DEF ReceiveClosed, Delivered, Cancelled
  <2>2. QED
    BY <1>3, <2>1, <1>u, QuitSentSame DEF ReceiveClosed, Delivered, Cancelled
<1>4. ASSUME NEW c \in Callers, \/ FinishMessage(c) \/ FinishMessageTest(c)
                                \/ FinishMessageCount(c) \/ HandshakeFails(c)
      PROVE Quiet
  <2>1. Pcs
    BY <1>4, <1>t, <1>m DEF FinishMessage, FinishMessageTest, FinishMessageCount, HandshakeFails, AfterFinish
  <2>2. QED
    BY <1>4, <2>1, <1>u, QuitSentSame DEF FinishMessage, FinishMessageTest, FinishMessageCount, HandshakeFails
<1>5. ASSUME NEW c \in Callers, HandshakeSucceeds(c) PROVE Quiet
  <2>1. Pcs
    BY <1>5, <1>t DEF HandshakeSucceeds, Pcs
  <2>2. QED
    BY <1>5, <2>1, <1>u, QuitSentSame DEF HandshakeSucceeds
<1>6. ASSUME NEW c \in Callers, SendResponse(c) PROVE Quiet
  <2>1. Pcs
    <3>1. PICK l \in AfterReceive(c, out.what) : pc' = [pc EXCEPT ![c] = l]
      BY Zenon, <1>6 DEF SendResponse
    <3>2. l \notin Critical
      BY <3>1 DEF AfterReceive
    <3>3. QED
      BY Zenon, <3>1, <3>2, <1>6, <1>t, <1>m DEF SendResponse
  <2>2. QED
    BY <1>6, <2>1, <1>u, ReturnQuiet DEF SendResponse
<1>7. ASSUME NEW id \in IDs, TimerFires(id) \/ TimerStops(id) PROVE Quiet
  <2>1. Pcs
    BY <1>7, <1>t, <1>m DEF TimerFires, TimerStops
  <2>2. QED
    BY <1>7, <2>1, <1>u, QuitSentSame DEF TimerFires, TimerStops
<1>8. ASSUME NEW r \in Readers, ReaderStep(r) PROVE Quiet
  <2>1. Pcs
    <3>1. CASE UNCHANGED pc
      BY <3>1 DEF Pcs
    <3>2. CASE \E l \in {"test", "close.lock", "store", "stopped", "lock"} : Goto(r, l)
      BY Zenon, <3>2, <1>8, <1>t, <1>m DEF ReaderStep, ReadPacket, ReadError, StoreCloseErr, TestStartingTLS
    <3>3. QED
      BY Zenon, <3>1, <3>2, <1>8 DEF ReaderStep, ReadPacket, ReadError, StoreCloseErr, TestStartingTLS
  <2>2. QED
    BY Zenon, <1>8, <2>1, <1>u, QuitSentSame DEF ReaderStep, ReadPacket, ReadError, StoreCloseErr, TestStartingTLS
<1>9. CASE ProcessMessages
  <2>p. ASSUME UNCHANGED pc PROVE Pcs
    BY <2>p DEF Pcs
  <2>1. CASE ProcessQuit
    <3>1. QuitSent /\ QuitSent'
      <4>1. Head(chanMessage) = chanMessage[1] /\ 1 \in DOMAIN chanMessage
        BY <2>1, QueueTail DEF ProcessQuit, Receive, Types, QueueTypes
      <4>2. QED
        BY <2>1, <4>1 DEF ProcessQuit, Receive, QuitSent, QuitQueued
    <3>2. QED
      BY <2>1, <2>p, <3>1, <1>u DEF ProcessQuit
  <2>2. CASE ProcessRequest
    <3> DEFINE m == Head(chanMessage)
    <3>1. m = chanMessage[1] /\ 1 \in DOMAIN chanMessage /\ m.id \in 0..MaxOps /\ m.op = "request"
      BY <2>2, QueueTail, ReceiveType DEF ProcessRequest, Receive, Types, QueueTypes
    <3>2. m.id \in IDs => pc[m.id] = "off"
      BY <3>1, ConnAssumption DEF ConnAssumption, IdInv, IdQueued, Unwritten, IDs
    <3>3. m.id \notin IDs => m.id \notin Procs
      BY <3>1, ConnAssumption DEF ConnAssumption, Procs
    <3>4. Pcs
      BY <2>2, <3>2, <3>3, <1>t DEF ProcessRequest, Pcs
    <3>5. QED
      BY <2>2, <3>4, <1>u, ReceiveQuiet DEF ProcessRequest
  <2>3. CASE ProcessRequestError
    BY Zenon, <2>3, <2>p, <1>u, ReceiveQuiet DEF ProcessRequestError
  <2>4. CASE ProcessResponse
    BY Zenon, <2>4, <2>p, <1>u, ReceiveQuiet DEF ProcessResponse
  <2>5. CASE ProcessTimeout
    BY Zenon, <2>5, <2>p, <1>u, ReceiveQuiet DEF ProcessTimeout
  <2>6. CASE ProcessFinish
    BY <2>6, <2>p, <1>u, ReceiveQuiet DEF ProcessFinish
  <2>7. ASSUME NEW id \in IDs, Cleanup(id) PROVE Quiet
    <3>1. UNCHANGED <<pm, out>> \/ Respond(id, "close error", TRUE, "cleanup")
      BY <2>7, Zenon DEF Cleanup
    <3>2. pm = "cleanup" /\ UNCHANGED pc /\ Flags
      BY Zenon, <2>7 DEF Cleanup
    <3>3. QuitSent /\ QuitSent'
      BY Zenon, <3>1, <3>2, RespondFields DEF QuitSent
    <3>4. QED
      BY <3>2, <3>3, <2>p, <1>u
  <2>8. CASE CleanupDone
    BY <2>8, <2>p, <1>u DEF CleanupDone, QuitSent
  <2>9. CASE SendResponseDropped
    BY <2>9, <2>p, <1>u, ReturnQuiet DEF SendResponseDropped
  <2>10. QED
    BY <1>9, <2>1, <2>2, <2>3, <2>4, <2>5, <2>6, <2>7, <2>8, <2>9 DEF ProcessMessages
<1>10. CASE Start
  <2>1. PICK r \in Readers : pc[r] = "off" /\ pc' = [pc EXCEPT ![r] = "read"]
    BY Zenon, <1>10 DEF Start
  <2>2. Pcs
    BY Zenon, <2>1, <1>t, <1>m
  <2>3. QED
    BY <1>10, <2>2, <1>u DEF Start, QuitSent, QuitQueued
<1>11. CASE (\E t \in Timeouts : SetTimeout(t)) \/ Server \/ UNCHANGED vars
  BY Zenon, <1>11, <1>u, QuitSentSame DEF SetTimeout, Server, ServerEntry, ServerResult,
     ServerStray, ServerCloses, ServerSends, vars, Pcs
<1>12. QED
  BY <1>1, <1>2, <1>3, <1>4, <1>5, <1>6, <1>7, <1>8, <1>9, <1>10, <1>11 DEF Next, CallerStep

(* Every step preserves the mutex discipline of sendProcessMessage and Close. *)
LEMMA LockNext == Types /\ IdInv /\ LockInv /\ [Next]_vars => LockInv'
<1> SUFFICES ASSUME Types, IdInv, LockInv, [Next]_vars PROVE LockInv'
  OBVIOUS
<1>t. /\ pc \in [Procs -> CallerLocs \cup ReaderLocs \cup TimerLocs]
      /\ None \notin Procs /\ wgClose \in Int
      /\ closing \in BOOLEAN /\ chanClosed \in BOOLEAN
  BY ConnAssumption DEF ConnAssumption, Types, CallTypes, Procs, IDs, CountTypes, FlagTypes
<1> USE DEF flagVars, closeVars, chanVars, pmVars, Goto, Critical
<1>1. CASE \A p \in Procs : ~SharedStep(p)
  BY <1>1, QuietSteps, LockQuiet
<1>2. ASSUME NEW p \in Procs, SendProcessMessageLock(p) PROVE LockInv'
  <2>q. QuitSent' <=> QuitSent
    BY <1>2, QuitSentSame DEF SendProcessMessageLock
  <2>1. CASE closing
    <3>1. AfterSend(p, FALSE) \notin Critical
      BY DEF AfterSend, AfterFinish
    <3>2. Quiet
      BY Zenon, <1>2, <1>t, <2>q, <2>1, <3>1 DEF SendProcessMessageLock, Quiet
    <3>3. QED
      BY <3>2, LockQuiet
  <2>2. CASE ~closing
    BY <1>2, <1>t, <2>q, <2>2 DEF SendProcessMessageLock, LockInv
  <2>3. QED
    BY <2>1, <2>2
<1>3. ASSUME NEW p \in Procs, SendProcessMessageSend(p) PROVE LockInv'
  <2>1. AfterSend(p, TRUE) \notin Critical
    BY DEF AfterSend, AfterFinish
  <2>2. ~closing /\ messageMutex = p /\ ~QuitSent
    BY <1>3 DEF SendProcessMessageSend, LockInv
  <2>3. ~QuitSent'
    <3>1. MessageOf(p).op # "quit" /\ MessageOf(p) \in Message
      BY MessageType DEF MessageOf, Types
    <3>2. ~QuitQueued'
      BY <1>3, <2>2, <3>1, ChanAppend DEF SendProcessMessageSend, QuitSent, QuitQueued, Types, QueueTypes
    <3>3. QED
      BY <1>3, <2>2, <3>2 DEF SendProcessMessageSend, QuitSent
  <2>4. /\ pc' = [pc EXCEPT ![p] = AfterSend(p, TRUE)] /\ messageMutex' = None
        /\ UNCHANGED <<closing, chanClosed, wgClose>>
    BY <1>3 DEF SendProcessMessageSend
  <2>5. \A q \in Procs \ {p} : pc[q] \notin Critical
    BY <2>2 DEF LockInv
  <2>6. \A q \in Procs : pc'[q] \notin Critical
    BY Zenon, <2>1, <2>4, <2>5, <1>t
  <2>7. QED
    BY Zenon, <2>2, <2>3, <2>4, <2>6, <1>t DEF LockInv
<1>4. ASSUME NEW p \in Procs, CloseLock(p) PROVE LockInv'
  <2>q. QuitSent' <=> QuitSent
    BY <1>4, QuitSentSame DEF CloseLock
  <2>1. \A q \in Procs : pc[q] \notin Critical
    BY <1>4, <1>t DEF CloseLock, LockInv
  <2>2. CASE closing
    BY <1>4, <1>t, <2>q, <2>1, <2>2 DEF CloseLock, LockInv
  <2>3. CASE ~closing
    BY <1>4, <1>t, <2>q, <2>1, <2>3 DEF CloseLock, LockInv
  <2>4. QED
    BY <2>2, <2>3
<1>5. ASSUME NEW p \in Procs, CloseQuit(p) PROVE LockInv'
  <2>1. QuitSent'
    <3>1. QuitMessage.op = "quit"
      BY DEF QuitMessage
    <3>2. QED
      BY <1>5, <3>1, QuitType, QueueAppend DEF CloseQuit, QuitSent, QuitQueued, Types, QueueTypes
  <2>2. messageMutex = p /\ closing /\ ~chanClosed
    BY <1>5 DEF CloseQuit, LockInv
  <2>3. /\ pc' = [pc EXCEPT ![p] = IF requestTimeout THEN "close.timed" ELSE "close.wait"]
        /\ UNCHANGED <<messageMutex, closing, chanClosed, wgClose>>
    BY <1>5 DEF CloseQuit
  <2>4. \A q \in Procs \ {p} : pc[q] \notin Critical /\ pc'[q] = pc[q]
    BY <2>2, <2>3, <1>t DEF LockInv
  <2>5. pc'[p] \in {"close.wait", "close.timed"}
    BY <2>3, <1>t
  <2>6. QED
    BY <2>1, <2>2, <2>3, <2>4, <2>5, <1>t DEF LockInv
<1>6. ASSUME NEW p \in Procs, CloseConfirmed(p) PROVE LockInv'
  <2>q. QuitSent' <=> QuitSent
    BY <1>6, QuitSentSame DEF CloseConfirmed
  <2>1. messageMutex = p /\ closing /\ ~chanClosed /\ QuitSent /\ wgClose = 1
    BY <1>6 DEF CloseConfirmed, LockInv
  <2>2. /\ pc' = [pc EXCEPT ![p] = "close.join"] /\ chanClosed' = TRUE
        /\ wgClose' = wgClose - 1 /\ UNCHANGED <<messageMutex, closing>>
    BY <1>6 DEF CloseConfirmed
  <2>3. \A q \in Procs \ {p} : pc[q] \notin Critical /\ pc'[q] = pc[q]
    BY <2>1, <2>2, <1>t DEF LockInv
  <2>4. pc'[p] = "close.join"
    BY <2>2, <1>t
  <2>5. QED
    BY <2>q, <2>1, <2>2, <2>3, <2>4, <1>t DEF LockInv
<1>7. ASSUME NEW p \in Procs, CloseJoin(p) PROVE LockInv'
  <2>q. QuitSent' <=> QuitSent
    BY <1>7, QuitSentSame DEF CloseJoin
  <2>1. messageMutex = p /\ chanClosed
    BY <1>7 DEF CloseJoin, LockInv
  <2>2. /\ pc' = [pc EXCEPT ![p] = AfterClose(p)] /\ messageMutex' = None
        /\ UNCHANGED <<closing, chanClosed, wgClose>>
    BY <1>7 DEF CloseJoin
  <2>3. AfterClose(p) \notin Critical
    BY DEF AfterClose
  <2>4. \A q \in Procs : pc'[q] \notin Critical
    BY <2>1, <2>2, <2>3, <1>t DEF LockInv
  <2>5. QED
    BY <2>q, <2>1, <2>2, <2>4, <1>t DEF LockInv
<1>8. QED
  BY <1>1, <1>2, <1>3, <1>4, <1>5, <1>6, <1>7 DEF SharedStep

(* Every step keeps MessageQuit the last message of the queue. *)
LEMMA QuitNext == Types /\ LockInv /\ QuitInv /\ [Next]_vars => QuitInv'
<1> SUFFICES ASSUME Types, LockInv, QuitInv, [Next]_vars PROVE QuitInv'
  OBVIOUS
<1>t. /\ chanMessage \in Seq(Message) /\ out.ret \in {"select", "cleanup"}
  BY Zenon DEF Types, QueueTypes, LoopTypes, Sending
<1> USE DEF chanVars, pmVars
<1> DEFINE Over == pm \in {"cleanup", "exited"} \/ (pm = "sending" /\ out.ret = "cleanup")
<1>o. QuitInv <=> /\ \A i \in DOMAIN chanMessage : chanMessage[i].op = "quit" => i = Len(chanMessage)
                  /\ Over => chanMessage = <<>>
  BY DEF QuitInv
<1>p. QuitInv' <=> /\ \A i \in DOMAIN chanMessage' : chanMessage'[i].op = "quit" => i = Len(chanMessage')
                   /\ Over' => chanMessage' = <<>>
  BY DEF QuitInv
<1>a. ASSUME NEW m \in Message, chanMessage' = Append(chanMessage, m), UNCHANGED <<pm, out>>,
             ~QuitSent
      PROVE  QuitInv'
  <2>1. ~Over /\ \A i \in DOMAIN chanMessage : chanMessage[i].op # "quit"
    BY <1>a DEF QuitSent, QuitQueued
  <2>2. ~Over'
    BY <1>a, <2>1
  <2>3. \A i \in DOMAIN chanMessage' : chanMessage'[i].op = "quit" => i = Len(chanMessage')
    BY <1>a, <1>t, <2>1, QueueAppend
  <2>4. QED
    BY <2>2, <2>3, <1>p
<1>r. ASSUME NEW op, Receive(op)
      PROVE  /\ \A i \in DOMAIN chanMessage' : chanMessage'[i].op = "quit" => i = Len(chanMessage')
             /\ op = "quit" => chanMessage' = <<>>
  <2>1. chanMessage # <<>> /\ chanMessage' = Tail(chanMessage) /\ Head(chanMessage).op = op
    BY <1>r DEF Receive
  <2>2. QED
    BY <2>1, <1>o, <1>t, QueueTail, HeadTail
<1>k. ASSUME UNCHANGED chanMessage, Over' => Over PROVE QuitInv'
  BY <1>k, <1>o, <1>p
<1>1. ASSUME NEW p \in Procs, SendProcessMessageSend(p) PROVE QuitInv'
  <2>1. ~QuitSent
    BY <1>1 DEF SendProcessMessageSend, LockInv
  <2>2. QED
    BY <1>1, <2>1, <1>a, MessageType DEF SendProcessMessageSend, Types
<1>2. ASSUME NEW p \in Procs, CloseQuit(p) PROVE QuitInv'
  <2>1. ~QuitSent
    BY <1>2 DEF CloseQuit, LockInv
  <2>2. QED
    BY <1>2, <2>1, <1>a, QuitType DEF CloseQuit
<1>3. CASE ProcessQuit
  BY <1>3, <1>r, <1>p DEF ProcessQuit
<1>4. ASSUME NEW op, Receive(op),
             \/ UNCHANGED <<pm, out>>
             \/ \E i, w, b : Respond(i, w, b, "select")
      PROVE  QuitInv'
  <2>1. ~Over'
    BY <1>4, RespondFields DEF Receive
  <2>2. QED
    BY <2>1, <1>4, <1>r, <1>p
<1>5. CASE ProcessRequest \/ ProcessRequestError \/ ProcessResponse \/ ProcessTimeout
            \/ ProcessFinish
  BY Zenon, <1>5, <1>4 DEF ProcessRequest, ProcessRequestError, ProcessResponse, ProcessTimeout,
     ProcessFinish
<1>6. ASSUME NEW id \in IDs, Cleanup(id) PROVE QuitInv'
  <2>1. UNCHANGED chanMessage /\ Over
    BY Zenon, <1>6 DEF Cleanup
  <2>2. QED
    BY <2>1, <1>k
<1>7. CASE CleanupDone
  BY <1>7, <1>k DEF CleanupDone
<1>8. ASSUME SendResponseReturn, UNCHANGED chanMessage PROVE QuitInv'
  <2>1. Over' => Over
    BY <1>8, <1>t DEF SendResponseReturn
  <2>2. QED
    BY <2>1, <1>8, <1>k
<1>9. CASE SendResponseDropped \/ \E c \in Callers : SendResponse(c)
  BY <1>9, <1>8 DEF SendResponseDropped, SendResponse
<1>10. CASE Start
  BY <1>10, <1>k DEF Start
<1>11. CASE UNCHANGED <<chanMessage, pm, out>>
  BY <1>11, <1>k
<1>12. CASE \E c \in Callers : CallerStep(c) /\ ~SendResponse(c)
  BY Zenon, <1>12, <1>11 DEF CallerStep, Call, NextMessageID, EncodeError, SendMessage, CountRequest,
     ReceiveClosed, Delivered, Cancelled, FinishMessage, FinishMessageTest,
     FinishMessageCount, HandshakeSucceeds, HandshakeFails, OnlyPc
<1>13. CASE \E p \in Procs : \/ SendProcessMessageLock(p) \/ CloseLock(p)
                             \/ CloseConfirmed(p) \/ CloseJoin(p)
  BY Zenon, <1>13, <1>11 DEF SendProcessMessageLock, CloseLock, CloseConfirmed, CloseJoin
<1>14. CASE (\E id \in IDs : TimerFires(id) \/ TimerStops(id)) \/ \E r \in Readers : ReaderStep(r)
  BY Zenon, <1>14, <1>11 DEF TimerFires, TimerStops, ReaderStep, ReadPacket, ReadError, StoreCloseErr,
     TestStartingTLS, OnlyPc
<1>15. CASE (\E t \in Timeouts : SetTimeout(t)) \/ Server \/ UNCHANGED vars
  BY Zenon, <1>15, <1>11 DEF SetTimeout, Server, ServerEntry, ServerResult, ServerStray,
     ServerCloses, ServerSends, vars
<1>16. QED
  BY <1>1, <1>2, <1>3, <1>5, <1>6, <1>7, <1>9, <1>10, <1>12, <1>13, <1>14, <1>15
  DEF Next, CallerStep, SharedStep, ProcessMessages

(* NewConn establishes both. *)
LEMMA CloseInit == Init => LockInv /\ QuitInv
<1> SUFFICES ASSUME Init PROVE LockInv /\ QuitInv
  OBVIOUS
<1> USE DEF Init
<1>1. ~QuitSent
  BY DEF QuitSent, QuitQueued
<1>2. \A p \in Procs : pc[p] \notin Critical /\ p # None
  BY ConnAssumption DEF ConnAssumption, Critical, Procs, IDs
<1>3. LockInv
  BY <1>1, <1>2 DEF LockInv, Critical
<1>4. QuitInv
  BY DEF QuitInv
<1>5. QED
  BY <1>3, <1>4

(* What the discipline gives: chanMessage is used safely. *)
LEMMA ChanMessageSafeNow == Types /\ LockInv /\ QuitInv => ChanMessageSafe
<1> SUFFICES ASSUME Types, LockInv, QuitInv PROVE ChanMessageSafe
  OBVIOUS
<1>1. \A p \in Procs : pc[p] = "send" => ~chanClosed
  BY DEF LockInv
<1>2. \A p \in Procs : pc[p] \in {"close.quit", "close.wait", "close.timed"}
                          => ~chanClosed /\ wgClose = 1
  BY DEF LockInv
<1>3. pm = "select" /\ chanMessage = <<>> => ~QuitSent
  BY DEF QuitSent, QuitQueued
<1>4. pm = "select" /\ chanMessage = <<>> => ~chanClosed
  BY <1>3 DEF LockInv
<1>5. QED
  BY <1>1, <1>2, <1>4 DEF ChanMessageSafe

(* What the later proofs build on. *)
CloseInv == Types /\ IdInv /\ LockInv /\ QuitInv

(* The mutex discipline of Close and sendProcessMessage, and MessageQuit as the
   last message, hold throughout: the inductive invariant behind ChanMessageSafe. *)
THEOREM CloseInvariant == Spec => []CloseInv
<1>1. Init => CloseInv
  BY TypesInit, IdInit, CloseInit DEF CloseInv
<1>2. CloseInv /\ [Next]_vars => CloseInv'
  BY TypesNext, IdNext, LockNext, QuitNext DEF CloseInv
<1>3. QED
  BY <1>1, <1>2, PTL DEF Spec

(* No send on the closed chanMessage, one close of it, and never the nil of a
   closed and drained channel: Close (conn.go:323-353) and sendProcessMessage
   (conn.go:525-533) agree through messageMutex and closing, for any number of
   callers, readers and timers and any capacity. *)
THEOREM ChanMessageSafety == Spec => []ChanMessageSafe
<1>1. CloseInv => ChanMessageSafe
  BY ChanMessageSafeNow DEF CloseInv
<1>2. QED
  BY <1>1, CloseInvariant, PTL

==============================================================================
