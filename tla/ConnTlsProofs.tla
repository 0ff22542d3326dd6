--------------------------- MODULE ConnTlsProofs ----------------------------
(* The TLS handshake has the connection to itself, for every number of callers
   and readers. *)
EXTENDS ConnSafetyProofs

(* A reader that was started and has not stopped for StartTLS. *)
Active(r) == pc[r] \notin {"off", "stopped"}

NoReader == \A r \in Readers : ~Active(r)

(* At most one reader runs, and none before Start. *)
ReaderInv ==
    /\ \A r, s \in Readers : Active(r) /\ Active(s) => r = s
    /\ pm = "off" => /\ NoReader
                     /\ \A i \in DOMAIN chanMessage : chanMessage[i].op # "response"
                     /\ \A c \in Callers : pc[c] # "handshake"

(* isStartingTLS is set while a StartTLS is under way. *)
FlagInv == \A c \in Callers : Outstanding(c) /\ kind[c] = "starttls" => isStartingTLS

(* c waits for the answer to StartTLS. *)
Starting(c) == pc[c] \in {"wait", "deliver"} /\ kind[c] = "starttls"

(* A reader has passed on a packet with this id. *)
Answered(id) ==
    \/ \E i \in DOMAIN chanMessage : chanMessage[i].op = "response" /\ chanMessage[i].id = id
    \/ pm = "sending" /\ out.id = id /\ out.what = "ok"

(* The reader that has the answer to StartTLS in hand is going to stop, and has
   stopped once it has passed it on. *)
AnswerInv ==
    \A c \in Callers :
        /\ Starting(c) =>
             /\ \A r \in Readers :
                   pc[r] \in {"lock", "send"} /\ packet[r].id = cid[c] => cleanstop[r]
             /\ Answered(cid[c]) => NoReader
        /\ pc[c] = "handshake" => NoReader

(* No request is queued behind the one with this id. *)
LastRequest(id) ==
    \A j \in DOMAIN chanMessage : chanMessage[j].op = "request" =>
        \E i \in DOMAIN chanMessage :
            i >= j /\ chanMessage[i].op = "request" /\ chanMessage[i].id = id

NoRequest == \A i \in DOMAIN chanMessage : chanMessage[i].op # "request"

(* The request of StartTLS is the last to be written before the handshake. *)
WriteInv ==
    \A c \in Callers : /\ Starting(c) => LastRequest(cid[c])
                       /\ pc[c] = "handshake" => NoRequest

TlsInv == SafetyInv /\ FlagInv /\ ReaderInv /\ AnswerInv /\ WriteInv

-----------------------------------------------------------------------------
(* Where readers and callers go *)

(* A reader is moved by its own steps, or started. *)
LEMMA ReaderPc ==
    ASSUME Types, NEW r \in Readers, [Next]_vars
    PROVE  \/ pc'[r] = pc[r] \/ ReaderStep(r) \/ SharedStep(r)
           \/ Start \/ \E c \in Callers : HandshakeSucceeds(c)
<1> DEFINE Move == \/ pc'[r] = pc[r] \/ ReaderStep(r) \/ SharedStep(r)
                   \/ Start \/ \E c \in Callers : HandshakeSucceeds(c)
<1> SUFFICES Move
  OBVIOUS
<1> USE Distinct DEF Types, CallTypes, Goto, Procs
<1> HIDE DEF Move
<1>u. ASSUME pc'[r] = pc[r] PROVE Move
  BY Zenon, <1>u DEF Move
<1>c. ASSUME NEW c \in Callers, CallerStep(c) PROVE Move
  <2>1. CASE \E k \in Kinds : Call(c, k)
    BY <2>1, <1>u DEF Call
  <2>2. CASE NextMessageID(c) \/ EncodeError(c) \/ SendMessage(c) \/ CountRequest(c)
    BY <2>2, <1>u DEF NextMessageID, EncodeError, SendMessage, CountRequest
  <2>3. CASE ReceiveClosed(c) \/ Delivered(c) \/ Cancelled(c) \/ SendResponse(c)
    BY <2>3, <1>u DEF ReceiveClosed, Delivered, Cancelled, SendResponse
  <2>4. CASE FinishMessage(c) \/ FinishMessageTest(c) \/ FinishMessageCount(c)
    BY Zenon, <2>4, <1>u DEF FinishMessage, FinishMessageTest, FinishMessageCount
  <2>5. CASE HandshakeSucceeds(c)
    BY Zenon, <2>5 DEF Move
  <2>6. CASE HandshakeFails(c)
    BY Zenon, <2>6, <1>u DEF HandshakeFails
  <2>7. QED
    BY Zenon, <1>c, <2>1, <2>2, <2>3, <2>4, <2>5, <2>6 DEF CallerStep
<1>s. ASSUME NEW p \in Procs, SharedStep(p) PROVE Move
  <2>1. CASE p = r
    BY Zenon, <2>1, <1>s DEF Move
  <2>2. CASE p # r
    BY Zenon, <2>2, <1>s, <1>u DEF SharedStep, SendProcessMessageLock,
       SendProcessMessageSend, CloseLock, CloseQuit, CloseConfirmed, CloseJoin
  <2>3. QED
    BY Zenon, <2>1, <2>2
<1>t. CASE \E id \in IDs : TimerFires(id) \/ TimerStops(id)
  BY <1>t, <1>u DEF TimerFires, TimerStops
<1>r. ASSUME NEW s \in Readers, ReaderStep(s) PROVE Move
  <2>1. CASE s = r
    BY Zenon, <2>1, <1>r DEF Move
  <2>2. CASE s # r
    <3>1. pc' = pc \/ \E l : pc' = [pc EXCEPT ![s] = l]
      BY Zenon, <1>r DEF ReaderStep, ReadPacket, ReadError, StoreCloseErr, TestStartingTLS
    <3>2. QED
      BY <3>1, <2>2, <1>u
  <2>3. QED
    BY Zenon, <2>1, <2>2
<1>m. CASE ProcessMessages
  <2>1. CASE ProcessRequest
    <3>1. Head(chanMessage).id \in 0..MaxOps
      BY Zenon, <2>1, ReceiveType DEF ProcessRequest
    <3>2. QED
      BY Zenon, <2>1, <3>1, <1>u, ConnAssumption DEF ConnAssumption, ProcessRequest
  <2>2. QED
    BY Zenon, <2>1, <1>m, <1>u DEF ProcessMessages, ProcessQuit, ProcessRequestError,
       ProcessResponse, ProcessTimeout, ProcessFinish, Cleanup, CleanupDone,
       SendResponseDropped
<1>v. CASE Start \/ (\E t \in Timeouts : SetTimeout(t)) \/ Server \/ UNCHANGED vars
  BY Zenon, <1>v, <1>u DEF Move, SetTimeout, Server, ServerEntry, ServerResult, ServerStray,
     ServerCloses, ServerSends, vars
<1>q. QED
  BY Zenon, <1>c, <1>s, <1>t, <1>r, <1>m, <1>v DEF Next

(* Only Start and a successful handshake start a reader. *)
LEMMA ReaderStarts ==
    ASSUME Types, NEW r \in Readers, [Next]_vars, ~Active(r), Active(r)'
    PROVE  Start \/ \E c \in Callers : HandshakeSucceeds(c)
<1>1. pc[r] \in {"off", "stopped"} /\ pc'[r] # pc[r]
  BY DEF Active
<1>2. ~ReaderStep(r)
  BY Zenon, <1>1 DEF ReaderStep, ReadPacket, ReadError, StoreCloseErr, TestStartingTLS
<1>3. ~SharedStep(r)
  BY Zenon, <1>1 DEF SharedStep, SendProcessMessageLock, SendProcessMessageSend, CloseLock,
     CloseQuit, CloseConfirmed, CloseJoin
<1>4. QED
  BY Zenon, <1>1, <1>2, <1>3, ReaderPc

(* The locals of a reader change when it reads and when it tests the flag. *)
LEMMA ReaderLocals ==
    ASSUME Types, NEW r \in Readers, [Next]_vars
    PROVE  \/ packet'[r] = packet[r] /\ cleanstop'[r] = cleanstop[r]
           \/ ReadPacket(r) \/ TestStartingTLS(r)
<1> DEFINE Move == \/ packet'[r] = packet[r] /\ cleanstop'[r] = cleanstop[r]
                   \/ ReadPacket(r) \/ TestStartingTLS(r)
<1> SUFFICES Move
  OBVIOUS
<1> USE DEF readVars
<1>1. CASE UNCHANGED <<packet, cleanstop>>
  BY <1>1
<1>2. ASSUME NEW s \in Readers, ReadPacket(s) \/ TestStartingTLS(s) PROVE Move
  <2>1. CASE s = r
    BY <2>1, <1>2
  <2>2. CASE s # r
    BY Zenon, <2>2, <1>2 DEF ReadPacket, TestStartingTLS, Types, QueueTypes, FlagTypes
  <2>3. QED
    BY <2>1, <2>2
<1> HIDE DEF Move
<1>3. ASSUME NEW c \in Callers, CallerStep(c) PROVE Move
  BY Zenon, <1>3, <1>1 DEF CallerStep, Call, NextMessageID, EncodeError, OnlyPc, SendMessage,
     CountRequest, ReceiveClosed, Delivered, Cancelled, FinishMessage,
     FinishMessageTest, FinishMessageCount, SendResponse, HandshakeSucceeds, HandshakeFails
<1>4. ASSUME NEW p \in Procs, SharedStep(p) PROVE Move
  BY Zenon, <1>4, <1>1 DEF SharedStep, SendProcessMessageLock, SendProcessMessageSend, CloseLock,
     CloseQuit, CloseConfirmed, CloseJoin
<1>5. ASSUME NEW s \in Readers, ReaderStep(s) PROVE Move
  BY Zenon, <1>5, <1>1, <1>2 DEF ReaderStep, ReadError, OnlyPc, StoreCloseErr
<1>6. CASE \E id \in IDs : TimerFires(id) \/ TimerStops(id)
  BY Zenon, <1>6, <1>1 DEF TimerFires, TimerStops, OnlyPc
<1>7. CASE ProcessMessages
  BY Zenon, <1>7, <1>1 DEF ProcessMessages, ProcessQuit, ProcessRequest, ProcessRequestError,
     ProcessResponse, ProcessTimeout, ProcessFinish, Cleanup, CleanupDone, SendResponseDropped
<1>8. CASE Start \/ (\E t \in Timeouts : SetTimeout(t)) \/ Server \/ UNCHANGED vars
  BY Zenon, <1>8, <1>1 DEF Start, SetTimeout, Server, ServerEntry, ServerResult, ServerStray,
     ServerCloses, ServerSends, vars
<1>9. QED
  BY Zenon, <1>3, <1>4, <1>5, <1>6, <1>7, <1>8 DEF Next

(* A caller comes to the handshake with a successful answer to StartTLS. *)
LEMMA ToHandshake ==
    ASSUME CloseInv, NEW x \in Callers, [Next]_vars, pc'[x] = "handshake"
    PROVE  \/ pc[x] = "handshake"
           \/ SendResponse(x) /\ kind[x] = "starttls" /\ out.what = "ok"
<1>t. /\ pc \in [Procs -> CallerLocs \cup ReaderLocs \cup TimerLocs] /\ x \in Procs
      /\ x \notin Readers /\ x \notin IDs
  BY Distinct DEF CloseInv, Types, CallTypes, Procs
<1>1. ~\E k \in Kinds : Call(x, k)
  BY <1>t DEF Call, Goto
<1>2. ASSUME SendResponse(x) PROVE kind[x] = "starttls" /\ out.what = "ok"
  <2>1. PICK l \in AfterReceive(x, out.what) : pc' = [pc EXCEPT ![x] = l]
    BY Zenon, <1>2 DEF SendResponse, Goto
  <2>2. l = "handshake"
    BY <2>1, <1>t
  <2>3. QED
    BY <2>1, <2>2 DEF AfterReceive
<1>3. CASE CallerStep(x) /\ ~SendResponse(x)
  BY Zenon, <1>3, <1>1, <1>t DEF CallerStep, NextMessageID, EncodeError, SendMessage, CountRequest,
     ReceiveClosed, Delivered, Cancelled, FinishMessage, FinishMessageTest,
     FinishMessageCount, HandshakeSucceeds, HandshakeFails, AfterFinish, Goto
<1>4. CASE SharedStep(x)
  BY Zenon, <1>4, <1>t DEF SharedStep, SendProcessMessageLock, SendProcessMessageSend, AfterSend,
     AfterFinish, CloseLock, CloseQuit, CloseConfirmed, CloseJoin, AfterClose, Goto
<1>5. QED
  BY Zenon, <1>2, <1>3, <1>4, PcStep DEF CloseInv

(* A caller comes to wait for the answer to StartTLS by sending its request. *)
LEMMA ToStarting ==
    ASSUME CloseInv, NEW x \in Callers, [Next]_vars, Starting(x)'
    PROVE  /\ cid'[x] = cid[x] /\ kind[x] = "starttls"
           /\ \/ Starting(x)
              \/ SendProcessMessageSend(x) /\ cid[x] \notin done
<1>t. /\ pc \in [Procs -> CallerLocs \cup ReaderLocs \cup TimerLocs] /\ x \in Procs
      /\ cid \in [Callers -> 0..MaxOps] /\ x \notin Readers /\ x \notin IDs
  BY Zenon, Distinct DEF CloseInv, Types, CallTypes, Procs
<1>w. pc'[x] \in {"wait", "deliver"} /\ kind'[x] = "starttls"
  BY DEF Starting
<1>n. ~NextMessageID(x)
  BY <1>t, <1>w DEF NextMessageID, Goto
<1>c. ~\E k \in Kinds : Call(x, k)
  BY <1>t, <1>w DEF Call, Goto
<1>d. cid'[x] = cid[x] /\ kind[x] = "starttls"
  BY <1>t, <1>w, <1>n, <1>c, IdStep, KindStep DEF NextMessageID, CloseInv
<1>1. CASE pc'[x] = pc[x]
  BY <1>1, <1>d, <1>w DEF Starting
<1>2. CASE CallerStep(x)
  <2>1. CASE EncodeError(x) \/ SendMessage(x) \/ CountRequest(x) \/ FinishMessage(x)
    BY Zenon, <2>1, <1>t, <1>w DEF EncodeError, SendMessage, CountRequest, FinishMessage, Goto
  <2>2. CASE ReceiveClosed(x) \/ Cancelled(x) \/ SendResponse(x)
    BY Zenon, <2>2, <1>d DEF ReceiveClosed, Cancelled, SendResponse, Starting
  <2>6. CASE Delivered(x)
    <3>1. CASE pc[x] = "deliver"
      BY <3>1, <1>d DEF Starting
    <3>2. CASE pc[x] = "deliver.last" /\ Goto(x, "finish")
      BY <3>2, <1>t, <1>w DEF Goto
    <3>3. QED
      BY Zenon, <2>6, <3>1, <3>2 DEF Delivered
  <2>3. CASE HandshakeSucceeds(x) \/ HandshakeFails(x)
    BY Zenon, <2>3, <1>t, <1>w DEF HandshakeSucceeds, HandshakeFails, Goto
  <2>4. CASE FinishMessageTest(x) \/ FinishMessageCount(x)
    BY Zenon, <2>4, <1>t, <1>w DEF FinishMessageTest, FinishMessageCount, AfterFinish, Goto
  <2>5. QED
    BY Zenon, <1>2, <1>n, <1>c, <2>1, <2>2, <2>3, <2>4, <2>6 DEF CallerStep
<1>3. CASE SharedStep(x)
  <2>1. CASE SendProcessMessageLock(x)
    BY Zenon, <2>1, <1>t, <1>w DEF SendProcessMessageLock, AfterSend, AfterFinish, Goto
  <2>2. CASE SendProcessMessageSend(x)
    <3>1. pc'[x] = AfterSend(x, TRUE)
      BY Zenon, <2>2, <1>t DEF SendProcessMessageSend, Goto
    <3>2. cid[x] \notin done
      BY Zenon, <3>1, <1>t, <1>w DEF AfterSend, AfterFinish
    <3>3. QED
      BY <2>2, <3>2, <1>d
  <2>3. CASE CloseLock(x) \/ CloseQuit(x) \/ CloseConfirmed(x) \/ CloseJoin(x)
    BY Zenon, <2>3, <1>t, <1>w DEF CloseLock, CloseQuit, CloseConfirmed, CloseJoin, AfterClose, Goto
  <2>4. QED
    BY Zenon, <1>3, <2>1, <2>2, <2>3 DEF SharedStep
<1>4. QED
  BY Zenon, <1>d, <1>1, <1>2, <1>3, PcStep DEF CloseInv

(* A reader comes to pass on a packet by testing the flag. *)
LEMMA ToPassing ==
    ASSUME Types, NEW r \in Readers, [Next]_vars, pc'[r] \in {"lock", "send"}
    PROVE  pc[r] \in {"lock", "send"} \/ TestStartingTLS(r)
<1>t. /\ pc \in [Procs -> CallerLocs \cup ReaderLocs \cup TimerLocs] /\ r \in Procs
      /\ \A c \in Callers : c # r
  BY Zenon, Distinct DEF Types, CallTypes, Procs
<1>1. CASE ReaderStep(r)
  BY Zenon, <1>1, <1>t DEF ReaderStep, ReadPacket, ReadError, StoreCloseErr, Goto
<1>2. CASE SharedStep(r)
  BY Zenon, <1>2, <1>t DEF SharedStep, SendProcessMessageLock, SendProcessMessageSend,
     AfterSend, CloseLock, CloseQuit, CloseConfirmed, CloseJoin, AfterClose, Goto
<1>3. CASE Start
  BY <1>3, <1>t DEF Start, Goto
<1>4. ASSUME NEW c \in Callers, HandshakeSucceeds(c)
      PROVE  pc[r] \in {"lock", "send"}
  BY <1>4, <1>t DEF HandshakeSucceeds
<1>5. QED
  BY Zenon, <1>1, <1>2, <1>3, <1>4, ReaderPc

(* What a step does to the select of processMessages and its sendResponse. *)
LEMMA LoopStep ==
    ASSUME Types, [Next]_vars
    PROVE  \/ UNCHANGED pmVars
           \/ /\ pm' # "off"
              /\ \/ pm' # "sending"
                 \/ out'.what \in {"write error", "timeout", "close error"}
                 \/ Receive("response") /\ out'.id = Head(chanMessage).id
<1> DEFINE Move == \/ UNCHANGED pmVars
                   \/ /\ pm' # "off"
                      /\ \/ pm' # "sending"
                         \/ out'.what \in {"write error", "timeout", "close error"}
                         \/ Receive("response") /\ out'.id = Head(chanMessage).id
<1> SUFFICES Move
  OBVIOUS
<1>1. ASSUME UNCHANGED pmVars PROVE Move
  BY <1>1
<1>2. ASSUME SendResponseReturn PROVE Move
  <2>1. out.ret \in {"select", "cleanup"}
    BY DEF Types, LoopTypes, Sending
  <2>2. QED
    BY <1>2, <2>1 DEF SendResponseReturn
<1>3. ASSUME NEW i, NEW w \in {"write error", "timeout", "close error"}, NEW ret,
             Respond(i, w, TRUE, ret)
      PROVE  Move
  BY <1>3, RespondFields
<1>4. ASSUME pm' \in {"select", "cleanup", "exited"} PROVE Move
  BY <1>4
<1>5. CASE ProcessResponse
  <2>1. CASE Respond(Head(chanMessage).id, Head(chanMessage).what, FALSE, "select")
    <3>1. pm' = "sending" /\ out'.id = Head(chanMessage).id
      BY Zenon, <2>1, RespondFields
    <3>2. QED
      BY <3>1, <1>5 DEF ProcessResponse
  <2>2. QED
    BY Zenon, <2>1, <1>1, <1>5 DEF ProcessResponse
<1> HIDE DEF Move
<1>6. CASE ProcessQuit \/ ProcessRequest \/ ProcessFinish \/ CleanupDone
  BY Zenon, <1>6, <1>1, <1>4 DEF ProcessQuit, ProcessRequest, ProcessFinish, CleanupDone
<1>7. CASE ProcessRequestError
  BY Zenon, <1>7, <1>3 DEF ProcessRequestError
<1>8. CASE ProcessTimeout
  BY Zenon, <1>8, <1>1, <1>3 DEF ProcessTimeout
<1>9. CASE \E id \in IDs : Cleanup(id)
  BY Zenon, <1>9, <1>1, <1>3 DEF Cleanup
<1>10. CASE SendResponseDropped
  BY Zenon, <1>10, <1>2 DEF SendResponseDropped
<1>11. ASSUME NEW c \in Callers, CallerStep(c) PROVE Move
  BY Zenon, <1>11, <1>1, <1>2 DEF CallerStep, Call, NextMessageID, EncodeError, OnlyPc,
     SendMessage, CountRequest, ReceiveClosed, Delivered, Cancelled, FinishMessage,
     FinishMessageTest, FinishMessageCount, SendResponse, HandshakeSucceeds, HandshakeFails
<1>12. ASSUME NEW p \in Procs, SharedStep(p) PROVE Move
  BY Zenon, <1>12, <1>1 DEF SharedStep, SendProcessMessageLock, SendProcessMessageSend,
     CloseLock, CloseQuit, CloseConfirmed, CloseJoin
<1>13. ASSUME NEW r \in Readers, ReaderStep(r) PROVE Move
  BY Zenon, <1>13, <1>1 DEF ReaderStep, ReadPacket, ReadError, OnlyPc, StoreCloseErr,
     TestStartingTLS
<1>14. CASE \E id \in IDs : TimerFires(id) \/ TimerStops(id)
  BY Zenon, <1>14, <1>1 DEF TimerFires, TimerStops, OnlyPc
<1>15. CASE Start
  BY Zenon, <1>15, <1>4 DEF Start
<1>16. CASE (\E t \in Timeouts : SetTimeout(t)) \/ Server \/ UNCHANGED vars
  BY Zenon, <1>16, <1>1 DEF SetTimeout, Server, ServerEntry, ServerResult, ServerStray,
     ServerCloses, ServerSends, vars
<1>17. QED
  BY Zenon, <1>5, <1>6, <1>7, <1>8, <1>9, <1>10, <1>11, <1>12, <1>13, <1>14, <1>15, <1>16
  DEF Next, ProcessMessages

(* What is queued is taken from the head, or a message is put behind it: a
   request only by the caller it is from. *)
LEMMA QueueGrows ==
    ASSUME CloseInv, [Next]_vars
    PROVE  \/ UNCHANGED chanMessage
           \/ chanMessage # <<>> /\ chanMessage' = Tail(chanMessage)
           \/ \E m \in Message :
                 /\ chanMessage' = Append(chanMessage, m)
                 /\ m.op = "request" =>
                       \E d \in Callers : SendProcessMessageSend(d) /\ cid[d] \notin done
                                            /\ m.id = cid[d]
                 /\ m.op = "response" =>
                       \E r \in Readers : SendProcessMessageSend(r) /\ m.id = packet[r].id
<1>1. CASE \E op : Receive(op)
  BY <1>1 DEF Receive
<1>2. ASSUME NEW p \in Procs, SendProcessMessageSend(p)
      PROVE  \E m \in Message :
                 /\ chanMessage' = Append(chanMessage, m)
                 /\ m.op = "request" =>
                       \E d \in Callers : SendProcessMessageSend(d) /\ cid[d] \notin done
                                            /\ m.id = cid[d]
                 /\ m.op = "response" =>
                       \E r \in Readers : SendProcessMessageSend(r) /\ m.id = packet[r].id
  <2>1. MessageOf(p) \in Message /\ chanMessage' = Append(chanMessage, MessageOf(p))
    BY Zenon, <1>2, MessageType DEF SendProcessMessageSend, CloseInv, Types
  <2>2. MessageOf(p).op = "request" =>
            p \in Callers /\ cid[p] \notin done /\ MessageOf(p).id = cid[p]
    BY DEF MessageOf, Procs
  <2>3. MessageOf(p).op = "response" => p \in Readers /\ MessageOf(p).id = packet[p].id
    BY DEF MessageOf, Procs
  <2>4. QED
    BY Zenon, <2>1, <2>2, <2>3, <1>2
<1>3. CASE \E p \in Procs : CloseQuit(p)
  <2>1. QuitMessage \in Message /\ QuitMessage.op = "quit"
    BY QuitType DEF QuitMessage
  <2>2. QED
    BY <2>1, <1>3 DEF CloseQuit
<1>4. QED
  BY Zenon, <1>1, <1>2, <1>3, QueueStep DEF QueueMove

(* A packet counts as passed on from the moment its reader has sent it. *)
LEMMA AnsweredStep ==
    ASSUME CloseInv, [Next]_vars, NEW id, Answered(id)'
    PROVE  Answered(id) \/ \E r \in Readers : SendProcessMessageSend(r) /\ packet[r].id = id
<1>t. chanMessage \in Seq(Message)
  BY Zenon DEF CloseInv, Types, QueueTypes
<1>1. CASE pm' = "sending" /\ out'.id = id /\ out'.what = "ok"
  <2>1. CASE UNCHANGED pmVars
    BY <2>1, <1>1 DEF pmVars, Answered
  <2>2. CASE Receive("response") /\ out'.id = Head(chanMessage).id
    <3>1. 1 \in DOMAIN chanMessage /\ chanMessage[1] = Head(chanMessage)
      BY <2>2, <1>t DEF Receive
    <3>2. QED
      BY <3>1, <2>2, <1>1 DEF Receive, Answered
  <2>3. QED
    BY Zenon, <2>1, <2>2, <1>1, LoopStep DEF CloseInv
<1>2. ASSUME NEW i \in DOMAIN chanMessage',
             chanMessage'[i].op = "response", chanMessage'[i].id = id
      PROVE  Answered(id) \/ \E r \in Readers : SendProcessMessageSend(r) /\ packet[r].id = id
  <2>1. CASE UNCHANGED chanMessage
    BY <2>1, <1>2 DEF Answered
  <2>2. CASE chanMessage # <<>> /\ chanMessage' = Tail(chanMessage)
    <3>1. i + 1 \in DOMAIN chanMessage /\ chanMessage'[i] = chanMessage[i + 1]
      BY <2>2, <1>2, <1>t
    <3>2. QED
      BY <3>1, <1>2 DEF Answered
  <2>3. ASSUME NEW m \in Message, chanMessage' = Append(chanMessage, m),
               m.op = "response" =>
                   \E r \in Readers : SendProcessMessageSend(r) /\ m.id = packet[r].id
        PROVE  Answered(id) \/ \E r \in Readers : SendProcessMessageSend(r) /\ packet[r].id = id
    <3>1. \/ chanMessage'[i] = m
          \/ i \in DOMAIN chanMessage /\ chanMessage'[i] = chanMessage[i]
      BY Zenon, <2>3, <1>t, <1>2, ChanAppend
    <3>2. CASE chanMessage'[i] = m
      BY Zenon, <3>2, <2>3, <1>2
    <3>3. CASE i \in DOMAIN chanMessage /\ chanMessage'[i] = chanMessage[i]
      BY <3>3, <1>2 DEF Answered
    <3>4. QED
      BY Zenon, <3>1, <3>2, <3>3
  <2>4. QED
    BY Zenon, <2>1, <2>2, <2>3, QueueGrows
<1>3. QED
  BY Zenon, <1>1, <1>2 DEF Answered

-----------------------------------------------------------------------------
(* Each part of the invariant is preserved *)

(* A caller with StartTLS under way is the only one. *)
LEMMA Alone ==
    ASSUME StartTLSAlone, FlagInv, NEW c \in Callers, NEW d \in Callers,
           Outstanding(c), kind[c] = "starttls", Outstanding(d)
    PROVE  c = d /\ isStartingTLS
BY Zenon DEF StartTLSAlone, FlagInv

(* The flag goes up with StartTLS and comes down when it is finished. *)
LEMMA FlagNext == SafetyInv /\ FlagInv /\ [Next]_vars => FlagInv'
<1> SUFFICES ASSUME SafetyInv, FlagInv, [Next]_vars,
                    NEW x \in OutstandingSet', kind'[x] = "starttls"
             PROVE  isStartingTLS'
  BY Zenon DEF FlagInv, OutstandingSet
<1>i. CloseInv /\ ZeroInv /\ HandshakeKind /\ StartTLSAlone
  BY DEF SafetyInv
<1>k. \A c \in OutstandingSet : c \in Callers /\ Outstanding(c) /\ kind'[c] = kind[c]
  <2>1. ASSUME NEW c \in Callers, NEW k \in Kinds, Call(c, k)
        PROVE  ~Outstanding(c)
    BY <2>1 DEF Call, Outstanding, CloseLocs
  <2>2. QED
    BY <2>1, <1>i, KindStep DEF CloseInv, OutstandingSet
<1>f. x \in OutstandingSet => isStartingTLS /\ \A d \in OutstandingSet : d = x
  BY Zenon, <1>k, <1>i, Alone
<1>1. CASE UNCHANGED tlsVars /\ OutstandingSet' \subseteq OutstandingSet
  BY <1>1, <1>f DEF tlsVars
<1>2. ASSUME NEW c \in Callers, UNCHANGED kind, ~isStartingTLS,
             OutstandingSet' = OutstandingSet \cup {c},
             isStartingTLS' = (kind[c] = "starttls")
      PROVE  isStartingTLS'
  <2>1. x = c
    BY Zenon, <1>2, <1>f
  <2>2. QED
    BY Zenon, <2>1, <1>2
<1>3. ASSUME NEW c \in OutstandingSet, OutstandingSet' = OutstandingSet \ {c}
      PROVE  FALSE
  BY Zenon, <1>3, <1>f
<1>4. QED
  BY Zenon, <1>1, <1>2, <1>3, <1>i, OutstandingSetStep

(* Where nobody reads, nobody does after a step that starts no reader. *)
LEMMA NoReaderStays ==
    ASSUME Types, NoReader, [Next]_vars, ~Start, \A c \in Callers : ~HandshakeSucceeds(c)
    PROVE  NoReader'
BY Zenon, ReaderStarts DEF NoReader, Active

(* A reader is started where there is none. *)
LEMMA ReaderInvNext == SafetyInv /\ ReaderInv /\ AnswerInv /\ [Next]_vars => ReaderInv'
<1> SUFFICES ASSUME SafetyInv, ReaderInv, AnswerInv, [Next]_vars PROVE ReaderInv'
  OBVIOUS
<1>i. CloseInv /\ Types /\ chanMessage \in Seq(Message)
  BY DEF SafetyInv, CloseInv, Types, QueueTypes
<1>t. /\ pc \in [Procs -> CallerLocs \cup ReaderLocs \cup TimerLocs]
      /\ \A r \in Readers : r \in Procs /\ r \notin Callers
  BY Zenon, <1>i, Distinct DEF Types, CallTypes, Procs
<1>1. ASSUME Start \/ \E c \in Callers : HandshakeSucceeds(c)
      PROVE  NoReader /\ \E q \in Readers : \A r \in Readers : r # q => pc'[r] = pc[r]
  <2>1. CASE Start
    BY <2>1, <1>t DEF Start, Goto, ReaderInv
  <2>2. ASSUME NEW c \in Callers, HandshakeSucceeds(c)
        PROVE  NoReader /\ \E q \in Readers : \A r \in Readers : r # q => pc'[r] = pc[r]
    BY <2>2, <1>t DEF HandshakeSucceeds, AnswerInv
  <2>3. QED
    BY Zenon, <1>1, <2>1, <2>2
<1>2. ASSUME NEW r \in Readers, NEW s \in Readers, Active(r)', Active(s)'
      PROVE  r = s
  <2>1. CASE Active(r) /\ Active(s)
    BY Zenon, <2>1 DEF ReaderInv
  <2>2. CASE Start \/ \E c \in Callers : HandshakeSucceeds(c)
    BY <1>1, <1>2, <2>2 DEF NoReader, Active
  <2>3. QED
    BY Zenon, <1>2, <1>i, <2>1, <2>2, ReaderStarts
<1>3. ASSUME pm' = "off" PROVE pm = "off" /\ ~Start
  BY <1>3, <1>i, LoopStep DEF pmVars, Start
<1>4. ASSUME pm' = "off" PROVE NoReader'
  <2>1. NoReader /\ \A c \in Callers : ~HandshakeSucceeds(c)
    BY Zenon, <1>3, <1>4 DEF ReaderInv, HandshakeSucceeds
  <2>2. QED
    BY Zenon, <2>1, <1>3, <1>4, <1>i, NoReaderStays
<1>5. ASSUME pm' = "off", NEW i \in DOMAIN chanMessage' PROVE chanMessage'[i].op # "response"
  <2>0. /\ \A k \in DOMAIN chanMessage : chanMessage[k].op # "response"
        /\ \A r \in Readers : ~SendProcessMessageSend(r)
    BY Zenon, <1>3, <1>5 DEF ReaderInv, NoReader, Active, SendProcessMessageSend
  <2>1. CASE UNCHANGED chanMessage
    BY Zenon, <2>0, <2>1, <1>5
  <2>2. CASE chanMessage # <<>> /\ chanMessage' = Tail(chanMessage)
    BY <2>0, <2>2, <1>5, <1>i
  <2>3. ASSUME NEW m \in Message, chanMessage' = Append(chanMessage, m),
               m.op = "response" => \E r \in Readers : SendProcessMessageSend(r)
        PROVE  chanMessage'[i].op # "response"
    BY Zenon, <2>0, <2>3, <1>5, <1>i, ChanAppend
  <2>4. QED
    BY Zenon, <2>1, <2>2, <2>3, <1>i, QueueGrows
<1>6. ASSUME pm' = "off", NEW c \in Callers PROVE pc'[c] # "handshake"
  BY Zenon, <1>3, <1>6, <1>i, ToHandshake DEF ReaderInv, SendResponse, SendResponseReturn
<1>7. QED
  BY Zenon, <1>2, <1>4, <1>5, <1>6 DEF ReaderInv

(* No new reader is started while StartTLS is under way but by its end. *)
LEMMA NobodyStarts ==
    ASSUME SafetyInv, FlagInv, ReaderInv, NEW x \in Callers, Outstanding(x),
           kind[x] = "starttls", pm # "off", [Next]_vars, ~HandshakeSucceeds(x), NoReader
    PROVE  NoReader'
<1>1. \A c \in Callers : ~HandshakeSucceeds(c)
  BY Zenon, Alone DEF HandshakeSucceeds, Outstanding, SafetyInv
<1>2. ~Start
  BY Zenon DEF Start
<1>3. QED
  BY Zenon, <1>1, <1>2, NoReaderStays DEF SafetyInv, CloseInv

(* A request that is sent is not answered yet. *)
LEMMA SentUnanswered ==
    ASSUME SafetyInv, NEW x \in Callers, SendProcessMessageSend(x), cid[x] \notin done
    PROVE  /\ Absent(cid[x]) /\ cid[x] \in IDs
<1>1. pc[x] = "send"
  BY DEF SendProcessMessageSend
<1>2. cid[x] # 0
  BY <1>1 DEF SafetyInv, ZeroInv, ZeroCaller, CloseLocs
<1>3. cid[x] \in IDs
  BY <1>2 DEF SafetyInv, CloseInv, Types, CallTypes, IDs
<1>4. QED
  BY Zenon, <1>1, <1>3 DEF SafetyInv, CloseInv, IdInv, IdFresh, NotSent

(* The reader with the answer to StartTLS stops, and nobody reads from then on. *)
LEMMA AnswerInvNext ==
    SafetyInv /\ FlagInv /\ ReaderInv /\ AnswerInv /\ [Next]_vars => AnswerInv'
<1> SUFFICES ASSUME SafetyInv, FlagInv, ReaderInv, AnswerInv, [Next]_vars PROVE AnswerInv'
  OBVIOUS
<1>i. CloseInv /\ Types /\ chanMessage \in Seq(Message) /\ HandshakeKind /\ StartTLSAlone
  BY DEF SafetyInv, CloseInv, Types, QueueTypes
<1>t. /\ pc \in [Procs -> CallerLocs \cup ReaderLocs \cup TimerLocs]
      /\ \A r \in Readers : r \in Procs /\ r \notin Callers
      /\ \A c \in Callers : c \in Procs /\ c \notin Readers /\ c \notin IDs
  BY Zenon, <1>i, Distinct DEF Types, CallTypes, Procs
<1>o. \A c \in Callers : Starting(c) => Outstanding(c) /\ kind[c] = "starttls"
                                          /\ ~HandshakeSucceeds(c)
  BY Zenon DEF Starting, Outstanding, HandshakeSucceeds
<1>n. ASSUME NEW x \in Callers, Starting(x)', ~Starting(x)
      PROVE  /\ SendProcessMessageSend(x) /\ cid'[x] = cid[x]
             /\ cid[x] \notin done /\ Absent(cid[x]) /\ cid[x] \in IDs
  BY Zenon, <1>n, <1>i, ToStarting, SentUnanswered
<1>1. ASSUME NEW x \in Callers, Starting(x)', NEW r \in Readers,
             pc'[r] \in {"lock", "send"}, packet'[r].id = cid'[x]
      PROVE  cleanstop'[r]
  <2>1. CASE ~Starting(x)
    <3>1. packet' = packet
      BY <2>1, <1>1, <1>n DEF SendProcessMessageSend, readVars
    <3>2. QED
      BY Zenon, <3>1, <2>1, <1>1, <1>n DEF Absent, Unwritten
  <2>2. CASE Starting(x) /\ TestStartingTLS(r)
    <3>1. isStartingTLS /\ cleanstop'[r] = isStartingTLS
      BY Zenon, <2>2, <1>o, <1>i DEF FlagInv, TestStartingTLS, Types, FlagTypes
    <3>2. QED
      BY Zenon, <3>1
  <2>3. CASE Starting(x) /\ ~TestStartingTLS(r)
    <3>1. pc[r] \in {"lock", "send"}
      BY Zenon, <2>3, <1>1, <1>i, ToPassing
    <3>2. packet'[r] = packet[r] /\ cleanstop'[r] = cleanstop[r]
      BY <3>1, <2>3, <1>i, ReaderLocals DEF ReadPacket
    <3>3. cid'[x] = cid[x]
      BY Zenon, <1>1, <1>i, ToStarting
    <3>4. cleanstop[r]
      BY Zenon, <3>1, <3>2, <3>3, <2>3, <1>1 DEF AnswerInv
    <3>5. QED
      BY Zenon, <3>4, <3>2
  <2>4. QED
    BY Zenon, <2>1, <2>2, <2>3
<1>2. ASSUME NEW x \in Callers, Starting(x)', Answered(cid[x])'
      PROVE  NoReader'
  <2>i. PICK id : id = cid[x] /\ id = cid'[x]
    BY Zenon, <1>2, <1>i, ToStarting
  <2>a. Answered(id)'
    BY Zenon, <2>i, <1>2 DEF Answered
  <2>s. Answered(id) \/ \E r \in Readers : SendProcessMessageSend(r) /\ packet[r].id = id
    BY Zenon, <2>a, <1>i, AnsweredStep
  <2>1. CASE ~Starting(x)
    <3>1. ~Answered(id)
      <4>1. Absent(id) /\ pm \in {"off", "select", "sending", "cleanup", "exited"}
        BY Zenon, <2>i, <2>1, <1>2, <1>n, <1>i DEF Types, LoopTypes
      <4>2. QED
        BY <4>1 DEF Absent, Unwritten, Answered
    <3>2. \A r \in Readers : packet[r].id # id
      BY Zenon, <2>i, <2>1, <1>2, <1>n DEF Absent, Unwritten
    <3>3. QED
      BY Zenon, <3>1, <3>2, <2>s
  <2>2. CASE Starting(x) /\ Answered(id)
    <3>1. NoReader
      BY Zenon, <2>i, <2>2 DEF AnswerInv
    <3>2. pm # "off"
      BY <2>2 DEF ReaderInv, Answered
    <3>3. QED
      BY Zenon, <3>1, <3>2, <2>2, <1>o, NobodyStarts
  <2>3. ASSUME Starting(x), NEW r \in Readers, SendProcessMessageSend(r), packet[r].id = id
        PROVE  NoReader'
    <3>1. pc[r] = "send" /\ pc' = [pc EXCEPT ![r] = AfterSend(r, TRUE)]
      BY Zenon, <2>3 DEF SendProcessMessageSend, Goto
    <3>2. cleanstop[r]
      BY <3>1, <2>i, <2>3 DEF AnswerInv
    <3>3. AfterSend(r, TRUE) = "stopped"
      BY <3>2 DEF AfterSend
    <3>4. \A s \in Readers : s # r => ~Active(s)
      BY <3>1 DEF ReaderInv, Active
    <3>5. QED
      BY <3>1, <3>3, <3>4, <1>t DEF NoReader, Active
  <2>4. QED
    BY Zenon, <2>s, <2>1, <2>2, <2>3
<1>3. ASSUME NEW x \in Callers, pc'[x] = "handshake"
      PROVE  NoReader'
  <2>1. CASE pc[x] = "handshake"
    <3>1. NoReader /\ pm # "off"
      BY Zenon, <2>1 DEF AnswerInv, ReaderInv
    <3>2. ~HandshakeSucceeds(x)
      BY <1>3, <1>t DEF HandshakeSucceeds
    <3>3. Outstanding(x) /\ kind[x] = "starttls"
      BY Zenon, <2>1, <1>i DEF Outstanding, HandshakeKind
    <3>4. QED
      BY Zenon, <3>1, <3>2, <3>3, NobodyStarts
  <2>2. CASE SendResponse(x) /\ kind[x] = "starttls" /\ out.what = "ok"
    <3>1. Starting(x) /\ Answered(cid[x]) /\ pm # "off"
      BY <2>2 DEF SendResponse, SendResponseReturn, Starting, Answered
    <3>2. NoReader
      BY Zenon, <3>1 DEF AnswerInv
    <3>3. QED
      BY Zenon, <3>1, <3>2, <1>o, NobodyStarts
  <2>3. QED
    BY Zenon, <1>3, <1>i, <2>1, <2>2, ToHandshake
<1>4. QED
  BY Zenon, <1>1, <1>2, <1>3 DEF AnswerInv

(* The request of StartTLS stays the last one in the queue, and is gone when
   its answer is received. *)
LEMMA WriteInvNext == SafetyInv /\ FlagInv /\ WriteInv /\ [Next]_vars => WriteInv'
<1> SUFFICES ASSUME SafetyInv, FlagInv, WriteInv, [Next]_vars PROVE WriteInv'
  OBVIOUS
<1>i. CloseInv /\ Types /\ chanMessage \in Seq(Message) /\ HandshakeKind /\ StartTLSAlone
  BY DEF SafetyInv, CloseInv, Types, QueueTypes
<1>q. ASSUME NEW x \in Callers, pc[x] \in {"wait", "deliver", "handshake"},
             kind[x] = "starttls"
      PROVE  \/ UNCHANGED chanMessage
             \/ chanMessage # <<>> /\ chanMessage' = Tail(chanMessage)
             \/ \E m \in Message : chanMessage' = Append(chanMessage, m) /\ m.op # "request"
  <2>1. Outstanding(x)
    BY Zenon, <1>q DEF Outstanding
  <2>2. ASSUME NEW d \in Callers, SendProcessMessageSend(d), cid[d] \notin done
        PROVE  FALSE
    <3>1. Outstanding(d) /\ pc[d] = "send"
      BY Zenon, <2>2 DEF SendProcessMessageSend, Outstanding
    <3>2. d = x
      BY Zenon, <3>1, <2>1, <1>q, <1>i, Alone
    <3>3. QED
      BY <3>1, <3>2, <1>q
  <2>3. QED
    BY Zenon, <2>2, <1>i, QueueGrows
<1>1. ASSUME NEW x \in Callers, Starting(x)'
      PROVE  LastRequest(cid[x])'
  <2>i. PICK id : id = cid[x] /\ id = cid'[x]
    BY Zenon, <1>1, <1>i, ToStarting
  <2> SUFFICES LastRequest(id)'
    BY Zenon, <2>i DEF LastRequest
  <2>1. CASE Starting(x)
    <3>1. LastRequest(id)
      BY Zenon, <2>i, <2>1 DEF WriteInv
    <3>2. CASE UNCHANGED chanMessage
      BY Zenon, <3>1, <3>2 DEF LastRequest
    <3>3. CASE chanMessage # <<>> /\ chanMessage' = Tail(chanMessage)
      <4> SUFFICES ASSUME NEW j \in DOMAIN chanMessage', chanMessage'[j].op = "request"
                   PROVE  \E i \in DOMAIN chanMessage' :
                             /\ i >= j /\ chanMessage'[i].op = "request"
                             /\ chanMessage'[i].id = id
        BY Zenon DEF LastRequest
      <4>1. /\ j \in Nat \ {0} /\ j + 1 \in DOMAIN chanMessage
            /\ chanMessage'[j] = chanMessage[j + 1]
        BY <3>3, <1>i
      <4>2. PICK i \in DOMAIN chanMessage :
               i >= j + 1 /\ chanMessage[i].op = "request" /\ chanMessage[i].id = id
        BY <4>1, <3>1 DEF LastRequest
      <4>3. /\ i - 1 \in DOMAIN chanMessage' /\ chanMessage'[i - 1] = chanMessage[i]
            /\ i - 1 >= j
        BY <4>1, <4>2, <3>3, <1>i
      <4>4. QED
        BY <4>2, <4>3
    <3>4. ASSUME NEW m \in Message, chanMessage' = Append(chanMessage, m), m.op # "request"
          PROVE  LastRequest(id)'
      <4>1. /\ \A j \in DOMAIN chanMessage' :
                  \/ j \in DOMAIN chanMessage /\ chanMessage'[j] = chanMessage[j]
                  \/ chanMessage'[j] = m
            /\ \A j \in DOMAIN chanMessage :
                  j \in DOMAIN chanMessage' /\ chanMessage'[j] = chanMessage[j]
        BY Zenon, <3>4, <1>i, ChanAppend
      <4> SUFFICES ASSUME NEW j \in DOMAIN chanMessage', chanMessage'[j].op = "request"
                   PROVE  \E i \in DOMAIN chanMessage' :
                             /\ i >= j /\ chanMessage'[i].op = "request"
                             /\ chanMessage'[i].id = id
        BY Zenon DEF LastRequest
      <4>2. j \in DOMAIN chanMessage /\ chanMessage[j].op = "request"
        BY Zenon, <4>1, <3>4
      <4>3. PICK i \in DOMAIN chanMessage :
               i >= j /\ chanMessage[i].op = "request" /\ chanMessage[i].id = id
        BY Zenon, <4>2, <3>1 DEF LastRequest
      <4>4. QED
        BY Zenon, <4>1, <4>3
    <3>5. QED
      BY Zenon, <3>2, <3>3, <3>4, <2>1, <1>q DEF Starting
  <2>2. CASE SendProcessMessageSend(x) /\ cid[x] \notin done
    <3>1. /\ chanMessage' = Append(chanMessage, MessageOf(x)) /\ MessageOf(x) \in Message
          /\ MessageOf(x).op = "request" /\ MessageOf(x).id = id
      <4>1. x \in Procs /\ x \notin Readers /\ x \notin IDs
        BY Distinct DEF Procs
      <4>2. MessageOf(x) = [op |-> "request", id |-> cid[x], what |-> kind[x]]
        BY <4>1, <2>2 DEF MessageOf
      <4>3. MessageOf(x) \in Message
        BY Zenon, <4>1, <1>i, MessageType DEF Types
      <4>4. chanMessage' = Append(chanMessage, MessageOf(x))
        BY Zenon, <2>2 DEF SendProcessMessageSend
      <4>5. QED
        BY <4>2, <4>3, <4>4, <2>i
    <3>2. /\ Len(chanMessage) + 1 \in DOMAIN chanMessage'
          /\ chanMessage'[Len(chanMessage) + 1] = MessageOf(x)
          /\ \A j \in DOMAIN chanMessage' : Len(chanMessage) + 1 >= j
      BY <3>1, <1>i
    <3>3. QED
      BY <3>1, <3>2 DEF LastRequest
  <2>3. QED
    BY Zenon, <2>1, <2>2, <1>1, <1>i, ToStarting
<1>2. ASSUME NEW x \in Callers, pc'[x] = "handshake"
      PROVE  NoRequest'
  <2>1. CASE pc[x] = "handshake"
    <3>1. NoRequest /\ kind[x] = "starttls"
      BY Zenon, <2>1, <1>i DEF WriteInv, HandshakeKind
    <3>2. CASE UNCHANGED chanMessage
      BY Zenon, <3>1, <3>2 DEF NoRequest
    <3>3. CASE chanMessage # <<>> /\ chanMessage' = Tail(chanMessage)
      BY <3>1, <3>3, <1>i DEF NoRequest
    <3>4. ASSUME NEW m \in Message, chanMessage' = Append(chanMessage, m), m.op # "request"
          PROVE  NoRequest'
      BY Zenon, <3>1, <3>4, <1>i, ChanAppend DEF NoRequest
    <3>5. QED
      BY Zenon, <3>1, <3>2, <3>3, <3>4, <2>1, <1>q
  <2>2. CASE SendResponse(x) /\ kind[x] = "starttls"
    <3>1. Starting(x) /\ out.id = cid[x] /\ UNCHANGED chanMessage
      BY <2>2 DEF SendResponse, Starting, chanVars
    <3>2. LastRequest(cid[x])
      BY Zenon, <3>1 DEF WriteInv
    <3>3. ASSUME NEW j \in DOMAIN chanMessage, chanMessage[j].op = "request"
          PROVE  FALSE
      <4>1. PICK i \in DOMAIN chanMessage :
               chanMessage[i].op = "request" /\ chanMessage[i].id = cid[x]
        BY Zenon, <3>2, <3>3 DEF LastRequest
      <4>2. chanMessage[i].id # 0
        BY Zenon, <4>1 DEF SafetyInv, ZeroInv, ZeroQueue
      <4>3. Unwritten(cid[x])
        BY Zenon, <4>1, <4>2, <1>i DEF CloseInv, IdInv, IdQueued
      <4>4. QED
        BY Zenon, <4>3, <3>1 DEF Unwritten
    <3>4. QED
      BY Zenon, <3>1, <3>3 DEF NoRequest
  <2>3. QED
    BY Zenon, <1>2, <1>i, <2>1, <2>2, ToHandshake
<1>3. QED
  BY Zenon, <1>1, <1>2 DEF WriteInv

-----------------------------------------------------------------------------
(* The invariant and the theorem *)

(* NewConn establishes the invariant. *)
LEMMA TlsInit == Init => TlsInv
<1> SUFFICES ASSUME Init PROVE TlsInv
  OBVIOUS
<1>p. /\ \A c \in Callers : pc[c] = "idle"
      /\ \A r \in Readers : pc[r] = "off"
  BY Distinct DEF Init, Procs
<1>1. FlagInv
  BY <1>p DEF FlagInv, Outstanding, CloseLocs
<1>2. ReaderInv
  BY <1>p DEF Init, ReaderInv, NoReader, Active
<1>3. AnswerInv /\ WriteInv
  BY <1>p DEF AnswerInv, WriteInv, Starting
<1>4. QED
  BY <1>1, <1>2, <1>3, SafetyInit DEF TlsInv

(* The readers, the answer to StartTLS and the queue behind its request are
   where they must be throughout: the inductive invariant behind HandshakeAlone. *)
THEOREM TlsInvariant == Spec => []TlsInv
<1>1. TlsInv /\ [Next]_vars => TlsInv'
  BY SafetyNext, FlagNext, ReaderInvNext, AnswerInvNext, WriteInvNext DEF TlsInv
<1>2. QED
  BY <1>1, TlsInit, PTL DEF Spec

(* HandshakeAlone for every number of callers and readers: when StartTLS goes
   on to the TLS handshake (conn.go:429-442) the reader that passed on its
   answer has stopped, no other runs, and processMessages has no request to
   write on the connection. *)
THEOREM HandshakeIsAlone == Spec => []HandshakeAlone
<1>1. TlsInv => HandshakeAlone
  <2> SUFFICES ASSUME TlsInv, NEW c \in Callers, pc[c] = "handshake"
               PROVE  NoReader /\ NoRequest
    BY Zenon DEF HandshakeAlone, NoReader, NoRequest, Active
  <2>1. QED
    BY Zenon DEF TlsInv, AnswerInv, WriteInv
<1>2. QED
  BY <1>1, TlsInvariant, PTL
=============================================================================
