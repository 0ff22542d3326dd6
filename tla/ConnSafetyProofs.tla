-------------------------- MODULE ConnSafetyProofs --------------------------
(* Requests and their contexts: no response channel is closed twice or used
   after it is closed, no request is left waiting when processMessages exits,
   and outstandingRequests counts the unfinished requests. *)
EXTENDS ConnCloseProofs, FiniteSetTheorems

-----------------------------------------------------------------------------
(* The id 0 of a connection that is closed *)

(* nextMessageID returns 0 only after processMessages has exited, and then
   sendMessageWithFlags refuses the request. *)
ZeroCaller ==
    \A c \in Callers : cid[c] = 0 =>
        \/ pc[c] \in {"idle", "nextid"}
        \/ pc[c] = "begin" /\ closing
        \/ pc[c] \in CloseLocs /\ kind[c] # "starttls"

ZeroQueue ==
    \A i \in DOMAIN chanMessage :
        chanMessage[i].op \in {"request", "finish", "timeout"} => chanMessage[i].id # 0

ZeroContext ==
    /\ pm = "sending" => out.id # 0
    /\ 0 \notin messageContexts /\ 0 \notin done
    /\ 0 \notin respClosed /\ 0 \notin srvPending

ZeroInv == ZeroCaller /\ ZeroQueue /\ ZeroContext

(* closing is never reset. *)
LEMMA ClosingStays == FlagTypes /\ closing /\ [Next]_vars => closing'
<1> SUFFICES ASSUME FlagTypes, closing, [Next]_vars PROVE closing'
  OBVIOUS
<1> USE DEF flagVars
<1>1. CASE UNCHANGED <<closing>>
  BY <1>1
<1>2. ASSUME NEW p \in Procs, CloseLock(p) PROVE closing'
  BY <1>2 DEF CloseLock
<1>3. CASE \E c \in Callers : NextMessageID(c) \/ EncodeError(c) \/
        SendMessage(c) \/ CountRequest(c) \/ ReceiveClosed(c) \/ Delivered(c)
        \/ Cancelled(c) \/ FinishMessage(c) \/ FinishMessageTest(c) \/
        FinishMessageCount(c) \/ SendResponse(c) \/ HandshakeSucceeds(c) \/
        HandshakeFails(c)
  BY Zenon, <1>3, <1>1 DEF NextMessageID, EncodeError, OnlyPc, SendMessage,
     CountRequest, ReceiveClosed, Delivered, Cancelled, FinishMessage,
     FinishMessageTest, FinishMessageCount, SendResponse, SendResponseReturn,
     HandshakeSucceeds, HandshakeFails
<1>4. CASE \E p \in Procs : SendProcessMessageLock(p) \/
        SendProcessMessageSend(p) \/ CloseQuit(p) \/ CloseConfirmed(p) \/
        CloseJoin(p)
  BY Zenon, <1>4, <1>1 DEF SendProcessMessageLock, SendProcessMessageSend, CloseQuit,
     CloseConfirmed, CloseJoin
<1>5. CASE \E r \in Readers : ReadPacket(r) \/ ReadError(r) \/
        StoreCloseErr(r) \/ TestStartingTLS(r)
  BY Zenon, <1>5, <1>1 DEF ReadPacket, ReadError, OnlyPc, StoreCloseErr,
     TestStartingTLS
<1>6. CASE \E id \in IDs : TimerFires(id) \/ TimerStops(id) \/ Cleanup(id) \/
        ServerEntry(id) \/ ServerResult(id)
  BY Zenon, <1>6, <1>1 DEF TimerFires, OnlyPc, TimerStops, Cleanup, ServerEntry,
     ServerSends, ServerResult
<1>7. CASE \E c \in Callers, k \in Kinds : Call(c, k)
  BY <1>7, <1>1 DEF Call
<1>8. CASE \E t \in Timeouts : SetTimeout(t)
  BY <1>8, <1>1 DEF SetTimeout
<1>9. CASE Start \/ ProcessQuit \/ ProcessRequest \/ ProcessRequestError \/
        ProcessResponse \/ ProcessTimeout \/ ProcessFinish \/ CleanupDone \/
        SendResponseDropped \/ ServerStray \/ ServerCloses
  BY Zenon, <1>9, <1>1 DEF Start, ProcessQuit, ProcessRequest, ProcessRequestError,
     ProcessResponse, ProcessTimeout, ProcessFinish, CleanupDone,
     SendResponseDropped, SendResponseReturn, ServerStray, ServerSends,
     ServerCloses
<1>10. CASE UNCHANGED vars
  BY <1>10, <1>1 DEF vars
<1>11. QED
  BY <1>1, <1>2, <1>3, <1>4, <1>5, <1>6, <1>7, <1>8, <1>9, <1>10
  DEF Next, CallerStep, SharedStep, ProcessMessages, ReaderStep, Server

(* Only an idle caller changes its operation. *)
LEMMA KindStep ==
    ASSUME Types, NEW x \in Callers, [Next]_vars
    PROVE  kind'[x] = kind[x] \/ \E k \in Kinds : Call(x, k)
<1> DEFINE Move == kind'[x] = kind[x] \/ \E k \in Kinds : Call(x, k)
<1> SUFFICES Move
  OBVIOUS
<1> USE DEF callVars, Types, CallTypes
<1>1. CASE UNCHANGED <<kind>>
  BY <1>1
<1>2. ASSUME NEW c \in Callers, NEW k \in Kinds, Call(c, k) PROVE Move
  BY Zenon, <1>2 DEF Call
<1>3. CASE \E c \in Callers : NextMessageID(c) \/ EncodeError(c) \/
        SendMessage(c) \/ CountRequest(c) \/ ReceiveClosed(c) \/ Delivered(c)
        \/ Cancelled(c) \/ FinishMessage(c) \/ FinishMessageTest(c) \/
        FinishMessageCount(c) \/ SendResponse(c) \/ HandshakeSucceeds(c) \/
        HandshakeFails(c)
  BY Zenon, <1>3, <1>1 DEF NextMessageID, EncodeError, OnlyPc, SendMessage,
     CountRequest, ReceiveClosed, Delivered, Cancelled, FinishMessage,
     FinishMessageTest, FinishMessageCount, SendResponse, SendResponseReturn,
     HandshakeSucceeds, HandshakeFails
<1>4. CASE \E p \in Procs : SendProcessMessageLock(p) \/
        SendProcessMessageSend(p) \/ CloseLock(p) \/ CloseQuit(p) \/
        CloseConfirmed(p) \/ CloseJoin(p)
  BY Zenon, <1>4, <1>1 DEF SendProcessMessageLock, SendProcessMessageSend, CloseLock,
     CloseQuit, CloseConfirmed, CloseJoin
<1>5. CASE \E r \in Readers : ReadPacket(r) \/ ReadError(r) \/
        StoreCloseErr(r) \/ TestStartingTLS(r)
  BY Zenon, <1>5, <1>1 DEF ReadPacket, ReadError, OnlyPc, StoreCloseErr,
     TestStartingTLS
<1>6. CASE \E id \in IDs : TimerFires(id) \/ TimerStops(id) \/ Cleanup(id) \/
        ServerEntry(id) \/ ServerResult(id)
  BY Zenon, <1>6, <1>1 DEF TimerFires, OnlyPc, TimerStops, Cleanup, ServerEntry,
     ServerSends, ServerResult
<1>7. CASE \E t \in Timeouts : SetTimeout(t)
  BY <1>7, <1>1 DEF SetTimeout
<1>8. CASE Start \/ ProcessQuit \/ ProcessRequest \/ ProcessRequestError \/
        ProcessResponse \/ ProcessTimeout \/ ProcessFinish \/ CleanupDone \/
        SendResponseDropped \/ ServerStray \/ ServerCloses
  BY Zenon, <1>8, <1>1 DEF Start, ProcessQuit, ProcessRequest, ProcessRequestError,
     ProcessResponse, ProcessTimeout, ProcessFinish, CleanupDone,
     SendResponseDropped, SendResponseReturn, ServerStray, ServerSends,
     ServerCloses
<1>9. CASE UNCHANGED vars
  BY <1>9, <1>1 DEF vars
<1>10. QED
  BY <1>1, <1>2, <1>3, <1>4, <1>5, <1>6, <1>7, <1>8, <1>9
  DEF Next, CallerStep, SharedStep, ProcessMessages, ReaderStep, Server

(* Id 0, that of a closed chanMessageID, belongs to callers that will not send. *)
LEMMA ZeroCallerNext == CloseInv /\ ZeroCaller /\ [Next]_vars => ZeroCaller'
<1> SUFFICES ASSUME CloseInv, ZeroCaller, [Next]_vars, NEW x \in Callers, cid'[x] = 0
             PROVE  \/ pc'[x] \in {"idle", "nextid"}
                    \/ pc'[x] = "begin" /\ closing'
                    \/ pc'[x] \in CloseLocs /\ kind'[x] # "starttls"
  BY DEF ZeroCaller
<1>t. /\ pc \in [Procs -> CallerLocs \cup ReaderLocs \cup TimerLocs] /\ x \in Procs
      /\ kind \in [Callers -> AllKinds]
      /\ cid \in [Callers -> 0..MaxOps] /\ x \notin Readers /\ x \notin IDs
  BY Distinct DEF CloseInv, Types, CallTypes, Procs
<1>c. closing => closing'
  BY ClosingStays DEF CloseInv, Types
<1>1. CASE NextMessageID(x)
  <2>1. pm = "exited"
    BY <1>1, <1>t, ConnAssumption DEF ConnAssumption, NextMessageID, IDs
  <2>2. closing
    BY <2>1 DEF CloseInv, LockInv, QuitSent
  <2>3. QED
    BY <1>1, <1>c, <1>t, <2>2 DEF NextMessageID, Goto
<1>2. CASE ~NextMessageID(x)
  <2>1. cid[x] = 0
    BY <1>2, <1>t, IdStep DEF NextMessageID
  <2>z. \/ pc[x] \in {"idle", "nextid"}
        \/ pc[x] = "begin" /\ closing
        \/ pc[x] \in CloseLocs /\ kind[x] # "starttls"
    BY <2>1 DEF ZeroCaller
  <2>k. (\E k \in Kinds : Call(x, k)) \/ kind'[x] = kind[x]
    BY KindStep DEF CloseInv
  <2>2. ASSUME NEW k \in Kinds, Call(x, k)
        PROVE  pc'[x] \in {"idle", "nextid"} \/ (pc'[x] \in CloseLocs /\ kind'[x] # "starttls")
    BY <2>2, <1>t DEF Call, Goto, CloseLocs
  <2>3. CASE pc'[x] = pc[x] /\ kind'[x] = kind[x]
    BY <2>3, <2>z, <1>c
  <2>4. CASE CallerStep(x) /\ kind'[x] = kind[x]
    <3> USE <1>t, <2>z DEF Goto, CloseLocs
    <3>1. CASE EncodeError(x) \/ SendMessage(x) \/ CountRequest(x)
      BY <3>1 DEF EncodeError, SendMessage, CountRequest
    <3>2. CASE ReceiveClosed(x) \/ Delivered(x) \/ Cancelled(x) \/ SendResponse(x)
      BY <3>2 DEF ReceiveClosed, Delivered, Cancelled, SendResponse
    <3>3. CASE FinishMessage(x) \/ FinishMessageTest(x) \/ FinishMessageCount(x)
      BY <3>3 DEF FinishMessage, FinishMessageTest, FinishMessageCount
    <3>4. CASE HandshakeSucceeds(x) \/ HandshakeFails(x)
      BY <3>4 DEF HandshakeSucceeds, HandshakeFails
    <3>5. QED
      BY <2>4, <1>2, <2>2, <3>1, <3>2, <3>3, <3>4 DEF CallerStep
  <2>5. CASE SharedStep(x) /\ kind'[x] = kind[x]
    <3> USE <1>t, <2>z, <2>5 DEF Goto, CloseLocs
    <3>1. CASE SendProcessMessageLock(x) \/ SendProcessMessageSend(x)
      BY Zenon, <3>1 DEF SendProcessMessageLock, SendProcessMessageSend
    <3>2. CASE CloseLock(x) \/ CloseQuit(x) \/ CloseConfirmed(x) \/ CloseJoin(x)
      BY <3>2 DEF CloseLock, CloseQuit, CloseConfirmed, CloseJoin, AfterClose
    <3>3. QED
      BY <2>5, <3>1, <3>2 DEF SharedStep
  <2>6. QED
    BY <2>2, <2>3, <2>4, <2>5, <2>k, PcStep DEF CloseInv
<1>3. QED
  BY <1>1, <1>2

(* Requests and finishes in the queue have ids that were handed out. *)
LEMMA ZeroQueueNext == CloseInv /\ ZeroInv /\ [Next]_vars => ZeroQueue'
<1> SUFFICES ASSUME CloseInv, ZeroInv, [Next]_vars PROVE ZeroQueue'
  OBVIOUS
<1>t. chanMessage \in Seq(Message) /\ Types
  BY DEF CloseInv, Types, QueueTypes
<1> USE DEF ZeroQueue, ZeroInv
<1>1. CASE UNCHANGED chanMessage
  BY <1>1
<1>2. ASSUME NEW op, Receive(op) PROVE ZeroQueue'
  BY <1>2, <1>t, QueueTail DEF Receive
<1>3. ASSUME NEW p \in Procs, SendProcessMessageSend(p) PROVE ZeroQueue'
  <2>1. MessageOf(p).op \in {"request", "finish", "timeout"} => MessageOf(p).id # 0
    <3>1. CASE p \in IDs
      BY <3>1, Distinct, IdNonZero DEF MessageOf
    <3>2. CASE p \in Readers
      BY <3>2 DEF MessageOf
    <3>3. CASE p \in Callers
      <4>1. cid[p] # 0
        BY <3>3, <1>3 DEF ZeroCaller, SendProcessMessageSend, CloseLocs
      <4>2. QED
        BY <3>3, <4>1, Distinct DEF MessageOf
    <3>4. QED
      BY <3>1, <3>2, <3>3 DEF Procs
  <2>2. QED
    BY <1>3, <1>t, <2>1, SendAppends
<1>4. ASSUME NEW p \in Procs, CloseQuit(p) PROVE ZeroQueue'
  <2>1. QuitMessage.op = "quit"
    BY DEF QuitMessage
  <2>2. QED
    BY <1>4, <1>t, <2>1, QuitAppends
<1>5. QED
  BY <1>1, <1>2, <1>3, <1>4, QueueStep DEF QueueMove

(* The contexts being answered and registered have ids that were handed out. *)
LEMMA ZeroContextNext == CloseInv /\ ZeroInv /\ [Next]_vars => ZeroContext'
<1> SUFFICES ASSUME CloseInv, ZeroInv, [Next]_vars PROVE ZeroContext'
  OBVIOUS
<1>z. 0 \notin IDs
  BY ConnAssumption DEF ConnAssumption, IDs
<1>h. ASSUME NEW op \in {"request", "finish", "timeout"}, Receive(op)
      PROVE  Head(chanMessage).id # 0
  <2>1. Head(chanMessage) = chanMessage[1] /\ 1 \in DOMAIN chanMessage
    BY <1>h, QueueTail DEF Receive, CloseInv, Types, QueueTypes
  <2>2. QED
    BY <2>1, <1>h DEF Receive, ZeroInv, ZeroQueue
<1>r. out.ret # "sending"
  BY Zenon DEF CloseInv, Types, LoopTypes, Sending
<1> USE DEF ZeroContext, ZeroInv, ctxVars, pmVars, netVars
<1>1. CASE UNCHANGED <<pm, out, messageContexts, done, respClosed, srvPending>>
  BY <1>1
<1>2. CASE Start
  BY <1>2 DEF Start
<1>3. ASSUME NEW c \in Callers, FinishMessage(c) PROVE ZeroContext'
  BY <1>3 DEF FinishMessage, ZeroCaller, CloseLocs
<1>4. ASSUME NEW c \in Callers, SendResponse(c) PROVE ZeroContext'
  BY <1>4, <1>r DEF SendResponse, SendResponseReturn, CloseResponses
<1>5. ASSUME NEW id \in IDs, Cleanup(id) PROVE ZeroContext'
  <2>1. \/ UNCHANGED pmVars /\ CloseResponses(id)
        \/ /\ Respond(id, "close error", TRUE, "cleanup")
           /\ UNCHANGED <<respClosed, messageContexts>>
    BY <1>5, Zenon DEF Cleanup
  <2>2. UNCHANGED <<done, srvPending>> /\ id # 0
    BY Zenon, <1>5, <1>z DEF Cleanup
  <2>3. QED
    BY Zenon, <2>1, <2>2, RespondFields DEF CloseResponses
<1>6. ASSUME NEW id \in IDs, ServerResult(id) PROVE ZeroContext'
  BY <1>6 DEF ServerResult, ServerSends
<1>7. CASE ProcessQuit
  BY <1>7 DEF ProcessQuit
<1>8. CASE ProcessRequest
  BY <1>8, <1>h DEF ProcessRequest
<1>9. CASE ProcessRequestError
  BY Zenon, <1>9, <1>h, RespondFields DEF ProcessRequestError
<1>10. CASE ProcessResponse
  <2>1. \/ UNCHANGED pmVars
        \/ /\ Respond(Head(chanMessage).id, Head(chanMessage).what, FALSE, "select")
           /\ Head(chanMessage).id \in messageContexts
    BY Zenon, <1>10 DEF ProcessResponse
  <2>2. UNCHANGED <<messageContexts, done, respClosed, srvPending>>
    BY Zenon, <1>10 DEF ProcessResponse
  <2>3. QED
    BY Zenon, <2>1, <2>2, RespondFields
<1>11. CASE ProcessTimeout
  <2>1. UNCHANGED pmVars \/ Respond(Head(chanMessage).id, "timeout", TRUE, "select")
    BY Zenon, <1>11 DEF ProcessTimeout
  <2>2. UNCHANGED <<messageContexts, done, respClosed, srvPending>>
    BY <1>11 DEF ProcessTimeout
  <2>3. Head(chanMessage).id # 0
    BY <1>11, <1>h DEF ProcessTimeout
  <2>4. QED
    BY Zenon, <2>1, <2>2, <2>3, RespondFields
<1>12. CASE ProcessFinish
  BY <1>12, <1>h DEF ProcessFinish, CloseResponses
<1>13. CASE CleanupDone
  BY <1>13 DEF CleanupDone
<1>14. CASE SendResponseDropped
  BY <1>14, <1>r DEF SendResponseDropped, SendResponseReturn, CloseResponses
<1>15. CASE \E c \in Callers : NextMessageID(c) \/ EncodeError(c) \/
        SendMessage(c) \/ CountRequest(c) \/ ReceiveClosed(c) \/ Delivered(c)
        \/ Cancelled(c) \/ FinishMessageTest(c) \/ FinishMessageCount(c) \/
        HandshakeSucceeds(c) \/ HandshakeFails(c)
  BY Zenon, <1>15, <1>1 DEF NextMessageID, EncodeError, OnlyPc, SendMessage,
     CountRequest, ReceiveClosed, Delivered, Cancelled, FinishMessageTest,
     FinishMessageCount, HandshakeSucceeds, HandshakeFails
<1>16. CASE \E p \in Procs : SendProcessMessageLock(p) \/
        SendProcessMessageSend(p) \/ CloseLock(p) \/ CloseQuit(p) \/
        CloseConfirmed(p) \/ CloseJoin(p)
  BY Zenon, <1>16, <1>1 DEF SendProcessMessageLock, SendProcessMessageSend,
     CloseLock, CloseQuit, CloseConfirmed, CloseJoin
<1>17. CASE \E r \in Readers : ReadPacket(r) \/ ReadError(r) \/
        StoreCloseErr(r) \/ TestStartingTLS(r)
  BY Zenon, <1>17, <1>1 DEF ReadPacket, ReadError, OnlyPc, StoreCloseErr,
     TestStartingTLS
<1>18. CASE \E id \in IDs : TimerFires(id) \/ TimerStops(id) \/
        ServerEntry(id)
  BY <1>18, <1>1 DEF TimerFires, OnlyPc, TimerStops, ServerEntry, ServerSends
<1>19. CASE \E c \in Callers, k \in Kinds : Call(c, k)
  BY <1>19, <1>1 DEF Call
<1>20. CASE \E t \in Timeouts : SetTimeout(t)
  BY <1>20, <1>1 DEF SetTimeout
<1>21. CASE ServerStray \/ ServerCloses
  BY Zenon, <1>21, <1>1 DEF ServerStray, ServerSends, ServerCloses
<1>22. CASE UNCHANGED vars
  BY <1>22, <1>1 DEF vars
<1>23. QED
  BY <1>1, <1>2, <1>3, <1>4, <1>5, <1>6, <1>7, <1>8, <1>9, <1>10, <1>11,
     <1>12, <1>13, <1>14, <1>15, <1>16, <1>17, <1>18, <1>19, <1>20, <1>21,
     <1>22
  DEF Next, CallerStep, SharedStep, ProcessMessages, ReaderStep, Server

(* The three together. *)
LEMMA ZeroNext == CloseInv /\ ZeroInv /\ [Next]_vars => ZeroInv'
BY SMTT(20), ZeroCallerNext, ZeroQueueNext, ZeroContextNext DEF ZeroInv

-----------------------------------------------------------------------------
(* Response channels *)

(* The contexts in the map, and the one being answered, are open; none is left
   when processMessages has exited. *)
ContextInv ==
    /\ \A id \in messageContexts : id \notin respClosed
    /\ pm = "sending" => out.id \notin respClosed
    /\ pm = "exited" => messageContexts = {}

(* Every step keeps the registered contexts apart from the closed ones. *)
LEMMA ContextNext == CloseInv /\ ZeroInv /\ ContextInv /\ [Next]_vars => ContextInv'
<1> SUFFICES ASSUME CloseInv, ZeroInv, ContextInv, [Next]_vars PROVE ContextInv'
  OBVIOUS
<1>h. ASSUME Receive("request") PROVE Head(chanMessage).id \notin respClosed
  <2>1. Head(chanMessage) = chanMessage[1] /\ 1 \in DOMAIN chanMessage
    BY <1>h, QueueTail DEF Receive, CloseInv, Types, QueueTypes
  <2>2. QED
    BY <2>1, <1>h DEF Receive, ZeroInv, ZeroQueue, CloseInv, IdInv, IdQueued, Unwritten
<1>r. out.ret # "sending" /\ out.ret # "exited"
  BY Zenon DEF CloseInv, Types, LoopTypes, Sending
<1> USE DEF ContextInv, ctxVars, pmVars
<1>1. CASE UNCHANGED <<pm, out, messageContexts, respClosed>>
  BY <1>1
<1>2. CASE Start
  BY <1>2 DEF Start
<1>3. ASSUME NEW c \in Callers, SendResponse(c) PROVE ContextInv'
  BY <1>3, <1>r DEF SendResponse, SendResponseReturn, CloseResponses
<1>4. ASSUME NEW id \in IDs, Cleanup(id) PROVE ContextInv'
  <2>1. \/ UNCHANGED pmVars /\ CloseResponses(id)
        \/ /\ Respond(id, "close error", TRUE, "cleanup")
           /\ UNCHANGED <<respClosed, messageContexts>>
    BY <1>4, Zenon DEF Cleanup
  <2>2. id \in messageContexts /\ pm = "cleanup"
    BY Zenon, <1>4 DEF Cleanup
  <2>3. QED
    BY Zenon, <2>1, <2>2, RespondFields DEF CloseResponses
<1>5. CASE ProcessQuit
  BY <1>5 DEF ProcessQuit
<1>6. CASE ProcessRequest
  BY <1>6, <1>h DEF ProcessRequest, Receive
<1>7. CASE ProcessRequestError
  BY Zenon, <1>7, <1>h, RespondFields DEF ProcessRequestError
<1>8. CASE ProcessResponse
  <2>1. \/ UNCHANGED pmVars
        \/ /\ Respond(Head(chanMessage).id, Head(chanMessage).what, FALSE, "select")
           /\ Head(chanMessage).id \in messageContexts
    BY Zenon, <1>8 DEF ProcessResponse
  <2>2. UNCHANGED <<messageContexts, respClosed>>
    BY Zenon, <1>8 DEF ProcessResponse
  <2>3. QED
    BY Zenon, <2>1, <2>2, RespondFields
<1>9. CASE ProcessTimeout
  <2>1. \/ UNCHANGED pmVars
        \/ /\ Respond(Head(chanMessage).id, "timeout", TRUE, "select")
           /\ Head(chanMessage).id \in messageContexts
    BY Zenon, <1>9 DEF ProcessTimeout
  <2>2. UNCHANGED <<messageContexts, respClosed>>
    BY <1>9 DEF ProcessTimeout
  <2>3. QED
    BY Zenon, <2>1, <2>2, RespondFields
<1>10. CASE ProcessFinish
  BY <1>10 DEF ProcessFinish, CloseResponses, Receive
<1>11. CASE CleanupDone
  BY <1>11 DEF CleanupDone
<1>12. CASE SendResponseDropped
  BY <1>12, <1>r DEF SendResponseDropped, SendResponseReturn, CloseResponses
<1>13. CASE \E c \in Callers : NextMessageID(c) \/ EncodeError(c) \/
        SendMessage(c) \/ CountRequest(c) \/ ReceiveClosed(c) \/ Delivered(c)
        \/ Cancelled(c) \/ FinishMessage(c) \/ FinishMessageTest(c) \/
        FinishMessageCount(c) \/ HandshakeSucceeds(c) \/ HandshakeFails(c)
  BY Zenon, <1>13, <1>1 DEF NextMessageID, EncodeError, OnlyPc, SendMessage,
     CountRequest, ReceiveClosed, Delivered, Cancelled, FinishMessage,
     FinishMessageTest, FinishMessageCount, HandshakeSucceeds, HandshakeFails
<1>14. CASE \E p \in Procs : SendProcessMessageLock(p) \/
        SendProcessMessageSend(p) \/ CloseLock(p) \/ CloseQuit(p) \/
        CloseConfirmed(p) \/ CloseJoin(p)
  BY Zenon, <1>14, <1>1 DEF SendProcessMessageLock, SendProcessMessageSend,
     CloseLock, CloseQuit, CloseConfirmed, CloseJoin
<1>15. CASE \E r \in Readers : ReadPacket(r) \/ ReadError(r) \/
        StoreCloseErr(r) \/ TestStartingTLS(r)
  BY Zenon, <1>15, <1>1 DEF ReadPacket, ReadError, OnlyPc, StoreCloseErr,
     TestStartingTLS
<1>16. CASE \E id \in IDs : TimerFires(id) \/ TimerStops(id) \/
        ServerEntry(id) \/ ServerResult(id)
  BY Zenon, <1>16, <1>1 DEF TimerFires, OnlyPc, TimerStops, ServerEntry, ServerSends,
     ServerResult
<1>17. CASE \E c \in Callers, k \in Kinds : Call(c, k)
  BY <1>17, <1>1 DEF Call
<1>18. CASE \E t \in Timeouts : SetTimeout(t)
  BY <1>18, <1>1 DEF SetTimeout
<1>19. CASE ServerStray \/ ServerCloses
  BY Zenon, <1>19, <1>1 DEF ServerStray, ServerSends, ServerCloses
<1>20. CASE UNCHANGED vars
  BY <1>20, <1>1 DEF vars
<1>21. QED
  BY <1>1, <1>2, <1>3, <1>4, <1>5, <1>6, <1>7, <1>8, <1>9, <1>10, <1>11,
     <1>12, <1>13, <1>14, <1>15, <1>16, <1>17, <1>18, <1>19, <1>20
  DEF Next, CallerStep, SharedStep, ProcessMessages, ReaderStep, Server

-----------------------------------------------------------------------------
(* Nobody is left waiting *)

(* The request with this id is in the queue. *)
Requested(id) ==
    \E i \in DOMAIN chanMessage : chanMessage[i].op = "request" /\ chanMessage[i].id = id

(* processMessages still has to close the responses channel of this id, or has
   done so. *)
Held(id) ==
    \/ id \in respClosed \/ id \in messageContexts
    \/ Requested(id)
    \/ pm = "sending" /\ out.close /\ out.id = id

WaitInv == \A c \in Callers : pc[c] \in {"wait", "deliver"} => Held(cid[c])

(* A request stays queued unless it is the one received. *)
LEMMA RequestedTail ==
    ASSUME Types, NEW op, Receive(op), NEW x, Requested(x),
           ~(op = "request" /\ Head(chanMessage).id = x)
    PROVE  Requested(x)'
<1>1. PICK i \in DOMAIN chanMessage : chanMessage[i].op = "request" /\ chanMessage[i].id = x
  BY DEF Requested
<1>2. /\ chanMessage \in Seq(Message) /\ chanMessage # <<>>
      /\ chanMessage' = Tail(chanMessage) /\ Head(chanMessage).op = op
  BY DEF Types, QueueTypes, Receive
<1>3. Head(chanMessage) = chanMessage[1]
  BY <1>2, QueueTail
<1>4. i # 1
  BY <1>1, <1>2, <1>3
<1>5. i - 1 \in DOMAIN chanMessage' /\ chanMessage'[i - 1] = chanMessage[i]
  BY <1>2, <1>4, QueueTail
<1>6. QED
  BY <1>1, <1>5 DEF Requested

(* A request stays queued when a message is sent. *)
LEMMA RequestedAppend ==
    ASSUME Types, NEW m \in Message, chanMessage' = Append(chanMessage, m), NEW x, Requested(x)
    PROVE  Requested(x)'
BY ChanAppend DEF Requested, Types, QueueTypes

(* A caller waiting for an answer stays in the hands of processMessages. *)
LEMMA HeldNext ==
    ASSUME CloseInv, NEW i, Held(i), [Next]_vars
    PROVE  Held(i)'
<1>a. ASSUME NEW p \in Procs, SendProcessMessageSend(p) \/ CloseQuit(p), Requested(i)
      PROVE  Requested(i)'
  BY Zenon, <1>a, RequestedAppend, MessageType, QuitType
  DEF SendProcessMessageSend, CloseQuit, CloseInv, Types
<1>b. UNCHANGED chanMessage => Requested(i)' = Requested(i)
  BY DEF Requested
<1> USE DEF Held, ctxVars, pmVars, chanVars
<1>1. CASE UNCHANGED <<chanMessage, pm, out, messageContexts, respClosed>>
  BY <1>1, <1>b
<1>2. CASE Start
  BY <1>2, <1>b DEF Start
<1>3. ASSUME NEW c \in Callers, SendResponse(c) PROVE Held(i)'
  BY <1>3, <1>b DEF SendResponse, SendResponseReturn, CloseResponses
<1>4. ASSUME NEW p \in Procs, SendProcessMessageSend(p) PROVE Held(i)'
  BY Zenon, <1>4, <1>a DEF SendProcessMessageSend
<1>5. ASSUME NEW p \in Procs, CloseQuit(p) PROVE Held(i)'
  BY <1>5, <1>a DEF CloseQuit
<1>6. ASSUME NEW id \in IDs, Cleanup(id) PROVE Held(i)'
  <2>1. \/ UNCHANGED pmVars /\ CloseResponses(id)
        \/ UNCHANGED <<respClosed, messageContexts>>
    BY <1>6, Zenon DEF Cleanup
  <2>2. UNCHANGED chanMessage /\ pm # "sending"
    BY Zenon, <1>6 DEF Cleanup
  <2>3. QED
    BY <2>1, <2>2, <1>b DEF CloseResponses
<1>7. CASE ProcessQuit
  <2>1. Receive("quit")
    BY <1>7 DEF ProcessQuit
  <2>2. Requested(i) => Requested(i)'
    BY <2>1, RequestedTail DEF CloseInv
  <2>3. QED
    BY <1>7, <2>2 DEF ProcessQuit, Receive
<1>8. CASE ProcessRequest
  <2>1. Requested(i) => Requested(i)' \/ Head(chanMessage).id = i
    BY <1>8, RequestedTail DEF ProcessRequest, CloseInv
  <2>2. QED
    BY <1>8, <2>1 DEF ProcessRequest, Receive
<1>9. CASE ProcessRequestError
  <2>1. Requested(i) => Requested(i)' \/ Head(chanMessage).id = i
    BY Zenon, <1>9, RequestedTail DEF ProcessRequestError, CloseInv
  <2>2. pm' = "sending" /\ out'.close = TRUE /\ out'.id = Head(chanMessage).id
    BY Zenon, <1>9, RespondFields DEF ProcessRequestError
  <2>3. pm = "select" /\ UNCHANGED <<respClosed, messageContexts>>
    BY Zenon, <1>9 DEF ProcessRequestError, Receive
  <2>4. QED
    BY <2>1, <2>2, <2>3
<1>10. CASE ProcessResponse
  <2>1. Receive("response")
    BY Zenon, <1>10 DEF ProcessResponse
  <2>2. Requested(i) => Requested(i)'
    BY <2>1, RequestedTail DEF CloseInv
  <2>3. QED
    BY Zenon, <1>10, <2>2 DEF ProcessResponse, Receive
<1>11. CASE ProcessTimeout
  <2>1. Receive("timeout")
    BY <1>11 DEF ProcessTimeout
  <2>2. Requested(i) => Requested(i)'
    BY <2>1, RequestedTail DEF CloseInv
  <2>3. QED
    BY <1>11, <2>2 DEF ProcessTimeout, Receive
<1>12. CASE ProcessFinish
  <2>1. Requested(i) => Requested(i)'
    BY <1>12, RequestedTail DEF ProcessFinish, CloseInv
  <2>2. QED
    BY <1>12, <2>1 DEF ProcessFinish, Receive, CloseResponses
<1>13. CASE CleanupDone
  BY <1>13, <1>b DEF CleanupDone
<1>14. CASE SendResponseDropped
  BY <1>14, <1>b DEF SendResponseDropped, SendResponseReturn, CloseResponses
<1>15. CASE \E c \in Callers : NextMessageID(c) \/ EncodeError(c) \/
        SendMessage(c) \/ CountRequest(c) \/ ReceiveClosed(c) \/ Delivered(c)
        \/ Cancelled(c) \/ FinishMessage(c) \/ FinishMessageTest(c) \/
        FinishMessageCount(c) \/ HandshakeSucceeds(c) \/ HandshakeFails(c)
  BY Zenon, <1>15, <1>1 DEF NextMessageID, EncodeError, OnlyPc, SendMessage,
     CountRequest, ReceiveClosed, Delivered, Cancelled, FinishMessage,
     FinishMessageTest, FinishMessageCount, HandshakeSucceeds, HandshakeFails
<1>16. CASE \E p \in Procs : SendProcessMessageLock(p) \/ CloseLock(p) \/
        CloseConfirmed(p) \/ CloseJoin(p)
  BY Zenon, <1>16, <1>1 DEF SendProcessMessageLock, CloseLock, CloseConfirmed,
     CloseJoin
<1>17. CASE \E r \in Readers : ReadPacket(r) \/ ReadError(r) \/
        StoreCloseErr(r) \/ TestStartingTLS(r)
  BY Zenon, <1>17, <1>1 DEF ReadPacket, ReadError, OnlyPc, StoreCloseErr,
     TestStartingTLS
<1>18. CASE \E id \in IDs : TimerFires(id) \/ TimerStops(id) \/
        ServerEntry(id) \/ ServerResult(id)
  BY Zenon, <1>18, <1>1 DEF TimerFires, OnlyPc, TimerStops, ServerEntry, ServerSends,
     ServerResult
<1>19. CASE \E c \in Callers, k \in Kinds : Call(c, k)
  BY <1>19, <1>1 DEF Call
<1>20. CASE \E t \in Timeouts : SetTimeout(t)
  BY <1>20, <1>1 DEF SetTimeout
<1>21. CASE ServerStray \/ ServerCloses
  BY Zenon, <1>21, <1>1 DEF ServerStray, ServerSends, ServerCloses
<1>22. CASE UNCHANGED vars
  BY <1>22, <1>1 DEF vars
<1>23. QED
  BY Zenon, <1>1, <1>2, <1>3, <1>4, <1>5, <1>6, <1>7, <1>8, <1>9, <1>10, <1>11,
     <1>12, <1>13, <1>14, <1>15, <1>16, <1>17, <1>18, <1>19, <1>20, <1>21,
     <1>22
  DEF Next, CallerStep, SharedStep, ProcessMessages, ReaderStep, Server

(* Every step keeps every waiting caller in the hands of processMessages. *)
LEMMA WaitNext == CloseInv /\ ZeroInv /\ WaitInv /\ [Next]_vars => WaitInv'
<1> SUFFICES ASSUME CloseInv, ZeroInv, WaitInv, [Next]_vars,
                    NEW x \in Callers, pc'[x] \in {"wait", "deliver"}, NEW i, i = cid'[x]
             PROVE  Held(i)'
  BY DEF WaitInv
<1>t. /\ pc \in [Procs -> CallerLocs \cup ReaderLocs \cup TimerLocs] /\ x \in Procs
      /\ cid \in [Callers -> 0..MaxOps] /\ x \notin Readers /\ x \notin IDs
  BY Distinct DEF CloseInv, Types, CallTypes, Procs
<1>i. cid[x] = i
  BY <1>t, IdStep DEF NextMessageID, Goto
<1>h. ASSUME pc[x] \in {"wait", "deliver"} PROVE Held(i)'
  BY <1>h, <1>i, HeldNext DEF WaitInv
<1>1. CASE pc'[x] = pc[x]
  BY <1>1, <1>h
<1>2. CASE CallerStep(x)
  <2> USE <1>t, <1>h DEF Goto
  <2>1. CASE \E k \in Kinds : Call(x, k)
    BY <2>1 DEF Call
  <2>2. CASE NextMessageID(x) \/ EncodeError(x) \/ SendMessage(x) \/ CountRequest(x)
    BY <2>2 DEF NextMessageID, EncodeError, SendMessage, CountRequest
  <2>3. CASE ReceiveClosed(x) \/ Delivered(x) \/ Cancelled(x) \/ SendResponse(x)
    BY Zenon, <2>3 DEF ReceiveClosed, Delivered, Cancelled, SendResponse
  <2>4. CASE FinishMessage(x) \/ FinishMessageTest(x) \/ FinishMessageCount(x)
    BY SMTT(20), <2>4 DEF FinishMessage, FinishMessageTest, FinishMessageCount, AfterFinish
  <2>5. CASE HandshakeSucceeds(x) \/ HandshakeFails(x)
    BY Zenon, <2>5 DEF HandshakeSucceeds, HandshakeFails
  <2>6. QED
    BY Zenon, <1>2, <2>1, <2>2, <2>3, <2>4, <2>5 DEF CallerStep
<1>3. CASE SharedStep(x)
  <2>1. CASE SendProcessMessageSend(x)
    <3>1. cid[x] \notin done
      BY <2>1, <1>t DEF SendProcessMessageSend, Goto, AfterSend, AfterFinish
    <3>2. MessageOf(x).op = "request" /\ MessageOf(x).id = i
      BY Zenon, <3>1, <1>i, <1>t DEF MessageOf
    <3>3. chanMessage \in Seq(Message) /\ MessageOf(x) \in Message
      BY Zenon, <1>t, MessageType DEF CloseInv, Types, QueueTypes
    <3>4. Requested(i)'
      <4>1. \E k \in DOMAIN chanMessage' : chanMessage'[k] = MessageOf(x)
        BY Zenon, <2>1, <3>3, ChanAppend DEF SendProcessMessageSend
      <4>2. QED
        BY <4>1, <3>2 DEF Requested
    <3>5. QED
      BY <3>4 DEF Held
  <2>2. CASE ~SendProcessMessageSend(x)
    BY Zenon, <1>3, <2>2, <1>t DEF SharedStep, SendProcessMessageLock, AfterSend, AfterFinish,
       CloseLock, CloseQuit, CloseConfirmed, CloseJoin, AfterClose, Goto
  <2>3. QED
    BY <2>1, <2>2
<1>4. QED
  BY <1>1, <1>2, <1>3, PcStep DEF CloseInv

-----------------------------------------------------------------------------
(* Counting the outstanding requests *)

(* Only StartTLS performs a handshake. *)
HandshakeKind == \A c \in Callers : pc[c] = "handshake" => kind[c] = "starttls"

OutstandingSet == {c \in Callers : Outstanding(c)}

(* Where a caller may enter or leave the outstanding ones: in the two critical
   sections that count, and when it finds the connection closing. *)
LEMMA OutstandingStep ==
    ASSUME CloseInv, ZeroInv, HandshakeKind, NEW x \in Callers, [Next]_vars,
           ~CountRequest(x), ~FinishMessageCount(x)
    PROVE  /\ Outstanding(x)' => Outstanding(x)
           /\ Outstanding(x) => Outstanding(x)' \/ closing
<1>t. /\ pc \in [Procs -> CallerLocs \cup ReaderLocs \cup TimerLocs] /\ x \in Procs
      /\ pc[x] \in CallerLocs
      /\ cid \in [Callers -> 0..MaxOps] /\ x \notin Readers /\ x \notin IDs
      /\ kind \in [Callers -> AllKinds] /\ closing \in BOOLEAN
  BY Zenon, Distinct DEF CloseInv, Types, CallTypes, Procs, FlagTypes
<1>n. CASE NextMessageID(x)
  BY <1>n, <1>t DEF NextMessageID, Goto, Outstanding, CloseLocs
<1>c. ASSUME NEW k \in Kinds, Call(x, k)
      PROVE  ~Outstanding(x) /\ ~Outstanding(x)'
  BY <1>c, <1>t DEF Call, Goto, Outstanding, CloseLocs
<1>o. CASE ~NextMessageID(x) /\ \A k \in Kinds : ~Call(x, k)
  <2>1. cid'[x] = cid[x] /\ kind'[x] = kind[x]
    BY <1>o, <1>t, IdStep, KindStep DEF NextMessageID, CloseInv
  <2>2. pc[x] \in {"lock", "send"} /\ ~FinishMessage(x) => (cid[x] \in done' <=> cid[x] \in done)
    <3>1. pc[x] \in {"lock", "send"} => cid[x] # 0
      BY DEF ZeroInv, ZeroCaller, CloseLocs
    <3>2. \A c \in Callers : cid[c] = cid[x] /\ cid[x] # 0 => c = x
      BY DEF CloseInv, IdInv, IdOwned
    <3>3. QED
      BY <3>1, <3>2, DoneStep
  <2>3. CASE pc'[x] = pc[x]
    <3>1. ~FinishMessage(x)
      BY <2>3, <1>t DEF FinishMessage, Goto
    <3>2. QED
      BY <2>1, <2>2, <2>3, <3>1 DEF Outstanding
  <2>4. CASE CallerStep(x)
    <3> USE <1>t, <2>1 DEF Goto, Outstanding, CloseLocs
    <3>1. CASE EncodeError(x) \/ SendMessage(x)
      BY Zenon, <3>1 DEF EncodeError, SendMessage
    <3>2. CASE ReceiveClosed(x) \/ Delivered(x) \/ Cancelled(x)
      BY Zenon, <3>2 DEF ReceiveClosed, Delivered, Cancelled
    <3>3. CASE SendResponse(x)
      <4>1. PICK l \in AfterReceive(x, out.what) : pc' = [pc EXCEPT ![x] = l]
        BY Zenon, <3>3 DEF SendResponse
      <4>2. l \in {"wait", "deliver", "deliver.last", "handshake", "finish"}
        BY <4>1 DEF AfterReceive
      <4>3. QED
        BY Zenon, <3>3, <4>1, <4>2 DEF SendResponse
    <3>4. CASE FinishMessage(x)
      BY Zenon, <3>4 DEF FinishMessage
    <3>5. CASE FinishMessageTest(x)
      BY <3>5 DEF FinishMessageTest, AfterFinish
    <3>6. CASE HandshakeSucceeds(x)
      BY Zenon, <3>6 DEF HandshakeSucceeds
    <3>7. CASE HandshakeFails(x)
      BY <3>7 DEF HandshakeFails, HandshakeKind
    <3>8. QED
      BY Zenon, <2>4, <1>o, <3>1, <3>2, <3>3, <3>4, <3>5, <3>6, <3>7 DEF CallerStep
  <2>5. CASE SharedStep(x)
    <3> USE <1>t, <2>1 DEF Goto, Outstanding, CloseLocs
    <3>1. CASE SendProcessMessageLock(x)
      <4>1. UNCHANGED done
        BY <3>1 DEF SendProcessMessageLock, ctxVars
      <4>2. QED
        BY Zenon, <3>1, <4>1 DEF SendProcessMessageLock, AfterSend, AfterFinish
    <3>2. CASE SendProcessMessageSend(x)
      <4>1. UNCHANGED done
        BY <3>2 DEF SendProcessMessageSend, ctxVars
      <4>2. QED
        BY Zenon, <3>2, <4>1 DEF SendProcessMessageSend, AfterSend, AfterFinish
    <3>3. CASE CloseLock(x) \/ CloseQuit(x) \/ CloseConfirmed(x)
      BY Zenon, <3>3 DEF CloseLock, CloseQuit, CloseConfirmed
    <3>4. CASE CloseJoin(x)
      BY Zenon, <3>4 DEF CloseJoin, AfterClose
    <3>5. QED
      BY Zenon, <2>5, <3>1, <3>2, <3>3, <3>4 DEF SharedStep
  <2>6. QED
    BY Zenon, <2>3, <2>4, <2>5, PcStep DEF CloseInv
<1>q. QED
  BY <1>n, <1>c, <1>o

(* Only StartTLS reaches the handshake. *)
LEMMA HandshakeKindNext == CloseInv /\ HandshakeKind /\ [Next]_vars => HandshakeKind'
<1> SUFFICES ASSUME CloseInv, HandshakeKind, [Next]_vars, NEW x \in Callers,
                    pc'[x] = "handshake"
             PROVE  kind'[x] = "starttls"
  BY DEF HandshakeKind
<1>t. /\ pc \in [Procs -> CallerLocs \cup ReaderLocs \cup TimerLocs] /\ x \in Procs
      /\ x \notin Readers /\ x \notin IDs
  BY Distinct DEF CloseInv, Types, CallTypes, Procs
<1>1. ~\E k \in Kinds : Call(x, k)
  BY <1>t DEF Call, Goto
<1>2. kind'[x] = kind[x]
  BY <1>1, KindStep DEF CloseInv
<1>3. CASE pc'[x] = pc[x]
  BY <1>2, <1>3 DEF HandshakeKind
<1>4. CASE SendResponse(x)
  <2>1. PICK l \in AfterReceive(x, out.what) : pc' = [pc EXCEPT ![x] = l]
    BY Zenon, <1>4 DEF SendResponse, Goto
  <2>2. l = "handshake"
    BY <2>1, <1>t
  <2>3. kind[x] = "starttls"
    BY <2>1, <2>2 DEF AfterReceive
  <2>4. QED
    BY <2>3, <1>2
<1>5. CASE CallerStep(x) /\ ~SendResponse(x)
  BY Zenon, <1>5, <1>1, <1>t DEF CallerStep, NextMessageID, EncodeError, SendMessage, CountRequest,
     ReceiveClosed, Delivered, Cancelled, FinishMessage, FinishMessageTest,
     FinishMessageCount, HandshakeSucceeds, HandshakeFails, AfterFinish, Goto
<1>6. CASE SharedStep(x)
  BY Zenon, <1>6, <1>t DEF SharedStep, SendProcessMessageLock, SendProcessMessageSend, AfterSend,
     AfterFinish, CloseLock, CloseQuit, CloseConfirmed, CloseJoin, AfterClose, Goto
<1>7. QED
  BY <1>3, <1>4, <1>5, <1>6, PcStep DEF CloseInv

(* What a step may do to isStartingTLS and outstandingRequests. *)
LEMMA TlsStep ==
    ASSUME [Next]_vars
    PROVE  \/ UNCHANGED tlsVars
           \/ \E c \in Callers : CountRequest(c) \/ FinishMessageCount(c)
<1> DEFINE Move == \/ UNCHANGED tlsVars
                   \/ \E c \in Callers : CountRequest(c) \/ FinishMessageCount(c)
<1> SUFFICES Move
  OBVIOUS
<1>1. CASE UNCHANGED <<tlsVars>>
  BY <1>1
<1>2. ASSUME NEW c \in Callers, CountRequest(c) PROVE Move
  BY <1>2
<1>3. ASSUME NEW c \in Callers, FinishMessageCount(c) PROVE Move
  BY <1>3
<1>4. CASE \E c \in Callers : NextMessageID(c) \/ EncodeError(c) \/
        SendMessage(c) \/ ReceiveClosed(c) \/ Delivered(c) \/ Cancelled(c) \/
        FinishMessage(c) \/ FinishMessageTest(c) \/ SendResponse(c) \/
        HandshakeSucceeds(c) \/ HandshakeFails(c)
  BY Zenon, <1>4, <1>1 DEF NextMessageID, EncodeError, OnlyPc, SendMessage,
     ReceiveClosed, Delivered, Cancelled, FinishMessage, FinishMessageTest,
     SendResponse, SendResponseReturn, HandshakeSucceeds, HandshakeFails
<1>5. CASE \E p \in Procs : SendProcessMessageLock(p) \/
        SendProcessMessageSend(p) \/ CloseLock(p) \/ CloseQuit(p) \/
        CloseConfirmed(p) \/ CloseJoin(p)
  BY Zenon, <1>5, <1>1 DEF SendProcessMessageLock, SendProcessMessageSend, CloseLock,
     CloseQuit, CloseConfirmed, CloseJoin
<1>6. CASE \E r \in Readers : ReadPacket(r) \/ ReadError(r) \/
        StoreCloseErr(r) \/ TestStartingTLS(r)
  BY Zenon, <1>6, <1>1 DEF ReadPacket, ReadError, OnlyPc, StoreCloseErr,
     TestStartingTLS
<1>7. CASE \E id \in IDs : TimerFires(id) \/ TimerStops(id) \/ Cleanup(id) \/
        ServerEntry(id) \/ ServerResult(id)
  BY Zenon, <1>7, <1>1 DEF TimerFires, OnlyPc, TimerStops, Cleanup, ServerEntry,
     ServerSends, ServerResult
<1>8. CASE \E c \in Callers, k \in Kinds : Call(c, k)
  BY <1>8, <1>1 DEF Call
<1>9. CASE \E t \in Timeouts : SetTimeout(t)
  BY <1>9, <1>1 DEF SetTimeout
<1>10. CASE Start \/ ProcessQuit \/ ProcessRequest \/ ProcessRequestError \/
        ProcessResponse \/ ProcessTimeout \/ ProcessFinish \/ CleanupDone \/
        SendResponseDropped \/ ServerStray \/ ServerCloses
  BY Zenon, <1>10, <1>1 DEF Start, ProcessQuit, ProcessRequest, ProcessRequestError,
     ProcessResponse, ProcessTimeout, ProcessFinish, CleanupDone,
     SendResponseDropped, SendResponseReturn, ServerStray, ServerSends,
     ServerCloses
<1>11. CASE UNCHANGED vars
  BY <1>11, <1>1 DEF vars
<1>12. QED
  BY <1>1, <1>2, <1>3, <1>4, <1>5, <1>6, <1>7, <1>8, <1>9, <1>10, <1>11
  DEF Next, CallerStep, SharedStep, ProcessMessages, ReaderStep, Server

(* The set after a step: what CountRequest adds, FinishMessageCount removes. *)
LEMMA OutstandingSetStep ==
    ASSUME CloseInv, ZeroInv, HandshakeKind, [Next]_vars
    PROVE  \/ /\ UNCHANGED tlsVars
              /\ OutstandingSet' \subseteq OutstandingSet
              /\ ~closing => OutstandingSet' = OutstandingSet
           \/ \E c \in Callers \ OutstandingSet :
                 /\ OutstandingSet' = OutstandingSet \cup {c}
                 /\ ~isStartingTLS
                 /\ kind[c] = "starttls" => outstandingRequests = 0
                 /\ isStartingTLS' = (kind[c] = "starttls")
                 /\ outstandingRequests' = outstandingRequests + 1
                 /\ UNCHANGED <<closing, kind>>
           \/ \E c \in OutstandingSet :
                 /\ OutstandingSet' = OutstandingSet \ {c}
                 /\ isStartingTLS' = FALSE
                 /\ outstandingRequests' = outstandingRequests - 1
                 /\ UNCHANGED closing
<1>t. /\ pc \in [Procs -> CallerLocs \cup ReaderLocs \cup TimerLocs]
      /\ Callers \subseteq Procs
  BY DEF CloseInv, Types, CallTypes, Procs
<1>s. /\ \A x \in Callers : x \in OutstandingSet <=> Outstanding(x)
      /\ \A x \in Callers : x \in OutstandingSet' <=> Outstanding(x)'
      /\ OutstandingSet \subseteq Callers /\ OutstandingSet' \subseteq Callers
  BY DEF OutstandingSet
<1>o. ASSUME NEW c \in Callers, NEW l, pc' = [pc EXCEPT ![c] = l], UNCHANGED <<cid, kind, done>>,
             NEW x \in Callers \ {c}
      PROVE  x \in OutstandingSet' <=> x \in OutstandingSet
  BY <1>o, <1>t, <1>s DEF Outstanding
<1>1. ASSUME NEW c \in Callers, CountRequest(c), pc'[c] = "lock"
      PROVE  /\ c \notin OutstandingSet
             /\ OutstandingSet' = OutstandingSet \cup {c}
             /\ ~isStartingTLS
             /\ kind[c] = "starttls" => outstandingRequests = 0
             /\ isStartingTLS' = (kind[c] = "starttls")
             /\ outstandingRequests' = outstandingRequests + 1
             /\ UNCHANGED <<closing, kind>>
  <2>1. /\ ~(isStartingTLS \/ (kind[c] = "starttls" /\ outstandingRequests # 0))
        /\ pc' = [pc EXCEPT ![c] = "lock"] /\ pc[c] = "flags"
        /\ isStartingTLS' = (kind[c] = "starttls")
        /\ outstandingRequests' = outstandingRequests + 1
        /\ UNCHANGED <<closing, cid, kind, done>>
    BY <1>1, <1>t DEF CountRequest, Goto, flagVars, ctxVars, callVars
  <2>2. cid[c] \notin done
    <3>1. cid[c] # 0 /\ cid[c] \in 0..MaxOps
      BY <2>1 DEF ZeroInv, ZeroCaller, CloseLocs, CloseInv, Types, CallTypes
    <3>2. cid[c] \in IDs
      BY <3>1, ConnAssumption DEF ConnAssumption, IDs
    <3>3. NotSent(c)
      BY <2>1 DEF NotSent
    <3>4. QED
      BY Zenon, <3>2, <3>3 DEF CloseInv, IdInv, IdFresh, Absent
  <2>3. c \notin OutstandingSet /\ c \in OutstandingSet'
    BY Zenon, <2>1, <2>2, <1>s, <1>t DEF Outstanding, CloseLocs
  <2>4. OutstandingSet' = OutstandingSet \cup {c}
    BY Zenon, <2>1, <2>3, <1>o, <1>s
  <2>5. QED
    BY <2>1, <2>3, <2>4
<1>2. ASSUME NEW c \in Callers, FinishMessageCount(c)
      PROVE  /\ c \in OutstandingSet
             /\ OutstandingSet' = OutstandingSet \ {c}
             /\ isStartingTLS' = FALSE
             /\ outstandingRequests' = outstandingRequests - 1
             /\ UNCHANGED closing
  <2>1. /\ pc' = [pc EXCEPT ![c] = "lock"] /\ pc[c] = "finish.count"
        /\ isStartingTLS' = FALSE
        /\ outstandingRequests' = outstandingRequests - 1
        /\ UNCHANGED <<closing, cid, kind, done>>
    BY <1>2 DEF FinishMessageCount, Goto, flagVars, ctxVars, callVars
  <2>2. cid[c] \in done
    BY <2>1 DEF CloseInv, IdInv, IdOwned
  <2>3. c \in OutstandingSet /\ c \notin OutstandingSet'
    BY <2>1, <2>2, <1>s, <1>t DEF Outstanding, CloseLocs
  <2>4. OutstandingSet' = OutstandingSet \ {c}
    BY Zenon, <2>1, <2>3, <1>o, <1>s
  <2>5. QED
    BY <2>1, <2>3, <2>4
<1>3. ASSUME NEW c \in Callers, CountRequest(c), pc'[c] # "lock"
      PROVE  UNCHANGED tlsVars /\ OutstandingSet' = OutstandingSet
  <2>1. /\ pc' = [pc EXCEPT ![c] = "idle"] /\ pc[c] = "flags" /\ UNCHANGED tlsVars
        /\ UNCHANGED <<cid, kind, done>>
    BY <1>3, <1>t DEF CountRequest, Goto, ctxVars, callVars
  <2>2. c \notin OutstandingSet /\ c \notin OutstandingSet'
    BY <2>1, <1>s, <1>t DEF Outstanding, CloseLocs
  <2>3. QED
    BY Zenon, <2>1, <2>2, <1>o, <1>s
<1>4. ASSUME \A c \in Callers : ~CountRequest(c) /\ ~FinishMessageCount(c)
      PROVE  /\ UNCHANGED tlsVars
             /\ OutstandingSet' \subseteq OutstandingSet
             /\ ~closing => OutstandingSet' = OutstandingSet
  BY <1>4, <1>s, OutstandingStep, TlsStep
<1>5. QED
  BY Zenon, <1>1, <1>2, <1>3, <1>4

(* The requests under way are finitely many. *)
LEMMA OutstandingFinite ==
    /\ IsFiniteSet(OutstandingSet) /\ Cardinality(OutstandingSet) \in Nat
    /\ IsFiniteSet(OutstandingSet') /\ Cardinality(OutstandingSet') \in Nat
<1>1. OutstandingSet \subseteq Callers /\ OutstandingSet' \subseteq Callers
  BY DEF OutstandingSet
<1>2. QED
  BY <1>1, FS_Subset, FS_CardinalityType, ConnAssumption DEF ConnAssumption

(* Every step keeps outstandingRequests exact. *)
LEMMA OutstandingExactNext ==
    CloseInv /\ ZeroInv /\ HandshakeKind /\ OutstandingExact /\ [Next]_vars
        => OutstandingExact'
<1> SUFFICES ASSUME CloseInv, ZeroInv, HandshakeKind, OutstandingExact, [Next]_vars
             PROVE  OutstandingExact'
  OBVIOUS
<1> DEFINE n == Cardinality(OutstandingSet)
           m == Cardinality(OutstandingSet')
<1>t. /\ outstandingRequests \in Int /\ n \in Nat /\ m \in Nat
      /\ closing => closing'
  BY OutstandingFinite, ClosingStays DEF CloseInv, Types, CountTypes
<1>i. outstandingRequests >= n /\ (~closing => outstandingRequests = n)
  BY DEF OutstandingExact, OutstandingSet
<1>p. OutstandingExact' <=> /\ outstandingRequests' >= m
                            /\ ~closing' => outstandingRequests' = m
  BY DEF OutstandingExact, OutstandingSet
<1>1. CASE /\ UNCHANGED tlsVars
           /\ OutstandingSet' \subseteq OutstandingSet
           /\ ~closing => OutstandingSet' = OutstandingSet
  <2>1. m <= n
    BY <1>1, OutstandingFinite, FS_Subset
  <2>2. ~closing => m = n
    BY <1>1
  <2>3. QED
    BY <1>1, <2>1, <2>2, <1>t, <1>i, <1>p DEF tlsVars
<1>2. ASSUME NEW c \in Callers \ OutstandingSet, OutstandingSet' = OutstandingSet \cup {c},
             outstandingRequests' = outstandingRequests + 1, UNCHANGED closing
      PROVE  OutstandingExact'
  <2>1. m = n + 1
    BY <1>2, OutstandingFinite, FS_AddElement
  <2>2. QED
    BY <1>2, <2>1, <1>t, <1>i, <1>p
<1>3. ASSUME NEW c \in OutstandingSet, OutstandingSet' = OutstandingSet \ {c},
             outstandingRequests' = outstandingRequests - 1, UNCHANGED closing
      PROVE  OutstandingExact'
  <2>1. m = n - 1
    BY <1>3, OutstandingFinite, FS_RemoveElement
  <2>2. QED
    BY <1>3, <2>1, <1>t, <1>i, <1>p
<1>4. QED
  BY Zenon, <1>1, <1>2, <1>3, OutstandingSetStep

(* Every step keeps StartTLS alone while isStartingTLS is set. *)
LEMMA StartTLSAloneNext ==
    CloseInv /\ ZeroInv /\ HandshakeKind /\ OutstandingExact /\ StartTLSAlone /\ [Next]_vars
        => StartTLSAlone'
<1> SUFFICES ASSUME CloseInv, ZeroInv, HandshakeKind, OutstandingExact, StartTLSAlone,
                    [Next]_vars, isStartingTLS'
             PROVE  \A c, d \in OutstandingSet' : c = d /\ kind'[c] = "starttls"
  BY Zenon DEF StartTLSAlone, OutstandingSet
<1>s. isStartingTLS => \A c, d \in OutstandingSet : c = d /\ kind[c] = "starttls"
  BY DEF StartTLSAlone, OutstandingSet
<1>k. \A c \in Callers : Outstanding(c) => kind'[c] = kind[c]
  <2>1. ASSUME NEW c \in Callers, NEW k \in Kinds, Call(c, k)
        PROVE  ~Outstanding(c)
    BY <2>1 DEF Call, Outstanding, CloseLocs
  <2>2. QED
    BY <2>1, KindStep DEF CloseInv
<1>1. CASE /\ UNCHANGED tlsVars
           /\ OutstandingSet' \subseteq OutstandingSet
  BY <1>1, <1>s, <1>k DEF tlsVars, OutstandingSet
<1>2. ASSUME NEW c \in Callers, UNCHANGED kind,
             OutstandingSet' = OutstandingSet \cup {c},
             isStartingTLS' = (kind[c] = "starttls"),
             kind[c] = "starttls" => outstandingRequests = 0
      PROVE  \A a, d \in OutstandingSet' : a = d /\ kind'[a] = "starttls"
  <2>1. OutstandingSet = {}
    <3>1. 0 >= Cardinality(OutstandingSet)
      BY Zenon, <1>2 DEF OutstandingExact, OutstandingSet
    <3>2. QED
      BY <3>1, OutstandingFinite, FS_EmptySet
  <2>2. kind'[c] = "starttls"
    BY Zenon, <1>2
  <2>3. QED
    BY <2>1, <2>2, <1>2
<1>3. QED
  BY Zenon, <1>1, <1>2, OutstandingSetStep

-----------------------------------------------------------------------------
(* The invariant and the theorems *)

SafetyInv ==
    /\ CloseInv /\ ZeroInv /\ ContextInv /\ WaitInv
    /\ HandshakeKind /\ OutstandingExact /\ StartTLSAlone

(* NewConn establishes the invariant. *)
LEMMA SafetyInit == Init => SafetyInv
<1> SUFFICES ASSUME Init PROVE SafetyInv
  OBVIOUS
<1>1. CloseInv
  BY TypesInit, IdInit, CloseInit DEF CloseInv
<1>p. \A c \in Callers : pc[c] = "idle"
  BY DEF Init, Procs
<1>2. ZeroInv
  BY <1>p DEF Init, ZeroInv, ZeroCaller, ZeroQueue, ZeroContext
<1>3. ContextInv /\ WaitInv /\ HandshakeKind
  BY <1>p DEF Init, ContextInv, WaitInv, HandshakeKind
<1>4. \A c \in Callers : ~Outstanding(c)
  BY <1>p DEF Outstanding, CloseLocs
<1>5. OutstandingExact
  <2>1. {c \in Callers : Outstanding(c)} = {}
    BY <1>4
  <2>2. Cardinality({c \in Callers : Outstanding(c)}) = 0 /\ outstandingRequests = 0
    BY Zenon, <2>1, FS_EmptySet DEF Init
  <2>3. QED
    BY <2>2 DEF OutstandingExact
<1>6. StartTLSAlone
  BY DEF Init, StartTLSAlone
<1>7. QED
  BY <1>1, <1>2, <1>3, <1>5, <1>6 DEF SafetyInv

(* Every step preserves it. *)
LEMMA SafetyNext == SafetyInv /\ [Next]_vars => SafetyInv'
<1> SUFFICES ASSUME SafetyInv, [Next]_vars PROVE SafetyInv'
  OBVIOUS
<1> USE DEF SafetyInv
<1>1. CloseInv'
  BY TypesNext, IdNext, LockNext, QuitNext DEF CloseInv
<1>2. ZeroInv' /\ ContextInv' /\ WaitInv'
  BY ZeroNext, ContextNext, WaitNext
<1>3. HandshakeKind' /\ OutstandingExact' /\ StartTLSAlone'
  BY HandshakeKindNext, OutstandingExactNext, StartTLSAloneNext
<1>4. QED
  BY <1>1, <1>2, <1>3

(* The conjunction of all the parts holds throughout: the inductive invariant
   from which the theorems below are read off. *)
THEOREM SafetyInvariant == Spec => []SafetyInv
BY SafetyInit, SafetyNext, PTL DEF Spec

(* Type correctness of the connection (the fields of Conn, conn.go:97-121):
   the unsigned outstandingRequests never goes below zero, the queue never
   exceeds the capacity of chanMessage, and wgClose counts one Close. *)
THEOREM TypeCorrect == Spec => []TypeOK
<1>1. SafetyInv => TypeOK
  <2> SUFFICES ASSUME SafetyInv PROVE TypeOK
    OBVIOUS
  <2> USE DEF SafetyInv, CloseInv, Types
  <2>1. outstandingRequests \in Nat
    <3>1. outstandingRequests \in Int /\ outstandingRequests >= Cardinality(OutstandingSet)
      BY DEF CountTypes, OutstandingExact, OutstandingSet
    <3>2. QED
      BY <3>1, OutstandingFinite
  <2>2. wgClose \in {0, 1}
    BY DEF LockInv
  <2>3. /\ messageContexts \subseteq IDs /\ done \subseteq IDs
        /\ respClosed \subseteq IDs /\ srvPending \subseteq IDs
    <3>1. \A i \in 0..MaxOps : i # 0 => i \in IDs
      BY ConnAssumption DEF ConnAssumption, IDs
    <3>2. QED
      BY <3>1 DEF ContextTypes, ZeroInv, ZeroContext
  <2>4. QED
    BY <2>1, <2>2, <2>3, Zenon DEF TypeOK, FlagTypes, CallTypes, CountTypes, QueueTypes, LoopTypes
<1>2. QED
  BY <1>1, SafetyInvariant, PTL

(* processMessages (conn.go:535-631) never sends on a responses channel it has
   closed and never closes one twice. *)
THEOREM ResponsesSafety == Spec => []ResponsesSafe
<1>1. SafetyInv => ResponsesSafe
  <2> SUFFICES ASSUME SafetyInv PROVE ResponsesSafe
    OBVIOUS
  <2> USE DEF SafetyInv
  <2>1. /\ messageContexts \cap respClosed = {}
        /\ pm = "sending" => out.id \notin respClosed
    BY DEF ContextInv
  <2>2. \A i \in DOMAIN chanMessage :
           chanMessage[i].op = "request" => chanMessage[i].id \notin respClosed
    BY Zenon DEF CloseInv, IdInv, IdQueued, Unwritten, ZeroInv, ZeroQueue
  <2>3. QED
    BY <2>1, <2>2 DEF ResponsesSafe
<1>2. QED
  BY <1>1, SafetyInvariant, PTL

(* Every operation still reading its responses channel when processMessages
   has exited finds it closed (the deferred loop, conn.go:536-552). *)
THEOREM NoOrphans == Spec => []NoOrphan
<1>1. SafetyInv => NoOrphan
  <2> SUFFICES ASSUME SafetyInv, pm = "exited", NEW c \in Callers, pc[c] = "wait"
               PROVE  cid[c] \in respClosed
    BY DEF NoOrphan
  <2>1. chanMessage = <<>>
    BY DEF SafetyInv, CloseInv, QuitInv
  <2>2. Held(cid[c])
    BY DEF SafetyInv, WaitInv
  <2>3. ~Requested(cid[c])
    BY <2>1 DEF Requested
  <2>4. cid[c] \notin messageContexts
    BY DEF SafetyInv, ContextInv
  <2>5. QED
    BY <2>2, <2>3, <2>4 DEF Held
<1>2. QED
  BY <1>1, SafetyInvariant, PTL

(* outstandingRequests (conn.go:466-481, 511-516) counts the unfinished
   requests, exactly until the connection closes. *)
THEOREM OutstandingCounted == Spec => []OutstandingExact
<1>1. SafetyInv => OutstandingExact
  BY DEF SafetyInv
<1>2. QED
  BY <1>1, SafetyInvariant, PTL

(* While isStartingTLS is set the StartTLS request is the only one under way
   (sendMessageWithFlags, conn.go:466-481). *)
THEOREM StartTLSIsAlone == Spec => []StartTLSAlone
<1>1. SafetyInv => StartTLSAlone
  BY DEF SafetyInv
<1>2. QED
  BY <1>1, SafetyInvariant, PTL

=============================================================================
