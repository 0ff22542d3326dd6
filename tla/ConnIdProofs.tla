---------------------------- MODULE ConnIdProofs ----------------------------
(* The life of a message id: it belongs to one caller, it is unknown to
   processMessages, the timers, the reader and the server until its request has
   been written, and the queue holds its request at most once. *)
EXTENDS ConnProofs

-----------------------------------------------------------------------------
(* The queue after a send and after a receive *)

(* The elements of chanMessage after a send. *)
LEMMA QueueAppend ==
    ASSUME NEW S, NEW q \in Seq(S), NEW m \in S, NEW r, r = Append(q, m)
    PROVE  /\ Len(r) = Len(q) + 1 /\ r[Len(q) + 1] = m /\ r # <<>>
           /\ \A i \in DOMAIN q : i \in DOMAIN r /\ r[i] = q[i] /\ i # Len(r)
           /\ \A i \in DOMAIN r : i \in DOMAIN q \/ i = Len(q) + 1
           /\ Len(q) + 1 \in DOMAIN r /\ Len(q) + 1 \notin DOMAIN q
OBVIOUS

(* A send on chanMessage keeps what was queued and puts one message last. *)
LEMMA ChanAppend ==
    ASSUME chanMessage \in Seq(Message), NEW m \in Message,
           chanMessage' = Append(chanMessage, m)
    PROVE  /\ \A i \in DOMAIN chanMessage' :
                 \/ i \in DOMAIN chanMessage /\ chanMessage'[i] = chanMessage[i]
                 \/ i = Len(chanMessage) + 1 /\ chanMessage'[i] = m
           /\ \A i \in DOMAIN chanMessage :
                 i \in DOMAIN chanMessage' /\ chanMessage'[i] = chanMessage[i]
           /\ \E i \in DOMAIN chanMessage' : chanMessage'[i] = m
<1> DEFINE q == chanMessage
<1> DEFINE r == chanMessage'
<1>1. q \in Seq(Message) /\ r = Append(q, m)
  OBVIOUS
<1> HIDE DEF q, r
<1>2. /\ r[Len(q) + 1] = m
      /\ \A i \in DOMAIN q : i \in DOMAIN r /\ r[i] = q[i]
      /\ \A i \in DOMAIN r : i \in DOMAIN q \/ i = Len(q) + 1
      /\ Len(q) + 1 \in DOMAIN r
  BY <1>1, QueueAppend
<1>3. QED
  BY <1>2 DEF q, r

(* What sendProcessMessage adds to chanMessage. *)
LEMMA SendAppends ==
    ASSUME Types, NEW p \in Procs, SendProcessMessageSend(p)
    PROVE  \A i \in DOMAIN chanMessage' :
              \/ i \in DOMAIN chanMessage /\ chanMessage'[i] = chanMessage[i]
              \/ i = Len(chanMessage) + 1 /\ chanMessage'[i] = MessageOf(p)
<1>1. chanMessage \in Seq(Message) /\ MessageOf(p) \in Message
  BY MessageType DEF Types, QueueTypes
<1>2. chanMessage' = Append(chanMessage, MessageOf(p))
  BY DEF SendProcessMessageSend
<1>3. QED
  BY <1>1, <1>2, ChanAppend

(* What Close adds to chanMessage. *)
LEMMA QuitAppends ==
    ASSUME Types, NEW p \in Procs, CloseQuit(p)
    PROVE  \A i \in DOMAIN chanMessage' :
              \/ i \in DOMAIN chanMessage /\ chanMessage'[i] = chanMessage[i]
              \/ i = Len(chanMessage) + 1 /\ chanMessage'[i] = QuitMessage
<1>1. chanMessage \in Seq(Message)
  BY DEF Types, QueueTypes
<1>2. chanMessage' = Append(chanMessage, QuitMessage)
  BY DEF CloseQuit
<1>3. QED
  BY <1>1, <1>2, QuitType, ChanAppend

(* The server appends one packet to what is on the wire. *)
LEMMA NetAppend ==
    ASSUME net \in Seq(Packet), NEW p \in Packet, net' = Append(net, p)
    PROVE  \A i \in DOMAIN net' : net'[i] = p \/ \E k \in DOMAIN net : net'[i] = net[k]
<1> DEFINE q == net
<1> DEFINE r == net'
<1>1. q \in Seq(Packet) /\ r = Append(q, p)
  OBVIOUS
<1> HIDE DEF q, r
<1>2. /\ r[Len(q) + 1] = p
      /\ \A i \in DOMAIN q : r[i] = q[i]
      /\ \A i \in DOMAIN r : i \in DOMAIN q \/ i = Len(q) + 1
  BY <1>1, QueueAppend
<1>3. QED
  BY <1>2 DEF q, r

(* 0 stands for no message id. *)
LEMMA IdNonZero == \A x \in IDs : x # 0
BY ConnAssumption DEF ConnAssumption, IDs

(* The elements of chanMessage after a receive. *)
LEMMA QueueTail ==
    ASSUME NEW S, NEW q \in Seq(S), q # <<>>, NEW r, r = Tail(q)
    PROVE  /\ 1 \in DOMAIN q /\ Head(q) = q[1]
           /\ \A i \in DOMAIN r : i + 1 \in DOMAIN q /\ r[i] = q[i + 1] /\ i + 1 # 1
           /\ \A i \in DOMAIN q : i # 1 => i - 1 \in DOMAIN r /\ r[i - 1] = q[i]
           /\ Len(q) = 1 => r = <<>>
OBVIOUS

-----------------------------------------------------------------------------
(* c has its message id and has not put its request into chanMessage. *)
NotSent(c) ==
    \/ pc[c] \in {"begin", "flags"}
    \/ pc[c] \in {"lock", "send"} /\ cid[c] \notin done

(* Nobody but the caller has seen the request with this id. *)
Unwritten(id) ==
    /\ pc[id] = "off"
    /\ id \notin messageContexts /\ id \notin respClosed /\ id \notin srvPending
    /\ \A i \in DOMAIN net : net[i].id # id
    /\ \A r \in Readers : packet[r].id # id
    /\ out.id # id
    /\ \A i \in DOMAIN chanMessage :
          chanMessage[i].op \in {"response", "timeout"} => chanMessage[i].id # id

(* Not even the request itself is under way. *)
Absent(id) ==
    /\ Unwritten(id)
    /\ id \notin done
    /\ \A i \in DOMAIN chanMessage : chanMessage[i].id # id

(* An id has one owner, who closes its done channel before finishing it. *)
IdOwned ==
    /\ \A c, d \in Callers : cid[c] = cid[d] /\ cid[c] # 0 => c = d
    /\ \A c \in Callers : cid[c] < messageID
    /\ \A c \in Callers : pc[c] \in {"finish.test", "finish.count"} => cid[c] \in done

(* Ids not handed out, and those whose request is not sent, are absent. *)
IdFresh ==
    \A id \in IDs : id >= messageID \/ (\E c \in Callers : cid[c] = id /\ NotSent(c))
                        => Absent(id)

IdQueued ==
    \A i \in DOMAIN chanMessage :
        chanMessage[i].op = "request" /\ chanMessage[i].id # 0 =>
            /\ Unwritten(chanMessage[i].id)
            /\ \A j \in DOMAIN chanMessage :
                  chanMessage[j].op = "request" /\ chanMessage[j].id = chanMessage[i].id
                      => i = j

IdInv == IdOwned /\ IdFresh /\ IdQueued

(* processMessages receives the request with this id. *)
RequestTaken(id) == Receive("request") /\ Head(chanMessage).id = id

-----------------------------------------------------------------------------
(* An id stays unwritten until its request is received. *)

(* The timer of a request still in the queue has not been started. *)
LEMMA TimerOff ==
    ASSUME Types, NEW x \in IDs, pc[x] = "off", ~RequestTaken(x), [Next]_vars
    PROVE  pc'[x] = "off"
<1> USE Distinct DEF Types, CallTypes, Goto, Procs, CallerLocs
<1>1. CASE UNCHANGED <<pc>>
  BY <1>1
<1>2. CASE Start
  BY <1>2 DEF Start
<1>3. ASSUME NEW c \in Callers, NEW k \in Kinds, Call(c, k) PROVE (pc[x] = "off")'
  BY <1>3 DEF Call, ReturnsAtOnce
<1>4. ASSUME NEW c \in Callers, NextMessageID(c) PROVE (pc[x] = "off")'
  BY <1>4 DEF NextMessageID
<1>5. ASSUME NEW c \in Callers, EncodeError(c) PROVE (pc[x] = "off")'
  BY <1>5 DEF EncodeError, OnlyPc
<1>6. ASSUME NEW c \in Callers, SendMessage(c) PROVE (pc[x] = "off")'
  BY <1>6 DEF SendMessage, OnlyPc
<1>7. ASSUME NEW c \in Callers, CountRequest(c) PROVE (pc[x] = "off")'
  BY <1>7 DEF CountRequest
<1>8. ASSUME NEW c \in Callers, ReceiveClosed(c) PROVE (pc[x] = "off")'
  BY <1>8 DEF ReceiveClosed, OnlyPc
<1>9. ASSUME NEW c \in Callers, Delivered(c) PROVE (pc[x] = "off")'
  BY <1>9 DEF Delivered, OnlyPc
<1>10. ASSUME NEW c \in Callers, Cancelled(c) PROVE (pc[x] = "off")'
  BY <1>10 DEF Cancelled, OnlyPc
<1>11. ASSUME NEW c \in Callers, FinishMessage(c) PROVE (pc[x] = "off")'
  BY <1>11 DEF FinishMessage
<1>12. ASSUME NEW c \in Callers, FinishMessageTest(c) PROVE (pc[x] = "off")'
  BY <1>12 DEF FinishMessageTest, AfterFinish, OnlyPc
<1>13. ASSUME NEW c \in Callers, FinishMessageCount(c) PROVE (pc[x] = "off")'
  BY <1>13 DEF FinishMessageCount
<1>14. ASSUME NEW c \in Callers, SendResponse(c) PROVE (pc[x] = "off")'
  BY <1>14 DEF SendResponse, SendResponseReturn, CloseResponses, AfterReceive,
     NoOut
<1>15. ASSUME NEW c \in Callers, HandshakeSucceeds(c) PROVE (pc[x] = "off")'
  BY <1>15 DEF HandshakeSucceeds
<1>16. ASSUME NEW c \in Callers, HandshakeFails(c) PROVE (pc[x] = "off")'
  BY <1>16 DEF HandshakeFails, OnlyPc
<1>17. ASSUME NEW p \in Procs, SendProcessMessageLock(p) PROVE (pc[x] = "off")'
  BY <1>17 DEF SendProcessMessageLock, AfterSend, AfterFinish
<1>18. ASSUME NEW p \in Procs, SendProcessMessageSend(p) PROVE (pc[x] = "off")'
  BY <1>18 DEF SendProcessMessageSend, AfterSend, AfterFinish, MessageOf
<1>19. ASSUME NEW p \in Procs, CloseLock(p) PROVE (pc[x] = "off")'
  BY <1>19 DEF CloseLock
<1>20. ASSUME NEW p \in Procs, CloseQuit(p) PROVE (pc[x] = "off")'
  BY <1>20 DEF CloseQuit
<1>21. ASSUME NEW p \in Procs, CloseConfirmed(p) PROVE (pc[x] = "off")'
  BY <1>21 DEF CloseConfirmed
<1>22. ASSUME NEW p \in Procs, CloseJoin(p) PROVE (pc[x] = "off")'
  BY <1>22 DEF CloseJoin, AfterClose
<1>23. ASSUME NEW id \in IDs, TimerFires(id) PROVE (pc[x] = "off")'
  BY <1>23 DEF TimerFires, OnlyPc
<1>24. ASSUME NEW id \in IDs, TimerStops(id) PROVE (pc[x] = "off")'
  BY <1>24 DEF TimerStops, OnlyPc
<1>25. ASSUME NEW r \in Readers, ReadPacket(r) PROVE (pc[x] = "off")'
  BY <1>25 DEF ReadPacket
<1>26. ASSUME NEW r \in Readers, ReadError(r) PROVE (pc[x] = "off")'
  BY <1>26 DEF ReadError, OnlyPc
<1>27. ASSUME NEW r \in Readers, StoreCloseErr(r) PROVE (pc[x] = "off")'
  BY <1>27 DEF StoreCloseErr
<1>28. ASSUME NEW r \in Readers, TestStartingTLS(r) PROVE (pc[x] = "off")'
  <2>1. \E l : pc' = [pc EXCEPT ![r] = l]
    BY Zenon, <1>28 DEF TestStartingTLS
  <2>2. QED
    BY <2>1
<1>29. CASE ProcessRequest
  BY <1>29 DEF ProcessRequest, RequestTaken
<1>30. CASE \E id \in IDs : Cleanup(id) \/ ServerEntry(id) \/ ServerResult(id)
  BY Zenon, <1>30, <1>1 DEF Cleanup, ServerEntry, ServerSends, ServerResult
<1>31. CASE \E t \in Timeouts : SetTimeout(t)
  BY <1>31, <1>1 DEF SetTimeout
<1>32. CASE ProcessQuit \/ ProcessRequestError \/ ProcessResponse \/
        ProcessTimeout \/ ProcessFinish \/ CleanupDone \/ SendResponseDropped
        \/ ServerStray \/ ServerCloses
  BY Zenon, <1>32, <1>1 DEF ProcessQuit, ProcessRequestError, ProcessResponse,
     ProcessTimeout, ProcessFinish, CleanupDone, SendResponseDropped,
     SendResponseReturn, ServerStray, ServerSends, ServerCloses
<1>33. CASE UNCHANGED vars
  BY <1>33, <1>1 DEF vars
<1>34. QED
  BY <1>1, <1>2, <1>3, <1>4, <1>5, <1>6, <1>7, <1>8, <1>9, <1>10, <1>11,
     <1>12, <1>13, <1>14, <1>15, <1>16, <1>17, <1>18, <1>19, <1>20, <1>21,
     <1>22, <1>23, <1>24, <1>25, <1>26, <1>27, <1>28, <1>29, <1>30, <1>31,
     <1>32, <1>33
  DEF Next, CallerStep, SharedStep, ProcessMessages, ReaderStep, Server

(* A message id that was not written stays out of messageContexts. *)
LEMMA Unregistered ==
    ASSUME Types, NEW x \in IDs, x \notin messageContexts, x \notin respClosed,
           out.id # x, ~RequestTaken(x), [Next]_vars
    PROVE  x \notin messageContexts' /\ x \notin respClosed'
<1> USE DEF Types, ctxVars
<1>1. CASE UNCHANGED <<messageContexts, respClosed>>
  BY SMTT(20), <1>1
<1>2. ASSUME NEW c \in Callers, SendResponse(c) PROVE (x \notin messageContexts /\ x \notin respClosed)'
  BY <1>2 DEF SendResponse, SendResponseReturn, CloseResponses
<1>3. ASSUME NEW id \in IDs, Cleanup(id) PROVE (x \notin messageContexts /\ x \notin respClosed)'
  <2>1. UNCHANGED <<respClosed, messageContexts>> \/ CloseResponses(id)
    BY <1>3, Zenon DEF Cleanup
  <2>2. id \in messageContexts
    BY Zenon, <1>3 DEF Cleanup
  <2>3. QED
    BY <2>1, <2>2 DEF CloseResponses
<1>4. CASE ProcessRequest
  BY <1>4 DEF ProcessRequest, RequestTaken
<1>5. CASE ProcessFinish
  BY <1>5 DEF ProcessFinish, CloseResponses
<1>6. CASE SendResponseDropped
  BY SMTT(20), <1>6 DEF SendResponseDropped, SendResponseReturn, CloseResponses
<1>7. CASE \E c \in Callers : NextMessageID(c) \/ EncodeError(c) \/
        SendMessage(c) \/ CountRequest(c) \/ ReceiveClosed(c) \/ Delivered(c)
        \/ Cancelled(c) \/ FinishMessage(c) \/ FinishMessageTest(c) \/
        FinishMessageCount(c) \/ HandshakeSucceeds(c) \/ HandshakeFails(c)
  BY <1>7, <1>1 DEF NextMessageID, EncodeError, OnlyPc, SendMessage,
     CountRequest, ReceiveClosed, Delivered, Cancelled, FinishMessage,
     FinishMessageTest, FinishMessageCount, HandshakeSucceeds, HandshakeFails
<1>8. CASE \E p \in Procs : SendProcessMessageLock(p) \/
        SendProcessMessageSend(p) \/ CloseLock(p) \/ CloseQuit(p) \/
        CloseConfirmed(p) \/ CloseJoin(p)
  BY Zenon, <1>8, <1>1 DEF SendProcessMessageLock, SendProcessMessageSend, CloseLock,
     CloseQuit, CloseConfirmed, CloseJoin
<1>9. CASE \E r \in Readers : ReadPacket(r) \/ ReadError(r) \/
        StoreCloseErr(r) \/ TestStartingTLS(r)
  BY Zenon, <1>9, <1>1 DEF ReadPacket, ReadError, OnlyPc, StoreCloseErr,
     TestStartingTLS
<1>10. CASE \E id \in IDs : TimerFires(id) \/ TimerStops(id) \/
        ServerEntry(id) \/ ServerResult(id)
  BY Zenon, <1>10, <1>1 DEF TimerFires, OnlyPc, TimerStops, ServerEntry, ServerSends,
     ServerResult
<1>11. CASE \E c \in Callers, k \in Kinds : Call(c, k)
  BY <1>11, <1>1 DEF Call
<1>12. CASE \E t \in Timeouts : SetTimeout(t)
  BY <1>12, <1>1 DEF SetTimeout
<1>13. CASE Start \/ ProcessQuit \/ ProcessRequestError \/ ProcessResponse \/
        ProcessTimeout \/ CleanupDone \/ ServerStray \/ ServerCloses
  BY Zenon, <1>13, <1>1 DEF Start, ProcessQuit, ProcessRequestError, ProcessResponse,
     ProcessTimeout, CleanupDone, ServerStray, ServerSends, ServerCloses
<1>14. CASE UNCHANGED vars
  BY <1>14, <1>1 DEF vars
<1>15. QED
  BY <1>1, <1>2, <1>3, <1>4, <1>5, <1>6, <1>7, <1>8, <1>9, <1>10, <1>11,
     <1>12, <1>13, <1>14
  DEF Next, CallerStep, SharedStep, ProcessMessages, ReaderStep, Server

(* The fields of the sendResponse that Respond begins. *)
LEMMA RespondFields ==
    ASSUME NEW i, NEW w, NEW b, NEW r, Respond(i, w, b, r)
    PROVE  /\ pm' = "sending" /\ out'.id = i /\ out'.what = w
           /\ out'.close = b /\ out'.ret = r
BY DEF Respond

(* A message id that was not written is not the one being answered. *)
LEMMA NotBeingSent ==
    ASSUME Types, NEW x \in IDs, Unwritten(x), ~RequestTaken(x), [Next]_vars
    PROVE  out'.id # x
<1> USE Distinct DEF pmVars, Unwritten
<1>n. NoOut.id # x
  <2>1. NoOut.id = 0
    BY DEF NoOut
  <2>2. QED
    BY <2>1, IdNonZero
<1>h. ASSUME NEW op \in {"response", "timeout"}, Receive(op)
      PROVE  Head(chanMessage).id # x
  <2>1. Head(chanMessage) = chanMessage[1] /\ 1 \in DOMAIN chanMessage
    BY <1>h, QueueTail DEF Receive, Types, QueueTypes
  <2>2. QED
    BY <2>1, <1>h DEF Receive
<1>1. CASE UNCHANGED <<out>>
  BY <1>1
<1>2. ASSUME NEW c \in Callers, SendResponse(c) PROVE (out.id # x)'
  BY <1>2, <1>n DEF SendResponse, SendResponseReturn
<1>3. ASSUME NEW id \in IDs, Cleanup(id) PROVE (out.id # x)'
  <2>1. UNCHANGED pmVars \/ Respond(id, "close error", TRUE, "cleanup")
    BY <1>3, Zenon DEF Cleanup
  <2>2. id # x
    BY Zenon, <1>3 DEF Cleanup
  <2>3. QED
    BY Zenon, <2>1, <2>2, RespondFields
<1>4. CASE ProcessRequestError
  BY Zenon, <1>4 DEF ProcessRequestError, Respond, RequestTaken
<1>5. CASE ProcessResponse
  <2>1. \/ UNCHANGED pmVars
        \/ Respond(Head(chanMessage).id, Head(chanMessage).what, FALSE, "select")
    BY Zenon, <1>5 DEF ProcessResponse
  <2>2. Head(chanMessage).id # x
    BY Zenon, <1>5, <1>h DEF ProcessResponse
  <2>3. QED
    BY Zenon, <2>1, <2>2, RespondFields
<1>6. CASE ProcessTimeout
  BY <1>6, <1>h DEF ProcessTimeout, Respond
<1>7. CASE SendResponseDropped
  BY <1>7, <1>n DEF SendResponseDropped, SendResponseReturn
<1>8. CASE \E c \in Callers : NextMessageID(c) \/ EncodeError(c) \/
        SendMessage(c) \/ CountRequest(c) \/ ReceiveClosed(c) \/ Delivered(c)
        \/ Cancelled(c) \/ FinishMessage(c) \/ FinishMessageTest(c) \/
        FinishMessageCount(c) \/ HandshakeSucceeds(c) \/ HandshakeFails(c)
  BY Zenon, <1>8, <1>1 DEF NextMessageID, EncodeError, OnlyPc, SendMessage,
     CountRequest, ReceiveClosed, Delivered, Cancelled, FinishMessage,
     FinishMessageTest, FinishMessageCount, HandshakeSucceeds, HandshakeFails
<1>9. CASE \E p \in Procs : SendProcessMessageLock(p) \/
        SendProcessMessageSend(p) \/ CloseLock(p) \/ CloseQuit(p) \/
        CloseConfirmed(p) \/ CloseJoin(p)
  BY Zenon, <1>9, <1>1 DEF SendProcessMessageLock, SendProcessMessageSend, CloseLock,
     CloseQuit, CloseConfirmed, CloseJoin
<1>10. CASE \E r \in Readers : ReadPacket(r) \/ ReadError(r) \/
        StoreCloseErr(r) \/ TestStartingTLS(r)
  BY Zenon, <1>10, <1>1 DEF ReadPacket, ReadError, OnlyPc, StoreCloseErr,
     TestStartingTLS
<1>11. CASE \E id \in IDs : TimerFires(id) \/ TimerStops(id) \/
        ServerEntry(id) \/ ServerResult(id)
  BY Zenon, <1>11, <1>1 DEF TimerFires, OnlyPc, TimerStops, ServerEntry, ServerSends,
     ServerResult
<1>12. CASE \E c \in Callers, k \in Kinds : Call(c, k)
  BY Zenon, <1>12, <1>1 DEF Call
<1>13. CASE \E t \in Timeouts : SetTimeout(t)
  BY Zenon, <1>13, <1>1 DEF SetTimeout
<1>14. CASE Start \/ ProcessQuit \/ ProcessRequest \/ ProcessFinish \/
        CleanupDone \/ ServerStray \/ ServerCloses
  BY Zenon, <1>14, <1>1 DEF Start, ProcessQuit, ProcessRequest, ProcessFinish,
     CleanupDone, ServerStray, ServerSends, ServerCloses
<1>15. CASE UNCHANGED vars
  BY Zenon, <1>15, <1>1 DEF vars
<1>16. QED
  BY Zenon, <1>1, <1>2, <1>3, <1>4, <1>5, <1>6, <1>7, <1>8, <1>9, <1>10, <1>11,
     <1>12, <1>13, <1>14, <1>15
  DEF Next, CallerStep, SharedStep, ProcessMessages, ReaderStep, Server

(* The server knows only requests that were written. *)
LEMMA NotAtServer ==
    ASSUME Types, NEW x \in IDs, x \notin srvPending, ~RequestTaken(x), [Next]_vars
    PROVE  x \notin srvPending'
<1> USE DEF netVars
<1>1. CASE UNCHANGED <<srvPending>>
  BY <1>1
<1>2. ASSUME NEW id \in IDs, ServerResult(id) PROVE (x \notin srvPending)'
  BY <1>2 DEF ServerResult, ServerSends
<1>3. CASE ProcessRequest
  BY <1>3 DEF ProcessRequest, RequestTaken
<1>4. CASE \E c \in Callers : NextMessageID(c) \/ EncodeError(c) \/
        SendMessage(c) \/ CountRequest(c) \/ ReceiveClosed(c) \/ Delivered(c)
        \/ Cancelled(c) \/ FinishMessage(c) \/ FinishMessageTest(c) \/
        FinishMessageCount(c) \/ SendResponse(c) \/ HandshakeSucceeds(c) \/
        HandshakeFails(c)
  BY Zenon, <1>4, <1>1 DEF NextMessageID, EncodeError, OnlyPc, SendMessage,
     CountRequest, ReceiveClosed, Delivered, Cancelled, FinishMessage,
     FinishMessageTest, FinishMessageCount, SendResponse, SendResponseReturn,
     HandshakeSucceeds, HandshakeFails
<1>5. CASE \E p \in Procs : SendProcessMessageLock(p) \/
        SendProcessMessageSend(p) \/ CloseLock(p) \/ CloseQuit(p) \/
        CloseConfirmed(p) \/ CloseJoin(p)
  BY Zenon, <1>5, <1>1 DEF SendProcessMessageLock, SendProcessMessageSend, CloseLock,
     CloseQuit, CloseConfirmed, CloseJoin
<1>6. CASE \E r \in Readers : ReadPacket(r) \/ ReadError(r) \/
        StoreCloseErr(r) \/ TestStartingTLS(r)
  BY Zenon, <1>6, <1>1 DEF ReadPacket, ReadError, OnlyPc, StoreCloseErr,
     TestStartingTLS
<1>7. CASE \E id \in IDs : TimerFires(id) \/ TimerStops(id) \/ Cleanup(id) \/
        ServerEntry(id)
  BY Zenon, <1>7, <1>1 DEF TimerFires, OnlyPc, TimerStops, Cleanup, ServerEntry
<1>8. CASE \E c \in Callers, k \in Kinds : Call(c, k)
  BY <1>8, <1>1 DEF Call
<1>9. CASE \E t \in Timeouts : SetTimeout(t)
  BY <1>9, <1>1 DEF SetTimeout
<1>10. CASE Start \/ ProcessQuit \/ ProcessRequestError \/ ProcessResponse \/
        ProcessTimeout \/ ProcessFinish \/ CleanupDone \/ SendResponseDropped
        \/ ServerStray \/ ServerCloses
  BY Zenon, <1>10, <1>1 DEF Start, ProcessQuit, ProcessRequestError, ProcessResponse,
     ProcessTimeout, ProcessFinish, CleanupDone, SendResponseDropped,
     SendResponseReturn, ServerStray, ServerCloses
<1>11. CASE UNCHANGED vars
  BY <1>11, <1>1 DEF vars
<1>12. QED
  BY <1>1, <1>2, <1>3, <1>4, <1>5, <1>6, <1>7, <1>8, <1>9, <1>10, <1>11
  DEF Next, CallerStep, SharedStep, ProcessMessages, ReaderStep, Server

(* Packets on the wire answer only requests that were written. *)
LEMMA NotOnTheWire ==
    ASSUME Types, NEW x \in IDs, \A i \in DOMAIN net : net[i].id # x,
           x \notin srvPending, [Next]_vars
    PROVE  \A i \in DOMAIN net' : net'[i].id # x
<1> USE DEF netVars
<1>a. ASSUME NEW j \in 0..MaxOps, j # x, NEW w \in {"none", "entry", "ok", "fail", "bad", "noid"},
             net' = Append(net, [id |-> j, what |-> w])
      PROVE  \A i \in DOMAIN net' : net'[i].id # x
  <2>1. net \in Seq(Packet)
    BY SMTT(20) DEF Types, QueueTypes
  <2>2. \A i \in DOMAIN net' : net'[i] = [id |-> j, what |-> w] \/ \E k \in DOMAIN net : net'[i] = net[k]
    BY <1>a, <2>1, NetAppend, PacketType
  <2>3. j # x /\ [id |-> j, what |-> w].id = j
    BY <1>a
  <2>4. QED
    BY Zenon, <2>2, <2>3
<1>1. CASE UNCHANGED <<net>>
  BY <1>1
<1>2. ASSUME NEW c \in Callers, HandshakeSucceeds(c) PROVE (\A i \in DOMAIN net : net[i].id # x)'
  <2>1. net' = <<>>
    BY <1>2 DEF HandshakeSucceeds
  <2>2. QED
    BY <2>1
<1>3. ASSUME NEW r \in Readers, ReadPacket(r) PROVE (\A i \in DOMAIN net : net[i].id # x)'
  BY <1>3, QueueTail DEF ReadPacket, Types, QueueTypes
<1>4. ASSUME NEW id \in IDs, ServerEntry(id) PROVE (\A i \in DOMAIN net : net[i].id # x)'
  <2>1. PICK w \in {"entry", "ok", "fail"} : net' = Append(net, [id |-> id, what |-> w])
    BY <1>4, ConnAssumption DEF ConnAssumption, ServerEntry, ServerSends
  <2>2. id # x /\ id \in 0..MaxOps
    BY <1>4, Distinct DEF ServerEntry
  <2>3. QED
    BY <2>1, <2>2, <1>a
<1>5. ASSUME NEW id \in IDs, ServerResult(id) PROVE (\A i \in DOMAIN net : net[i].id # x)'
  <2>1. PICK w \in {"entry", "ok", "fail"} : net' = Append(net, [id |-> id, what |-> w])
    BY <1>5, ConnAssumption DEF ConnAssumption, ServerResult, ServerSends
  <2>2. id # x /\ id \in 0..MaxOps
    BY <1>5, Distinct DEF ServerResult
  <2>3. QED
    BY <2>1, <2>2, <1>a
<1>6. CASE ServerStray
  <2>1. PICK w \in {"entry", "bad", "noid"} : net' = Append(net, [id |-> 0, what |-> w])
    BY <1>6, ConnAssumption DEF ConnAssumption, ServerStray, ServerSends
  <2>2. 0 \in 0..MaxOps /\ 0 # x
    BY ConnAssumption DEF ConnAssumption, IDs
  <2>3. QED
    BY <2>1, <2>2, <1>a
<1>7. CASE \E c \in Callers : NextMessageID(c) \/ EncodeError(c) \/
        SendMessage(c) \/ CountRequest(c) \/ ReceiveClosed(c) \/ Delivered(c)
        \/ Cancelled(c) \/ FinishMessage(c) \/ FinishMessageTest(c) \/
        FinishMessageCount(c) \/ SendResponse(c) \/ HandshakeFails(c)
  BY Zenon, <1>7, <1>1 DEF NextMessageID, EncodeError, OnlyPc, SendMessage,
     CountRequest, ReceiveClosed, Delivered, Cancelled, FinishMessage,
     FinishMessageTest, FinishMessageCount, SendResponse, SendResponseReturn,
     HandshakeFails
<1>8. CASE \E p \in Procs : SendProcessMessageLock(p) \/
        SendProcessMessageSend(p) \/ CloseLock(p) \/ CloseQuit(p) \/
        CloseConfirmed(p) \/ CloseJoin(p)
  BY Zenon, <1>8, <1>1 DEF SendProcessMessageLock, SendProcessMessageSend, CloseLock,
     CloseQuit, CloseConfirmed, CloseJoin
<1>9. CASE \E r \in Readers : ReadError(r) \/ StoreCloseErr(r) \/
        TestStartingTLS(r)
  BY Zenon, <1>9, <1>1 DEF ReadError, OnlyPc, StoreCloseErr, TestStartingTLS
<1>10. CASE \E id \in IDs : TimerFires(id) \/ TimerStops(id) \/ Cleanup(id)
  BY Zenon, <1>10, <1>1 DEF TimerFires, OnlyPc, TimerStops, Cleanup
<1>11. CASE \E c \in Callers, k \in Kinds : Call(c, k)
  BY <1>11, <1>1 DEF Call
<1>12. CASE \E t \in Timeouts : SetTimeout(t)
  BY <1>12, <1>1 DEF SetTimeout
<1>13. CASE Start \/ ProcessQuit \/ ProcessRequest \/ ProcessRequestError \/
        ProcessResponse \/ ProcessTimeout \/ ProcessFinish \/ CleanupDone \/
        SendResponseDropped \/ ServerCloses
  BY Zenon, <1>13, <1>1 DEF Start, ProcessQuit, ProcessRequest, ProcessRequestError,
     ProcessResponse, ProcessTimeout, ProcessFinish, CleanupDone,
     SendResponseDropped, SendResponseReturn, ServerCloses
<1>14. CASE UNCHANGED vars
  BY <1>14, <1>1 DEF vars
<1>15. QED
  BY <1>1, <1>2, <1>3, <1>4, <1>5, <1>6, <1>7, <1>8, <1>9, <1>10, <1>11,
     <1>12, <1>13, <1>14
  DEF Next, CallerStep, SharedStep, ProcessMessages, ReaderStep, Server

(* A reader holds only answers to requests that were written. *)
LEMMA NotRead ==
    ASSUME Types, NEW x \in IDs, \A i \in DOMAIN net : net[i].id # x,
           \A r \in Readers : packet[r].id # x, [Next]_vars
    PROVE  \A r \in Readers : packet'[r].id # x
<1> USE DEF readVars
<1>1. CASE UNCHANGED <<packet>>
  BY <1>1
<1>2. ASSUME NEW r \in Readers, ReadPacket(r) PROVE (\A q \in Readers : packet[q].id # x)'
  <2>1. packet' = packet \/ packet' = [packet EXCEPT ![r] = Head(net)]
    BY <1>2 DEF ReadPacket
  <2>2. Head(net).id # x
    BY <1>2, QueueTail DEF ReadPacket, Types, QueueTypes
  <2>3. QED
    BY <2>1, <2>2 DEF Types, QueueTypes
<1>3. CASE \E c \in Callers : NextMessageID(c) \/ EncodeError(c) \/
        SendMessage(c) \/ CountRequest(c) \/ ReceiveClosed(c) \/ Delivered(c)
        \/ Cancelled(c) \/ FinishMessage(c) \/ FinishMessageTest(c) \/
        FinishMessageCount(c) \/ SendResponse(c) \/ HandshakeSucceeds(c) \/
        HandshakeFails(c)
  BY Zenon, <1>3, <1>1 DEF NextMessageID, EncodeError, OnlyPc, SendMessage,
     CountRequest, ReceiveClosed, Delivered, Cancelled, FinishMessage,
     FinishMessageTest, FinishMessageCount, SendResponse, SendResponseReturn,
     HandshakeSucceeds, HandshakeFails
<1>4. CASE \E p \in Procs : SendProcessMessageLock(p) \/
        SendProcessMessageSend(p) \/ CloseLock(p) \/ CloseQuit(p) \/
        CloseConfirmed(p) \/ CloseJoin(p)
  BY Zenon, <1>4, <1>1 DEF SendProcessMessageLock, SendProcessMessageSend, CloseLock,
     CloseQuit, CloseConfirmed, CloseJoin
<1>5. CASE \E r \in Readers : ReadError(r) \/ StoreCloseErr(r) \/
        TestStartingTLS(r)
  BY Zenon, <1>5, <1>1 DEF ReadError, OnlyPc, StoreCloseErr, TestStartingTLS
<1>6. CASE \E id \in IDs : TimerFires(id) \/ TimerStops(id) \/ Cleanup(id) \/
        ServerEntry(id) \/ ServerResult(id)
  BY Zenon, <1>6, <1>1 DEF TimerFires, OnlyPc, TimerStops, Cleanup, ServerEntry,
     ServerSends, ServerResult
<1>7. CASE \E c \in Callers, k \in Kinds : Call(c, k)
  BY Zenon, <1>7, <1>1 DEF Call
<1>8. CASE \E t \in Timeouts : SetTimeout(t)
  BY Zenon, <1>8, <1>1 DEF SetTimeout
<1>9. CASE Start \/ ProcessQuit \/ ProcessRequest \/ ProcessRequestError \/
        ProcessResponse \/ ProcessTimeout \/ ProcessFinish \/ CleanupDone \/
        SendResponseDropped \/ ServerStray \/ ServerCloses
  BY Zenon, <1>9, <1>1 DEF Start, ProcessQuit, ProcessRequest, ProcessRequestError,
     ProcessResponse, ProcessTimeout, ProcessFinish, CleanupDone,
     SendResponseDropped, SendResponseReturn, ServerStray, ServerSends,
     ServerCloses
<1>10. CASE UNCHANGED vars
  BY <1>10, <1>1 DEF vars
<1>11. QED
  BY Zenon, <1>1, <1>2, <1>3, <1>4, <1>5, <1>6, <1>7, <1>8, <1>9, <1>10
  DEF Next, CallerStep, SharedStep, ProcessMessages, ReaderStep, Server

(* A message enters the queue at its end, from the goroutine in the critical
   section of sendProcessMessage or of Close, and leaves it at its head. *)
QueueMove ==
    \/ UNCHANGED chanMessage
    \/ \E op : Receive(op)
    \/ \E p \in Procs : SendProcessMessageSend(p)
    \/ \E p \in Procs : CloseQuit(p)

(* What a step may add to chanMessage. *)
LEMMA QueueStep ==
    ASSUME [Next]_vars
    PROVE  QueueMove
<1> USE DEF chanVars, QueueMove
<1>1. CASE UNCHANGED <<chanMessage>>
  BY <1>1
<1>2. ASSUME NEW p \in Procs, SendProcessMessageSend(p) PROVE QueueMove
  BY <1>2
<1>3. ASSUME NEW p \in Procs, CloseQuit(p) PROVE QueueMove
  BY <1>3
<1>4. CASE ProcessQuit
  BY <1>4 DEF ProcessQuit, Receive
<1>5. CASE ProcessRequest
  BY <1>5 DEF ProcessRequest, Receive
<1>6. CASE ProcessRequestError
  BY Zenon, <1>6 DEF ProcessRequestError, Receive, Respond
<1>7. CASE ProcessResponse
  BY Zenon, <1>7 DEF ProcessResponse, Receive, Respond
<1>8. CASE ProcessTimeout
  BY SMTT(20), <1>8 DEF ProcessTimeout, Receive, Respond
<1>9. CASE ProcessFinish
  BY Zenon, <1>9 DEF ProcessFinish, Receive, CloseResponses
<1>10. CASE \E c \in Callers : NextMessageID(c) \/ EncodeError(c) \/
        SendMessage(c) \/ CountRequest(c) \/ ReceiveClosed(c) \/ Delivered(c)
        \/ Cancelled(c) \/ FinishMessage(c) \/ FinishMessageTest(c) \/
        FinishMessageCount(c) \/ SendResponse(c) \/ HandshakeSucceeds(c) \/
        HandshakeFails(c)
  BY Zenon, <1>10, <1>1 DEF NextMessageID, EncodeError, OnlyPc, SendMessage,
     CountRequest, ReceiveClosed, Delivered, Cancelled, FinishMessage,
     FinishMessageTest, FinishMessageCount, SendResponse, SendResponseReturn,
     HandshakeSucceeds, HandshakeFails
<1>11. CASE \E p \in Procs : SendProcessMessageLock(p) \/ CloseLock(p) \/
        CloseConfirmed(p) \/ CloseJoin(p)
  BY Zenon, <1>11, <1>1 DEF SendProcessMessageLock, CloseLock, CloseConfirmed,
     CloseJoin
<1>12. CASE \E r \in Readers : ReadPacket(r) \/ ReadError(r) \/
        StoreCloseErr(r) \/ TestStartingTLS(r)
  BY Zenon, <1>12, <1>1 DEF ReadPacket, ReadError, OnlyPc, StoreCloseErr,
     TestStartingTLS
<1>13. CASE \E id \in IDs : TimerFires(id) \/ TimerStops(id) \/ Cleanup(id) \/
        ServerEntry(id) \/ ServerResult(id)
  BY Zenon, <1>13, <1>1 DEF TimerFires, OnlyPc, TimerStops, Cleanup, ServerEntry,
     ServerSends, ServerResult
<1>14. CASE \E c \in Callers, k \in Kinds : Call(c, k)
  BY <1>14, <1>1 DEF Call
<1>15. CASE \E t \in Timeouts : SetTimeout(t)
  BY <1>15, <1>1 DEF SetTimeout
<1>16. CASE Start \/ CleanupDone \/ SendResponseDropped \/ ServerStray \/
        ServerCloses
  BY Zenon, <1>16, <1>1 DEF Start, CleanupDone, SendResponseDropped,
     SendResponseReturn, ServerStray, ServerSends, ServerCloses
<1>17. CASE UNCHANGED vars
  BY SMTT(20), <1>17, <1>1 DEF vars
<1>18. QED
  BY <1>1, <1>2, <1>3, <1>4, <1>5, <1>6, <1>7, <1>8, <1>9, <1>10, <1>11,
     <1>12, <1>13, <1>14, <1>15, <1>16, <1>17
  DEF Next, CallerStep, SharedStep, ProcessMessages, ReaderStep, Server

(* No response or timeout is queued for a request that was not written. *)
LEMMA NotAnswered ==
    ASSUME Types, NEW x \in IDs, Unwritten(x), [Next]_vars
    PROVE  \A i \in DOMAIN chanMessage' :
              chanMessage'[i].op \in {"response", "timeout"} => chanMessage'[i].id # x
<1> USE DEF Unwritten
<1>t. chanMessage \in Seq(Message)
  BY Zenon DEF Types, QueueTypes
<1>1. CASE UNCHANGED chanMessage
  BY <1>1
<1>2. ASSUME NEW op, Receive(op)
      PROVE  \A i \in DOMAIN chanMessage' :
                chanMessage'[i].op \in {"response", "timeout"} => chanMessage'[i].id # x
  BY <1>2, <1>t, QueueTail DEF Receive
<1>3. ASSUME NEW p \in Procs, SendProcessMessageSend(p)
      PROVE  \A i \in DOMAIN chanMessage' :
                chanMessage'[i].op \in {"response", "timeout"} => chanMessage'[i].id # x
  <2>1. MessageOf(p).op \in {"response", "timeout"} => MessageOf(p).id # x
    BY <1>3, Distinct DEF MessageOf, Procs, SendProcessMessageSend
  <2>2. QED
    BY <1>3, <2>1, SendAppends
<1>4. ASSUME NEW p \in Procs, CloseQuit(p)
      PROVE  \A i \in DOMAIN chanMessage' :
                chanMessage'[i].op \in {"response", "timeout"} => chanMessage'[i].id # x
  <2>1. QuitMessage.op = "quit"
    BY DEF QuitMessage
  <2>2. QED
    BY <1>4, <2>1, QuitAppends
<1>5. QED
  BY Zenon, <1>1, <1>2, <1>3, <1>4, QueueStep DEF QueueMove

(* A step that does not write a request leaves it unwritten. *)
LEMMA UnwrittenNext ==
    ASSUME Types, NEW x \in IDs, Unwritten(x), ~RequestTaken(x), [Next]_vars
    PROVE  Unwritten(x)'
<1>1. pc'[x] = "off"
  BY TimerOff DEF Unwritten
<1>2. x \notin messageContexts' /\ x \notin respClosed'
  BY Unregistered DEF Unwritten
<1>3. x \notin srvPending'
  BY NotAtServer DEF Unwritten
<1>4. \A i \in DOMAIN net' : net'[i].id # x
  BY NotOnTheWire DEF Unwritten
<1>5. \A r \in Readers : packet'[r].id # x
  BY NotRead DEF Unwritten
<1>6. out'.id # x
  BY NotBeingSent
<1>7. \A i \in DOMAIN chanMessage' :
         chanMessage'[i].op \in {"response", "timeout"} => chanMessage'[i].id # x
  BY NotAnswered
<1>8. QED
  BY <1>1, <1>2, <1>3, <1>4, <1>5, <1>6, <1>7 DEF Unwritten

(* Only finishMessage closes a done channel, that of its own message. *)
LEMMA DoneStep ==
    ASSUME [Next]_vars
    PROVE  UNCHANGED done \/ \E c \in Callers : FinishMessage(c) /\ done' = done \cup {cid[c]}
<1> DEFINE DoneMove == UNCHANGED done \/ \E c \in Callers : FinishMessage(c) /\ done' = done \cup {cid[c]}
<1> SUFFICES DoneMove
  OBVIOUS
<1> USE DEF ctxVars
<1>1. CASE UNCHANGED <<done>>
  BY <1>1
<1>2. ASSUME NEW c \in Callers, FinishMessage(c) PROVE DoneMove
  BY Zenon, <1>2 DEF FinishMessage
<1>3. CASE \E c \in Callers : NextMessageID(c) \/ EncodeError(c) \/
        SendMessage(c) \/ CountRequest(c) \/ ReceiveClosed(c) \/ Delivered(c)
        \/ Cancelled(c) \/ FinishMessageTest(c) \/ FinishMessageCount(c) \/
        SendResponse(c) \/ HandshakeSucceeds(c) \/ HandshakeFails(c)
  BY Zenon, <1>3, <1>1 DEF NextMessageID, EncodeError, OnlyPc, SendMessage,
     CountRequest, ReceiveClosed, Delivered, Cancelled, FinishMessageTest,
     FinishMessageCount, SendResponse, SendResponseReturn, HandshakeSucceeds,
     HandshakeFails
<1>4. CASE \E p \in Procs : SendProcessMessageLock(p) \/
        SendProcessMessageSend(p) \/ CloseLock(p) \/ CloseQuit(p) \/
        CloseConfirmed(p) \/ CloseJoin(p)
  BY Zenon, <1>4, <1>1 DEF SendProcessMessageLock, SendProcessMessageSend, CloseLock,
     CloseQuit, CloseConfirmed, CloseJoin
<1>5. CASE \E r \in Readers : ReadPacket(r) \/ ReadError(r) \/
        StoreCloseErr(r) \/ TestStartingTLS(r)
  BY Zenon, <1>5, <1>1 DEF ReadPacket, ReadError, OnlyPc, StoreCloseErr,
     TestStartingTLS
<1>6. CASE \E id \in IDs : TimerFires(id) \/ TimerStops(id) \/ Cleanup(id) \/
        ServerEntry(id) \/ ServerResult(id)
  BY Zenon, <1>6, <1>1 DEF TimerFires, OnlyPc, TimerStops, Cleanup, ServerEntry,
     ServerSends, ServerResult
<1>7. CASE \E c \in Callers, k \in Kinds : Call(c, k)
  BY Zenon, <1>7, <1>1 DEF Call
<1>8. CASE \E t \in Timeouts : SetTimeout(t)
  BY <1>8, <1>1 DEF SetTimeout
<1>9. CASE Start \/ ProcessQuit \/ ProcessRequest \/ ProcessRequestError \/
        ProcessResponse \/ ProcessTimeout \/ ProcessFinish \/ CleanupDone \/
        SendResponseDropped \/ ServerStray \/ ServerCloses
  BY Zenon, <1>9, <1>1 DEF Start, ProcessQuit, ProcessRequest, ProcessRequestError,
     ProcessResponse, ProcessTimeout, ProcessFinish, CleanupDone,
     SendResponseDropped, SendResponseReturn, ServerStray, ServerSends,
     ServerCloses
<1>10. CASE UNCHANGED vars
  BY <1>10, <1>1 DEF vars
<1>11. QED
  BY <1>1, <1>2, <1>3, <1>4, <1>5, <1>6, <1>7, <1>8, <1>9, <1>10
  DEF Next, CallerStep, SharedStep, ProcessMessages, ReaderStep, Server

(* An id that is not in use stays so unless a caller is handed it. *)
LEMMA AbsentNext ==
    ASSUME Types, NEW x \in IDs, Absent(x), [Next]_vars,
           \A c \in Callers : cid[c] = x => ~FinishMessage(c) /\ ~SendProcessMessageSend(c)
    PROVE  Absent(x)'
<1> USE DEF Absent
<1>t. chanMessage \in Seq(Message)
  BY Zenon DEF Types, QueueTypes
<1>1. Unwritten(x)'
  <2>1. ~RequestTaken(x)
    BY Zenon, <1>t, QueueTail DEF RequestTaken, Receive
  <2>2. QED
    BY Zenon, <2>1, UnwrittenNext
<1>2. x \notin done'
  BY DoneStep
<1>3. \A i \in DOMAIN chanMessage' : chanMessage'[i].id # x
  <2>1. CASE UNCHANGED chanMessage
    BY <2>1
  <2>2. ASSUME NEW op, Receive(op)
        PROVE  \A i \in DOMAIN chanMessage' : chanMessage'[i].id # x
    BY <2>2, <1>t, QueueTail DEF Receive
  <2>3. ASSUME NEW p \in Procs, SendProcessMessageSend(p)
        PROVE  \A i \in DOMAIN chanMessage' : chanMessage'[i].id # x
    <3>1. MessageOf(p).id # x
      BY Zenon, <2>3, Distinct DEF MessageOf, Procs, Unwritten, SendProcessMessageSend
    <3>2. QED
      BY <2>3, <3>1, SendAppends
  <2>4. ASSUME NEW p \in Procs, CloseQuit(p)
        PROVE  \A i \in DOMAIN chanMessage' : chanMessage'[i].id # x
    <3>1. QuitMessage.id # x
      <4>1. QuitMessage.id = 0
        BY Zenon DEF QuitMessage
      <4>2. QED
        BY Zenon, <4>1, IdNonZero
    <3>2. QED
      BY Zenon, <2>4, <3>1, QuitAppends
  <2>5. QED
    BY <2>1, <2>2, <2>3, <2>4, QueueStep DEF QueueMove
<1>4. QED
  BY Zenon, <1>1, <1>2, <1>3

-----------------------------------------------------------------------------
(* IdInv is inductive. *)

(* Only nextMessageID changes the id of a caller. *)
LEMMA IdStep ==
    ASSUME [Next]_vars
    PROVE  UNCHANGED <<cid, messageID>> \/ \E c \in Callers : NextMessageID(c)
<1> DEFINE IdMove == UNCHANGED <<cid, messageID>> \/ \E c \in Callers : NextMessageID(c)
<1> SUFFICES IdMove
  OBVIOUS
<1> USE DEF ctxVars, callVars
<1>1. CASE UNCHANGED <<cid, messageID>>
  BY <1>1
<1>2. ASSUME NEW c \in Callers, NextMessageID(c) PROVE IdMove
  BY <1>2
<1>3. CASE \E c \in Callers : EncodeError(c) \/ SendMessage(c) \/
        CountRequest(c) \/ ReceiveClosed(c) \/ Delivered(c) \/ Cancelled(c) \/
        FinishMessage(c) \/ FinishMessageTest(c) \/ FinishMessageCount(c) \/
        SendResponse(c) \/ HandshakeSucceeds(c) \/ HandshakeFails(c)
  BY Zenon, <1>3, <1>1 DEF EncodeError, OnlyPc, SendMessage, CountRequest,
     ReceiveClosed, Delivered, Cancelled, FinishMessage, FinishMessageTest,
     FinishMessageCount, SendResponse, SendResponseReturn, HandshakeSucceeds,
     HandshakeFails
<1>4. CASE \E p \in Procs : SendProcessMessageLock(p) \/
        SendProcessMessageSend(p) \/ CloseLock(p) \/ CloseQuit(p) \/
        CloseConfirmed(p) \/ CloseJoin(p)
  BY Zenon, <1>4, <1>1 DEF SendProcessMessageLock, SendProcessMessageSend, CloseLock,
     CloseQuit, CloseConfirmed, CloseJoin
<1>5. CASE \E r \in Readers : ReadPacket(r) \/ ReadError(r) \/
        StoreCloseErr(r) \/ TestStartingTLS(r)
  BY Zenon, <1>5, <1>1 DEF ReadPacket, ReadError, OnlyPc, StoreCloseErr,
     TestStartingTLS
<1>6. CASE \E id \in IDs : TimerFires(id) \/ TimerStops(id) \/ Cleanup(id) \/
        ServerEntry(id) \/ ServerResult(id)
  BY Zenon, <1>6, <1>1 DEF TimerFires, OnlyPc, TimerStops, Cleanup, ServerEntry,
     ServerSends, ServerResult
<1>7. CASE \E c \in Callers, k \in Kinds : Call(c, k)
  BY <1>7, <1>1 DEF Call
<1>8. CASE \E t \in Timeouts : SetTimeout(t)
  BY <1>8, <1>1 DEF SetTimeout
<1>9. CASE Start \/ ProcessQuit \/ ProcessRequest \/ ProcessRequestError \/
        ProcessResponse \/ ProcessTimeout \/ ProcessFinish \/ CleanupDone \/
        SendResponseDropped \/ ServerStray \/ ServerCloses
  BY Zenon, <1>9, <1>1 DEF Start, ProcessQuit, ProcessRequest, ProcessRequestError,
     ProcessResponse, ProcessTimeout, ProcessFinish, CleanupDone,
     SendResponseDropped, SendResponseReturn, ServerStray, ServerSends,
     ServerCloses
<1>10. CASE UNCHANGED vars
  BY <1>10, <1>1 DEF vars
<1>11. QED
  BY <1>1, <1>2, <1>3, <1>4, <1>5, <1>6, <1>7, <1>8, <1>9, <1>10
  DEF Next, CallerStep, SharedStep, ProcessMessages, ReaderStep, Server

(* Nobody moves a caller but itself. *)
LEMMA PcStep ==
    ASSUME Types, NEW x \in Callers, [Next]_vars
    PROVE  pc'[x] = pc[x] \/ CallerStep(x) \/ SharedStep(x)
<1> DEFINE Move == pc'[x] = pc[x] \/ CallerStep(x) \/ SharedStep(x)
<1> SUFFICES Move
  OBVIOUS
<1> USE Distinct DEF Types, CallTypes, Goto, Procs
<1> HIDE DEF Move
<1>u. ASSUME pc'[x] = pc[x] PROVE Move
  BY Zenon, <1>u DEF Move
<1>c. ASSUME NEW c \in Callers, CallerStep(c) PROVE Move
  <2>1. CASE c = x
    BY <2>1, <1>c DEF Move
  <2>2. CASE c # x
    <3> USE <2>2
    <3>1. CASE \E k \in Kinds : Call(c, k)
      BY <3>1, <1>u DEF Call
    <3>2. CASE NextMessageID(c) \/ EncodeError(c) \/ SendMessage(c) \/ CountRequest(c)
      BY <3>2, <1>u DEF NextMessageID, EncodeError, SendMessage, CountRequest
    <3>3. CASE ReceiveClosed(c) \/ Delivered(c) \/ Cancelled(c) \/ SendResponse(c)
      BY <3>3, <1>u DEF ReceiveClosed, Delivered, Cancelled, SendResponse
    <3>4. CASE FinishMessage(c) \/ FinishMessageTest(c) \/ FinishMessageCount(c)
      BY Zenon, <3>4, <1>u DEF FinishMessage, FinishMessageTest, FinishMessageCount
    <3>5. CASE HandshakeSucceeds(c) \/ HandshakeFails(c)
      BY Zenon, <3>5, <1>u DEF HandshakeSucceeds, HandshakeFails
    <3>6. QED
      BY Zenon, <1>c, <3>1, <3>2, <3>3, <3>4, <3>5 DEF CallerStep
  <2>3. QED
    BY Zenon, <2>1, <2>2
<1>s. ASSUME NEW p \in Procs, SharedStep(p) PROVE Move
  <2>1. CASE p = x
    BY <2>1, <1>s DEF Move
  <2>2. CASE p # x
    BY Zenon, <2>2, <1>s, <1>u DEF SharedStep, SendProcessMessageLock,
       SendProcessMessageSend, CloseLock, CloseQuit, CloseConfirmed, CloseJoin
  <2>3. QED
    BY Zenon, <2>1, <2>2
<1>t. CASE \E id \in IDs : TimerFires(id) \/ TimerStops(id)
  BY <1>t, <1>u DEF TimerFires, TimerStops
<1>r. ASSUME NEW r \in Readers, ReaderStep(r) PROVE Move
  <2>1. pc' = pc \/ \E l : pc' = [pc EXCEPT ![r] = l]
    BY Zenon, <1>r DEF ReaderStep, ReadPacket, ReadError, StoreCloseErr, TestStartingTLS
  <2>2. QED
    BY <2>1, <1>u
<1>m. CASE ProcessMessages
  <2>1. CASE ProcessRequest
    <3>1. Head(chanMessage).id \in 0..MaxOps
      BY Zenon, <2>1, ReceiveType DEF ProcessRequest
    <3>2. QED
      BY Zenon, <2>1, <3>1, <1>u, ConnAssumption DEF ConnAssumption, ProcessRequest
  <2>2. QED
    BY Zenon, <2>1, <1>m, <1>u DEF ProcessMessages, ProcessQuit, ProcessRequestError,
       ProcessResponse, ProcessTimeout, ProcessFinish, Cleanup, CleanupDone,
       SendResponseDropped
<1>v. CASE Start \/ (\E t \in Timeouts : SetTimeout(t)) \/ Server \/ UNCHANGED vars
  BY Zenon, <1>v, <1>u DEF Start, SetTimeout, Server, ServerEntry, ServerResult, ServerStray,
     ServerCloses, ServerSends, vars
<1>q. QED
  BY Zenon, <1>c, <1>s, <1>t, <1>r, <1>m, <1>v DEF Next

(* A caller whose request is unsent after a step had it unsent before, unless
   the step gave it its id. *)
LEMMA NotSentStep ==
    ASSUME Types, IdOwned, NEW x \in Callers, NotSent(x)', [Next]_vars, ~NextMessageID(x)
    PROVE  NotSent(x) /\ ~FinishMessage(x) /\ ~SendProcessMessageSend(x) /\ cid'[x] = cid[x]
<1>t. /\ pc \in [Procs -> CallerLocs \cup ReaderLocs \cup TimerLocs] /\ x \in Procs
      /\ cid \in [Callers -> 0..MaxOps] /\ x \notin Readers /\ x \notin IDs
  BY Zenon, Distinct DEF Types, CallTypes, Procs
<1>f. ~FinishMessage(x)
  BY Zenon, <1>t DEF FinishMessage, NotSent, Goto
<1>s. ~SendProcessMessageSend(x)
  BY Zenon, <1>t DEF SendProcessMessageSend, NotSent, Goto, AfterSend, AfterFinish,
     callVars, ctxVars
<1>d. cid'[x] = cid[x] /\ done \subseteq done'
  BY IdStep, DoneStep, <1>t DEF NextMessageID, Goto
<1>p. NotSent(x)
  <2>1. CASE pc'[x] = pc[x]
    BY <2>1, <1>d DEF NotSent
  <2>2. CASE CallerStep(x)
    <3> USE <1>t, <1>d DEF NotSent, Goto
    <3>1. CASE \E k \in Kinds : Call(x, k)
      BY <3>1 DEF Call
    <3>2. CASE EncodeError(x) \/ SendMessage(x) \/ CountRequest(x)
      BY Zenon, <3>2 DEF EncodeError, SendMessage, CountRequest
    <3>3. CASE ReceiveClosed(x) \/ Delivered(x) \/ Cancelled(x)
      BY Zenon, <3>3 DEF ReceiveClosed, Delivered, Cancelled
    <3>4. CASE SendResponse(x)
      BY <3>4 DEF SendResponse, AfterReceive
    <3>5. CASE FinishMessageTest(x) \/ FinishMessageCount(x)
      BY Zenon, <3>5 DEF FinishMessageTest, FinishMessageCount, AfterFinish, IdOwned
    <3>6. CASE HandshakeSucceeds(x) \/ HandshakeFails(x)
      BY <3>6 DEF HandshakeSucceeds, HandshakeFails
    <3>7. QED
      BY Zenon, <2>2, <1>f, <3>1, <3>2, <3>3, <3>4, <3>5, <3>6 DEF CallerStep
  <2>3. CASE SharedStep(x)
    <3> USE <1>t, <1>d DEF NotSent, Goto
    <3>1. CASE SendProcessMessageLock(x)
      BY Zenon, <3>1 DEF SendProcessMessageLock, AfterSend, AfterFinish
    <3>2. CASE CloseLock(x) \/ CloseQuit(x) \/ CloseConfirmed(x) \/ CloseJoin(x)
      BY Zenon, <3>2 DEF CloseLock, CloseQuit, CloseConfirmed, CloseJoin, AfterClose
    <3>3. QED
      BY Zenon, <2>3, <1>s, <3>1, <3>2 DEF SharedStep
  <2>4. QED
    BY Zenon, <2>1, <2>2, <2>3, PcStep
<1>q. QED
  BY <1>f, <1>s, <1>d, <1>p

(* Every step keeps the ids of the callers distinct. *)
LEMMA IdOwnedNext == Types /\ IdOwned /\ [Next]_vars => IdOwned'
<1> SUFFICES ASSUME Types, IdOwned, [Next]_vars PROVE IdOwned'
  OBVIOUS
<1>t. /\ cid \in [Callers -> 0..MaxOps] /\ messageID \in Int
      /\ pc \in [Procs -> CallerLocs \cup ReaderLocs \cup TimerLocs]
      /\ Callers \subseteq Procs
  BY DEF Types, CallTypes, CountTypes, Procs
<1>1. /\ \A c, d \in Callers : cid'[c] = cid'[d] /\ cid'[c] # 0 => c = d
      /\ \A c \in Callers : cid'[c] < messageID'
  <2>1. CASE UNCHANGED <<cid, messageID>>
    BY <2>1 DEF IdOwned
  <2>2. ASSUME NEW c \in Callers, NextMessageID(c)
        PROVE  /\ \A b, d \in Callers : cid'[b] = cid'[d] /\ cid'[b] # 0 => b = d
               /\ \A d \in Callers : cid'[d] < messageID'
    <3>1. CASE /\ cid' = [cid EXCEPT ![c] = messageID]
               /\ messageID' = messageID + 1
      BY <3>1, <1>t DEF IdOwned
    <3>2. CASE cid' = [cid EXCEPT ![c] = 0] /\ UNCHANGED messageID
      BY <3>2, <1>t DEF IdOwned, Types, CountTypes
    <3>3. QED
      BY Zenon, <2>2, <3>1, <3>2 DEF NextMessageID
  <2>3. QED
    BY <2>1, <2>2, IdStep
<1>2. ASSUME NEW c \in Callers, pc'[c] \in {"finish.test", "finish.count"}
      PROVE  cid'[c] \in done'
  <2>1. ~NextMessageID(c)
    BY <1>2, <1>t DEF NextMessageID, Goto
  <2>2. cid'[c] = cid[c] /\ done \subseteq done'
    BY <2>1, <1>t, IdStep, DoneStep DEF NextMessageID
  <2>3. CASE pc'[c] = pc[c]
    BY <2>2, <2>3, <1>2 DEF IdOwned
  <2>4. CASE FinishMessage(c)
    BY <2>2, <2>4 DEF FinishMessage
  <2>5. CASE FinishMessageTest(c)
    BY <2>2, <2>5 DEF FinishMessageTest, IdOwned
  <2>6. CASE CallerStep(c) /\ ~FinishMessage(c) /\ ~FinishMessageTest(c)
    <3> USE <1>2, <1>t DEF Goto
    <3>1. CASE \E k \in Kinds : Call(c, k)
      BY <3>1 DEF Call
    <3>2. CASE EncodeError(c) \/ SendMessage(c) \/ CountRequest(c)
      BY <3>2 DEF EncodeError, SendMessage, CountRequest
    <3>3. CASE ReceiveClosed(c) \/ Delivered(c) \/ Cancelled(c)
      BY <3>3 DEF ReceiveClosed, Delivered, Cancelled
    <3>4. CASE SendResponse(c)
      BY <3>4 DEF SendResponse, AfterReceive
    <3>5. CASE FinishMessageCount(c)
      BY <3>5 DEF FinishMessageCount
    <3>6. CASE HandshakeSucceeds(c) \/ HandshakeFails(c)
      BY <3>6, Distinct DEF HandshakeSucceeds, HandshakeFails
    <3>7. QED
      BY Zenon, <2>6, <2>1, <3>1, <3>2, <3>3, <3>4, <3>5, <3>6 DEF CallerStep
  <2>7. CASE SharedStep(c)
    BY Zenon, <2>7, <1>2, <1>t, Distinct DEF SharedStep, SendProcessMessageLock,
       SendProcessMessageSend, CloseLock, CloseQuit, CloseConfirmed, CloseJoin,
       AfterSend, AfterFinish, AfterClose, Goto
  <2>8. QED
    BY <2>3, <2>4, <2>5, <2>6, <2>7, PcStep
<1>3. QED
  BY <1>1, <1>2 DEF IdOwned

(* Every step keeps an id fresh until its request is sent. *)
LEMMA IdFreshNext == Types /\ IdOwned /\ IdFresh /\ [Next]_vars => IdFresh'
<1> SUFFICES ASSUME Types, IdOwned, IdFresh, [Next]_vars PROVE IdFresh'
  OBVIOUS
<1>t. /\ cid \in [Callers -> 0..MaxOps] /\ messageID \in Int /\ IDs = 1..MaxOps
      /\ \A id \in IDs : id \in Int
      /\ \A c \in Callers : cid[c] \in Int /\ (cid[c] # 0 => cid[c] \in IDs)
  BY ConnAssumption DEF ConnAssumption, Types, CallTypes, CountTypes, IDs
<1>1. ASSUME NEW x \in IDs, x >= messageID PROVE Absent(x)'
  <2>1. \A c \in Callers : cid[c] # x
    BY <1>1, <1>t DEF IdOwned
  <2>2. QED
    BY <1>1, <2>1, AbsentNext DEF IdFresh
<1>2. ASSUME NEW x \in IDs, x >= messageID' PROVE Absent(x)'
  <2>1. x >= messageID
    BY <1>2, <1>t, IdStep DEF NextMessageID
  <2>2. QED
    BY <2>1, <1>1
<1>3. ASSUME NEW c \in Callers, NotSent(c)', NEW x \in IDs, cid'[c] = x
      PROVE  Absent(x)'
  <2>1. CASE NextMessageID(c)
    <3>1. x = messageID
      BY <2>1, <1>3, <1>t DEF NextMessageID
    <3>2. QED
      BY <3>1, <1>1, <1>t
  <2>2. CASE ~NextMessageID(c)
    <3>1. /\ NotSent(c) /\ cid[c] = x
          /\ ~FinishMessage(c) /\ ~SendProcessMessageSend(c)
      BY <2>2, <1>3, NotSentStep
    <3>2. Absent(x)
      BY <3>1 DEF IdFresh
    <3>3. \A d \in Callers : cid[d] = x => d = c
      BY SMTT(20), <3>1, <1>t DEF IdOwned
    <3>4. QED
      BY <3>1, <3>2, <3>3, AbsentNext
  <2>3. QED
    BY <2>1, <2>2
<1>4. QED
  BY <1>2, <1>3 DEF IdFresh

(* Every step keeps a queued request the only trace of its id. *)
LEMMA IdQueuedNext == Types /\ IdOwned /\ IdFresh /\ IdQueued /\ [Next]_vars => IdQueued'
<1> SUFFICES ASSUME Types, IdOwned, IdFresh, IdQueued, [Next]_vars PROVE IdQueued'
  OBVIOUS
<1> DEFINE Request(q, i, x) == i \in DOMAIN q /\ q[i].op = "request" /\ q[i].id = x
<1>t. chanMessage \in Seq(Message) /\ chanMessage' \in Seq(Message)
  BY QueueTypesNext DEF Types, QueueTypes
<1>s. SUFFICES ASSUME NEW x \in IDs
               PROVE  /\ \A i : Request(chanMessage', i, x) => Unwritten(x)'
                      /\ \A i, j : Request(chanMessage', i, x) /\ Request(chanMessage', j, x)
                                      => i = j
  <2>1. \A i \in DOMAIN chanMessage' : chanMessage'[i].id # 0 => chanMessage'[i].id \in IDs
    <3>1. \A i \in DOMAIN chanMessage' : chanMessage'[i] \in Message
      BY <1>t
    <3>2. \A m \in Message : m.id # 0 => m.id \in IDs
      BY ConnAssumption DEF ConnAssumption, Message, IDs
    <3>3. QED
      BY <3>1, <3>2
  <2>2. QED
    BY <1>s, <2>1 DEF IdQueued
<1>q. /\ \A i : Request(chanMessage, i, x) => Unwritten(x)
      /\ \A i, j : Request(chanMessage, i, x) /\ Request(chanMessage, j, x) => i = j
  BY IdNonZero DEF IdQueued
<1>1. CASE UNCHANGED chanMessage
  <2>1. ~RequestTaken(x)
    BY <1>1, <1>t, HeadTail DEF RequestTaken, Receive
  <2>2. QED
    BY Zenon, <1>1, <2>1, <1>q, UnwrittenNext
<1>2. ASSUME NEW op, Receive(op)
      PROVE  /\ \A i : Request(chanMessage', i, x) => Unwritten(x)'
             /\ \A i, j : Request(chanMessage', i, x) /\ Request(chanMessage', j, x) => i = j
  <2>1. \A i : Request(chanMessage', i, x) => Request(chanMessage, i + 1, x) /\ i \in Int /\ i + 1 # 1
    BY <1>2, <1>t, QueueTail DEF Receive
  <2>2. RequestTaken(x) => Request(chanMessage, 1, x)
    BY <1>t, QueueTail DEF RequestTaken, Receive
  <2>3. ASSUME NEW i, Request(chanMessage', i, x) PROVE Unwritten(x)'
    BY Zenon, <2>1, <2>2, <2>3, <1>q, UnwrittenNext
  <2>4. ASSUME NEW i, NEW j, Request(chanMessage', i, x), Request(chanMessage', j, x)
        PROVE  i = j
    <3>1. i \in Int /\ j \in Int /\ i + 1 = j + 1
      BY <2>1, <2>4, <1>q
    <3>2. QED
      BY <3>1
  <2>5. QED
    BY <2>3, <2>4
<1>3. ASSUME NEW m \in Message, chanMessage' = Append(chanMessage, m),
             m.op = "request" /\ m.id = x => Absent(x)
      PROVE  /\ \A i : Request(chanMessage', i, x) => Unwritten(x)'
             /\ \A i, j : Request(chanMessage', i, x) /\ Request(chanMessage', j, x) => i = j
  <2>1. ~RequestTaken(x)
    <3>1. Len(chanMessage') = Len(chanMessage) + 1
      BY <1>3, <1>t, AppendLen
    <3>2. Receive("request") => Len(chanMessage') = Len(chanMessage) - 1
      BY <1>t, HeadTail DEF Receive
    <3>3. Len(chanMessage) \in Int
      BY <1>t
    <3>4. QED
      BY <3>1, <3>2, <3>3 DEF RequestTaken
  <2>2. \A i : Request(chanMessage', i, x)
                  => \/ Request(chanMessage, i, x)
                     \/ i = Len(chanMessage) + 1 /\ m.op = "request" /\ m.id = x
    <3>1. \A i \in DOMAIN chanMessage' :
             \/ i \in DOMAIN chanMessage /\ chanMessage'[i] = chanMessage[i]
             \/ i = Len(chanMessage) + 1 /\ chanMessage'[i] = m
      BY <1>3, <1>t, ChanAppend
    <3>2. QED
      BY <3>1
  <2>3. Absent(x) => Unwritten(x) /\ \A i : ~Request(chanMessage, i, x)
    BY DEF Absent
  <2>4. Unwritten(x) => Unwritten(x)'
    BY <2>1, UnwrittenNext
  <2>5. m.op = "request" /\ m.id = x => Unwritten(x) /\ \A i : ~Request(chanMessage, i, x)
    BY <1>3, <2>3
  <2> HIDE DEF Request
  <2>6. ASSUME NEW i, Request(chanMessage', i, x) PROVE Unwritten(x)'
    BY <1>q, <2>2, <2>4, <2>5, <2>6
  <2>7. ASSUME NEW i, NEW j, Request(chanMessage', i, x), Request(chanMessage', j, x)
        PROVE  i = j
    BY <1>q, <2>2, <2>5, <2>7
  <2>8. QED
    BY <2>6, <2>7
<1>4. ASSUME NEW p \in Procs, SendProcessMessageSend(p)
      PROVE  MessageOf(p).op = "request" /\ MessageOf(p).id = x => Absent(x)
  <2>1. MessageOf(p).op = "request" => p \in Callers /\ NotSent(p) /\ MessageOf(p).id = cid[p]
    BY <1>4, Distinct DEF MessageOf, Procs, NotSent, SendProcessMessageSend
  <2>2. QED
    BY <2>1 DEF IdFresh
<1>5. ASSUME NEW p \in Procs, CloseQuit(p)
      PROVE  QuitMessage.op # "request" /\ chanMessage' = Append(chanMessage, QuitMessage)
  BY <1>5 DEF CloseQuit, QuitMessage
<1>6. ASSUME NEW p \in Procs, SendProcessMessageSend(p)
      PROVE  MessageOf(p) \in Message /\ chanMessage' = Append(chanMessage, MessageOf(p))
  BY <1>6, MessageType DEF SendProcessMessageSend, Types
<1>7. QED
  BY Zenon, <1>1, <1>2, <1>3, <1>4, <1>5, <1>6, QuitType, QueueStep DEF QueueMove

(* NewConn uses no message id. *)
LEMMA IdInit == Init => IdInv
<1> SUFFICES ASSUME Init PROVE IdInv
  OBVIOUS
<1> USE ConnAssumption DEF ConnAssumption, Init
<1>1. IdOwned
  BY DEF IdOwned, Procs
<1>2. IdQueued
  BY DEF IdQueued
<1>3. ASSUME NEW x \in IDs PROVE Absent(x)
  <2>1. x # 0 /\ x \in Procs /\ x \notin Callers
    BY DEF IDs, Procs
  <2>2. pc[x] = "off" /\ \A r \in Readers : packet[r].id # x
    BY <2>1 DEF NoPacket
  <2>3. out.id # x
    BY <2>1 DEF NoOut
  <2>4. QED
    BY <2>2, <2>3 DEF Absent, Unwritten
<1>4. QED
  BY <1>1, <1>2, <1>3 DEF IdInv, IdFresh

(* Every step preserves what is known of message ids. *)
LEMMA IdNext == Types /\ IdInv /\ [Next]_vars => IdInv'
BY IdOwnedNext, IdFreshNext, IdQueuedNext DEF IdInv

=============================================================================
