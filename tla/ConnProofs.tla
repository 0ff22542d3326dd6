----------------------------- MODULE ConnProofs -----------------------------
(* Proofs about the connection, for every number of callers and of message
   ids and every capacity of chanMessage. *)
EXTENDS Conn, TLAPS

-----------------------------------------------------------------------------
(* Goroutines, sequences and the records the model is made of *)

(* A goroutine is of one sort, and None is no goroutine. *)
LEMMA Distinct ==
    /\ \A c \in Callers : c \notin Readers /\ c \notin IDs /\ c # None
    /\ \A r \in Readers : r \notin IDs /\ r # None
    /\ \A id \in IDs : id # None /\ id \in 0..MaxOps
BY ConnAssumption DEF ConnAssumption, IDs

(* The first element and the rest of a queue. *)
LEMMA HeadTail ==
    ASSUME NEW S, NEW q \in Seq(S), q # <<>>
    PROVE  Head(q) \in S /\ Tail(q) \in Seq(S) /\ Len(Tail(q)) = Len(q) - 1
OBVIOUS

(* The length of a queue after a send. *)
LEMMA AppendLen ==
    ASSUME NEW S, NEW q \in Seq(S), NEW x \in S
    PROVE  Append(q, x) \in Seq(S) /\ Len(Append(q, x)) = Len(q) + 1
OBVIOUS

(* A packet built from its fields. *)
LEMMA PacketType ==
    ASSUME NEW i \in 0..MaxOps,
           NEW w \in {"none", "entry", "ok", "fail", "bad", "noid"}
    PROVE  [id |-> i, what |-> w] \in Packet
BY Zenon DEF Packet, Whats

(* The packet of a reader that has read none. *)
LEMMA NoPacketType == NoPacket \in Packet
BY ConnAssumption DEF ConnAssumption, NoPacket, Packet, Whats

(* MessageQuit is a message. *)
LEMMA QuitType == QuitMessage \in Message
BY ConnAssumption DEF ConnAssumption, QuitMessage, Message, Whats

(* The idle sendResponse is one. *)
LEMMA NoOutType == NoOut \in Sending
BY ConnAssumption DEF ConnAssumption, NoOut, Sending, Whats

(* Respond begins a sendResponse. *)
LEMMA RespondType ==
    ASSUME requestTimeout \in BOOLEAN, NEW i \in 0..MaxOps, NEW w \in Whats,
           NEW b \in BOOLEAN, NEW r \in {"select", "cleanup"}, Respond(i, w, b, r)
    PROVE  pm' = "sending" /\ out' \in Sending
BY DEF Respond, Sending

-----------------------------------------------------------------------------
(* TypeOK in parts, weakened so that they are inductive together: the two
   counters are only known to be integers and an id may be 0. *)
FlagTypes ==
    /\ requestTimeout \in BOOLEAN /\ isTLS \in BOOLEAN /\ closing \in BOOLEAN
    /\ closeErr \in BOOLEAN /\ isStartingTLS \in BOOLEAN
    /\ chanClosed \in BOOLEAN /\ connUp \in BOOLEAN
    /\ cleanstop \in [Readers -> BOOLEAN] /\ srvUp \in BOOLEAN

CallTypes ==
    /\ pc \in [Procs -> CallerLocs \cup ReaderLocs \cup TimerLocs]
    /\ \A c \in Callers : pc[c] \in CallerLocs
    /\ \A r \in Readers : pc[r] \in ReaderLocs
    /\ \A id \in IDs : pc[id] \in TimerLocs
    /\ kind \in [Callers -> AllKinds]
    /\ cid \in [Callers -> 0..MaxOps]
    /\ messageMutex \in Procs \cup {None}

CountTypes ==
    /\ ops \in 0..MaxOps /\ extra \in 0..MaxExtra
    /\ outstandingRequests \in Int /\ wgClose \in Int
    /\ messageID \in 1..(MaxOps + 1)

QueueTypes ==
    /\ chanMessage \in Seq(Message) /\ Len(chanMessage) <= ChanCap
    /\ net \in Seq(Packet) /\ packet \in [Readers -> Packet]

ContextTypes ==
    /\ messageContexts \subseteq 0..MaxOps /\ done \subseteq 0..MaxOps
    /\ respClosed \subseteq 0..MaxOps /\ srvPending \subseteq 0..MaxOps

LoopTypes ==
    /\ pm \in {"off", "select", "sending", "cleanup", "exited"}
    /\ out \in Sending
    /\ err \in {"nil", "unexpected message", "panic in reader"}

Types == /\ FlagTypes /\ CallTypes /\ CountTypes
         /\ QueueTypes /\ ContextTypes /\ LoopTypes

(* The types hold in the state NewConn and Start leave. *)
LEMMA TypesInit == Init => Types
<1> SUFFICES ASSUME Init PROVE Types
  OBVIOUS
<1> USE ConnAssumption DEF ConnAssumption, Init
<1>1. FlagTypes
  BY Zenon DEF FlagTypes
<1>2. CallTypes
  BY DEF CallTypes, Procs, IDs, CallerLocs, ReaderLocs, TimerLocs, CloseLocs,
     AllKinds
<1>3. CountTypes
  BY DEF CountTypes
<1>4. QueueTypes
  BY NoPacketType DEF QueueTypes
<1>5. ContextTypes
  BY DEF ContextTypes
<1>6. LoopTypes
  BY NoOutType DEF LoopTypes
<1>7. QED
  BY <1>1, <1>2, <1>3, <1>4, <1>5, <1>6 DEF Types

(* What a goroutine hands to sendProcessMessage is a message. *)
LEMMA MessageType ==
    ASSUME CallTypes, QueueTypes, NEW p \in Procs
    PROVE  MessageOf(p) \in Message
<1> USE Distinct
<1>1. "none" \in Whats /\ AllKinds \subseteq Whats
  BY Zenon DEF Whats
<1>2. CASE p \in Readers
  BY <1>2 DEF MessageOf, Message, Packet, QueueTypes
<1>3. CASE p \in IDs
  BY <1>1, <1>3 DEF MessageOf, Message
<1>4. CASE p \in Callers
  <2>1. kind[p] \in Whats /\ cid[p] \in 0..MaxOps
    BY <1>1, <1>4 DEF CallTypes
  <2>2. QED
    BY <2>1, <1>1, <1>4 DEF MessageOf, Message
<1>5. QED
  BY <1>2, <1>3, <1>4 DEF Procs

(* What processMessages receives is a message. *)
LEMMA ReceiveType ==
    ASSUME QueueTypes, NEW op, Receive(op)
    PROVE  /\ Head(chanMessage) \in Message
           /\ Head(chanMessage).id \in 0..MaxOps
           /\ Head(chanMessage).what \in Whats
           /\ chanMessage' \in Seq(Message) /\ Len(chanMessage') <= ChanCap
<1>1. /\ chanMessage \in Seq(Message) /\ chanMessage # <<>>
      /\ chanMessage' = Tail(chanMessage)
  BY DEF QueueTypes, Receive
<1>2. Head(chanMessage) \in Message
  BY <1>1
<1>3. QED
  BY SMTT(20), <1>1, <1>2, HeadTail, ConnAssumption DEF ConnAssumption, QueueTypes, Message

(* Every step keeps the types of the flags. *)
LEMMA FlagTypesNext == FlagTypes /\ [Next]_vars => FlagTypes'
<1> SUFFICES ASSUME FlagTypes, [Next]_vars PROVE FlagTypes'
  OBVIOUS
<1> USE ConnAssumption DEF ConnAssumption, FlagTypes
<1> USE DEF flagVars, tlsVars, closeVars, chanVars, readVars, netVars
<1>1. CASE UNCHANGED <<flagVars, isStartingTLS, chanClosed, connUp, cleanstop, srvUp>>
  BY <1>1
<1>2. ASSUME NEW t \in Timeouts, SetTimeout(t) PROVE FlagTypes'
  BY <1>2, Zenon DEF SetTimeout
<1>3. ASSUME NEW c \in Callers, CountRequest(c) PROVE FlagTypes'
  BY <1>3, Zenon DEF CountRequest
<1>4. ASSUME NEW c \in Callers, FinishMessageCount(c) PROVE FlagTypes'
  BY <1>4, Zenon DEF FinishMessageCount
<1>5. ASSUME NEW c \in Callers, HandshakeSucceeds(c) PROVE FlagTypes'
  BY <1>5, Zenon DEF HandshakeSucceeds
<1>6. ASSUME NEW p \in Procs, CloseLock(p) PROVE FlagTypes'
  BY <1>6, Zenon DEF CloseLock
<1>7. ASSUME NEW p \in Procs, CloseConfirmed(p) PROVE FlagTypes'
  BY <1>7, Zenon DEF CloseConfirmed
<1>8. ASSUME NEW r \in Readers, StoreCloseErr(r) PROVE FlagTypes'
  BY <1>8, Zenon DEF StoreCloseErr
<1>9. ASSUME NEW r \in Readers, TestStartingTLS(r) PROVE FlagTypes'
  BY <1>9, Zenon DEF TestStartingTLS
<1>10. CASE ServerCloses
  BY <1>10, Zenon DEF ServerCloses
<1>11. CASE ProcessResponse
  BY <1>11, Zenon DEF ProcessResponse, Receive, Respond
<1>12. CASE \E c \in Callers : NextMessageID(c) \/ EncodeError(c) \/
        SendMessage(c) \/ ReceiveClosed(c) \/ Delivered(c) \/ Cancelled(c) \/
        FinishMessage(c) \/ FinishMessageTest(c) \/ SendResponse(c) \/
        HandshakeFails(c)
  BY <1>12, <1>1, Zenon DEF NextMessageID, EncodeError, OnlyPc, SendMessage,
     ReceiveClosed, Delivered, Cancelled, FinishMessage, FinishMessageTest,
     SendResponse, SendResponseReturn, HandshakeFails
<1>13. CASE \E p \in Procs : SendProcessMessageLock(p) \/
        SendProcessMessageSend(p) \/ CloseQuit(p) \/ CloseJoin(p)
  BY <1>13, <1>1, Zenon DEF SendProcessMessageLock, SendProcessMessageSend,
     CloseQuit, CloseJoin
<1>14. CASE \E r \in Readers : ReadPacket(r) \/ ReadError(r)
  BY <1>14, <1>1, Zenon DEF ReadPacket, ReadError, OnlyPc
<1>15. CASE \E id \in IDs : TimerFires(id) \/ TimerStops(id) \/ Cleanup(id) \/
        ServerEntry(id) \/ ServerResult(id)
  BY <1>15, <1>1, Zenon DEF TimerFires, OnlyPc, TimerStops, Cleanup,
     ServerEntry, ServerSends, ServerResult
<1>16. CASE \E c \in Callers, k \in Kinds : Call(c, k)
  BY <1>16, <1>1, Zenon DEF Call
<1>17. CASE Start \/ ProcessQuit \/ ProcessRequest \/ ProcessRequestError \/
        ProcessTimeout \/ ProcessFinish \/ CleanupDone \/ SendResponseDropped
        \/ ServerStray
  BY <1>17, <1>1, Zenon DEF Start, ProcessQuit, ProcessRequest,
     ProcessRequestError, ProcessTimeout, ProcessFinish, CleanupDone,
     SendResponseDropped, SendResponseReturn, ServerStray, ServerSends
<1>18. CASE UNCHANGED vars
  BY <1>18, <1>1 DEF vars
<1>19. QED
  BY <1>1, <1>2, <1>3, <1>4, <1>5, <1>6, <1>7, <1>8, <1>9, <1>10, <1>11,
     <1>12, <1>13, <1>14, <1>15, <1>16, <1>17, <1>18
  DEF Next, CallerStep, SharedStep, ProcessMessages, ReaderStep, Server

(* Every step keeps the types of the counters. *)
LEMMA CountTypesNext == CountTypes /\ [Next]_vars => CountTypes'
<1> SUFFICES ASSUME CountTypes, [Next]_vars PROVE CountTypes'
  OBVIOUS
<1> USE ConnAssumption DEF ConnAssumption, CountTypes
<1> USE DEF tlsVars, closeVars, chanVars, ctxVars, callVars, netVars
<1>1. CASE UNCHANGED <<ops, extra, outstandingRequests, wgClose, messageID>>
  BY <1>1
<1>2. ASSUME NEW c \in Callers, NEW k \in Kinds, Call(c, k) PROVE CountTypes'
  BY <1>2 DEF Call, ReturnsAtOnce
<1>3. ASSUME NEW c \in Callers, NextMessageID(c) PROVE CountTypes'
  BY <1>3 DEF NextMessageID, IDs
<1>4. ASSUME NEW c \in Callers, CountRequest(c) PROVE CountTypes'
  BY <1>4 DEF CountRequest
<1>5. ASSUME NEW c \in Callers, FinishMessageCount(c) PROVE CountTypes'
  BY <1>5 DEF FinishMessageCount
<1>6. ASSUME NEW p \in Procs, CloseConfirmed(p) PROVE CountTypes'
  BY <1>6 DEF CloseConfirmed
<1>7. ASSUME NEW id \in IDs, ServerEntry(id) PROVE CountTypes'
  BY <1>7 DEF ServerEntry, ServerSends
<1>8. CASE ServerStray
  BY <1>8 DEF ServerStray, ServerSends
<1>9. CASE \E c \in Callers : EncodeError(c) \/ SendMessage(c) \/
        ReceiveClosed(c) \/ Delivered(c) \/ Cancelled(c) \/ FinishMessage(c)
        \/ FinishMessageTest(c) \/ SendResponse(c) \/ HandshakeSucceeds(c) \/
        HandshakeFails(c)
  BY <1>9, <1>1 DEF EncodeError, OnlyPc, SendMessage, ReceiveClosed,
     Delivered, Cancelled, FinishMessage, FinishMessageTest, SendResponse,
     SendResponseReturn, HandshakeSucceeds, HandshakeFails
<1>10. CASE \E p \in Procs : SendProcessMessageLock(p) \/
        SendProcessMessageSend(p) \/ CloseLock(p) \/ CloseQuit(p) \/
        CloseJoin(p)
  BY Zenon, <1>10, <1>1 DEF SendProcessMessageLock, SendProcessMessageSend,
     CloseLock, CloseQuit, CloseJoin
<1>11. CASE \E r \in Readers : ReadPacket(r) \/ ReadError(r) \/
        StoreCloseErr(r) \/ TestStartingTLS(r)
  BY Zenon, <1>11, <1>1 DEF ReadPacket, ReadError, OnlyPc, StoreCloseErr,
     TestStartingTLS
<1>12. CASE \E id \in IDs : TimerFires(id) \/ TimerStops(id) \/ Cleanup(id) \/
        ServerResult(id)
  BY Zenon, <1>12, <1>1 DEF TimerFires, OnlyPc, TimerStops, Cleanup, ServerResult,
     ServerSends
<1>13. CASE \E t \in Timeouts : SetTimeout(t)
  BY <1>13, <1>1 DEF SetTimeout
<1>14. CASE Start \/ ProcessQuit \/ ProcessRequest \/ ProcessRequestError \/
        ProcessResponse \/ ProcessTimeout \/ ProcessFinish \/ CleanupDone \/
        SendResponseDropped \/ ServerCloses
  BY Zenon, <1>14, <1>1 DEF Start, ProcessQuit, ProcessRequest, ProcessRequestError,
     ProcessResponse, ProcessTimeout, ProcessFinish, CleanupDone,
     SendResponseDropped, SendResponseReturn, ServerCloses
<1>15. CASE UNCHANGED vars
  BY <1>15, <1>1 DEF vars
<1>16. QED
  BY <1>1, <1>2, <1>3, <1>4, <1>5, <1>6, <1>7, <1>8, <1>9, <1>10, <1>11,
     <1>12, <1>13, <1>14, <1>15
  DEF Next, CallerStep, SharedStep, ProcessMessages, ReaderStep, Server

(* Every step keeps the type and the capacity of chanMessage. *)
LEMMA QueueTypesNext == QueueTypes /\ CallTypes /\ [Next]_vars => QueueTypes'
<1> SUFFICES ASSUME QueueTypes, CallTypes, [Next]_vars PROVE QueueTypes'
  OBVIOUS
<1> USE ConnAssumption DEF ConnAssumption, QueueTypes
<1> USE DEF chanVars, readVars, netVars
<1>1. CASE UNCHANGED <<chanMessage, net, packet>>
  BY <1>1
<1>2. ASSUME NEW p \in Procs, SendProcessMessageSend(p) PROVE QueueTypes'
  BY <1>2, MessageType, AppendLen DEF SendProcessMessageSend
<1>3. ASSUME NEW c \in Callers, HandshakeSucceeds(c) PROVE QueueTypes'
  BY <1>3 DEF HandshakeSucceeds
<1>4. ASSUME NEW p \in Procs, CloseQuit(p) PROVE QueueTypes'
  BY <1>4, QuitType, AppendLen DEF CloseQuit
<1>5. CASE ProcessQuit
  BY <1>5, ReceiveType DEF ProcessQuit
<1>6. CASE ProcessRequest
  BY <1>6, ReceiveType DEF ProcessRequest
<1>7. CASE ProcessRequestError
  BY Zenon, <1>7, ReceiveType DEF ProcessRequestError
<1>8. CASE ProcessResponse
  BY Zenon, <1>8, ReceiveType DEF ProcessResponse
<1>9. CASE ProcessTimeout
  BY <1>9, ReceiveType DEF ProcessTimeout
<1>10. CASE ProcessFinish
  BY <1>10, ReceiveType DEF ProcessFinish
<1>11. ASSUME NEW r \in Readers, ReadPacket(r) PROVE QueueTypes'
  <2>1. Tail(net) \in Seq(Packet) /\ Head(net) \in Packet
    BY <1>11, HeadTail DEF ReadPacket
  <2>2. QED
    BY <1>11, <2>1 DEF ReadPacket
<1>12. ASSUME NEW id \in IDs, ServerEntry(id) PROVE QueueTypes'
  BY Zenon, <1>12, PacketType, Distinct, AppendLen DEF ServerEntry, ServerSends
<1>13. ASSUME NEW id \in IDs, ServerResult(id) PROVE QueueTypes'
  <2>1. PICK w \in Replies \ {"entry"} : ServerSends(id, w)
    BY <1>13 DEF ServerResult
  <2>2. [id |-> id, what |-> w] \in Packet
    BY Zenon, PacketType, Distinct
  <2>3. QED
    BY <2>1, <2>2, AppendLen DEF ServerSends
<1>14. CASE ServerStray
  <2>1. PICK w \in Strays : ServerSends(0, w)
    BY <1>14 DEF ServerStray
  <2>2. 0 \in 0..MaxOps /\ w \in {"entry", "bad", "noid"}
    OBVIOUS
  <2>3. [id |-> 0, what |-> w] \in Packet
    BY Zenon, <2>2, PacketType
  <2>4. QED
    BY <2>1, <2>3, AppendLen DEF ServerSends
<1>15. CASE \E c \in Callers : NextMessageID(c) \/ EncodeError(c) \/
        SendMessage(c) \/ CountRequest(c) \/ ReceiveClosed(c) \/ Delivered(c)
        \/ Cancelled(c) \/ FinishMessage(c) \/ FinishMessageTest(c) \/
        FinishMessageCount(c) \/ SendResponse(c) \/ HandshakeFails(c)
  BY <1>15, <1>1 DEF NextMessageID, EncodeError, OnlyPc, SendMessage,
     CountRequest, ReceiveClosed, Delivered, Cancelled, FinishMessage,
     FinishMessageTest, FinishMessageCount, SendResponse, SendResponseReturn,
     HandshakeFails
<1>16. CASE \E p \in Procs : SendProcessMessageLock(p) \/ CloseLock(p) \/
        CloseConfirmed(p) \/ CloseJoin(p)
  BY Zenon, <1>16, <1>1 DEF SendProcessMessageLock, CloseLock, CloseConfirmed,
     CloseJoin
<1>17. CASE \E r \in Readers : ReadError(r) \/ StoreCloseErr(r) \/
        TestStartingTLS(r)
  BY Zenon, <1>17, <1>1 DEF ReadError, OnlyPc, StoreCloseErr, TestStartingTLS
<1>18. CASE \E id \in IDs : TimerFires(id) \/ TimerStops(id) \/ Cleanup(id)
  BY Zenon, <1>18, <1>1 DEF TimerFires, OnlyPc, TimerStops, Cleanup
<1>19. CASE \E c \in Callers, k \in Kinds : Call(c, k)
  BY <1>19, <1>1 DEF Call
<1>20. CASE \E t \in Timeouts : SetTimeout(t)
  BY <1>20, <1>1 DEF SetTimeout
<1>21. CASE Start \/ CleanupDone \/ SendResponseDropped \/ ServerCloses
  BY <1>21, <1>1 DEF Start, CleanupDone, SendResponseDropped,
     SendResponseReturn, ServerCloses
<1>22. CASE UNCHANGED vars
  BY <1>22, <1>1 DEF vars
<1>23. QED
  BY <1>1, <1>2, <1>3, <1>4, <1>5, <1>6, <1>7, <1>8, <1>9, <1>10, <1>11,
     <1>12, <1>13, <1>14, <1>15, <1>16, <1>17, <1>18, <1>19, <1>20, <1>21,
     <1>22
  DEF Next, CallerStep, SharedStep, ProcessMessages, ReaderStep, Server

(* Every step keeps the types of the message contexts. *)
LEMMA ContextTypesNext ==
    ContextTypes /\ QueueTypes /\ CallTypes /\ LoopTypes /\ [Next]_vars
        => ContextTypes'
<1> SUFFICES ASSUME ContextTypes, QueueTypes, CallTypes, LoopTypes, [Next]_vars
             PROVE  ContextTypes'
  OBVIOUS
<1> USE DEF ContextTypes, ctxVars, netVars
<1>1. CASE UNCHANGED <<messageContexts, done, respClosed, srvPending>>
  BY <1>1
<1>2. ASSUME NEW c \in Callers, FinishMessage(c) PROVE ContextTypes'
  BY Zenon, <1>2 DEF FinishMessage, CallTypes
<1>3. ASSUME NEW c \in Callers, SendResponse(c) PROVE ContextTypes'
  BY Zenon, <1>3 DEF SendResponse, SendResponseReturn, CloseResponses, LoopTypes,
     Sending
<1>4. ASSUME NEW id \in IDs, Cleanup(id) PROVE ContextTypes'
  BY Zenon, <1>4 DEF Cleanup, CloseResponses
<1>5. ASSUME NEW id \in IDs, ServerResult(id) PROVE ContextTypes'
  BY <1>5 DEF ServerResult, ServerSends
<1>6. CASE ProcessRequest
  BY Zenon, <1>6, ReceiveType DEF ProcessRequest
<1>7. CASE ProcessFinish
  BY Zenon, <1>7, ReceiveType DEF ProcessFinish, CloseResponses
<1>8. CASE SendResponseDropped
  BY Zenon, <1>8 DEF SendResponseDropped, SendResponseReturn, CloseResponses,
     LoopTypes, Sending
<1>9. CASE \E c \in Callers : NextMessageID(c) \/ EncodeError(c) \/
        SendMessage(c) \/ CountRequest(c) \/ ReceiveClosed(c) \/ Delivered(c)
        \/ Cancelled(c) \/ FinishMessageTest(c) \/ FinishMessageCount(c) \/
        HandshakeSucceeds(c) \/ HandshakeFails(c)
  BY Zenon, <1>9, <1>1 DEF NextMessageID, EncodeError, OnlyPc, SendMessage,
     CountRequest, ReceiveClosed, Delivered, Cancelled, FinishMessageTest,
     FinishMessageCount, HandshakeSucceeds, HandshakeFails
<1>10. CASE \E p \in Procs : SendProcessMessageLock(p) \/
        SendProcessMessageSend(p) \/ CloseLock(p) \/ CloseQuit(p) \/
        CloseConfirmed(p) \/ CloseJoin(p)
  BY Zenon, <1>10, <1>1 DEF SendProcessMessageLock, SendProcessMessageSend,
     CloseLock, CloseQuit, CloseConfirmed, CloseJoin
<1>11. CASE \E r \in Readers : ReadPacket(r) \/ ReadError(r) \/
        StoreCloseErr(r) \/ TestStartingTLS(r)
  BY Zenon, <1>11, <1>1 DEF ReadPacket, ReadError, OnlyPc, StoreCloseErr,
     TestStartingTLS
<1>12. CASE \E id \in IDs : TimerFires(id) \/ TimerStops(id) \/
        ServerEntry(id)
  BY <1>12, <1>1 DEF TimerFires, OnlyPc, TimerStops, ServerEntry, ServerSends
<1>13. CASE \E c \in Callers, k \in Kinds : Call(c, k)
  BY <1>13, <1>1 DEF Call
<1>14. CASE \E t \in Timeouts : SetTimeout(t)
  BY <1>14, <1>1 DEF SetTimeout
<1>15. CASE Start \/ ProcessQuit \/ ProcessRequestError \/ ProcessResponse \/
        ProcessTimeout \/ CleanupDone \/ ServerStray \/ ServerCloses
  BY Zenon, <1>15, <1>1 DEF Start, ProcessQuit, ProcessRequestError, ProcessResponse,
     ProcessTimeout, CleanupDone, ServerStray, ServerSends, ServerCloses
<1>16. CASE UNCHANGED vars
  BY <1>16, <1>1 DEF vars
<1>17. QED
  BY <1>1, <1>2, <1>3, <1>4, <1>5, <1>6, <1>7, <1>8, <1>9, <1>10, <1>11,
     <1>12, <1>13, <1>14, <1>15, <1>16
  DEF Next, CallerStep, SharedStep, ProcessMessages, ReaderStep, Server

(* Every step keeps the types of processMessages, the readers and the server. *)
LEMMA LoopTypesNext ==
    LoopTypes /\ FlagTypes /\ QueueTypes /\ ContextTypes /\ [Next]_vars => LoopTypes'
<1> SUFFICES ASSUME LoopTypes, FlagTypes, QueueTypes, ContextTypes, [Next]_vars
             PROVE  LoopTypes'
  OBVIOUS
<1> USE DEF LoopTypes, flagVars, pmVars
<1>w. {"write error", "timeout", "close error"} \subseteq Whats
  BY Zenon DEF Whats
<1>1. CASE UNCHANGED <<pm, out, err>>
  BY Zenon, <1>1
<1>2. CASE Start
  BY Zenon, <1>2 DEF Start
<1>3. ASSUME NEW c \in Callers, SendResponse(c) PROVE LoopTypes'
  BY Zenon, <1>3, NoOutType DEF SendResponse, SendResponseReturn, Sending
<1>4. ASSUME NEW id \in IDs, Cleanup(id) PROVE LoopTypes'
  BY Zenon, <1>4, <1>w, RespondType, Distinct DEF Cleanup, FlagTypes
<1>5. CASE ProcessQuit
  BY Zenon, <1>5 DEF ProcessQuit
<1>6. CASE ProcessRequestError
  BY Zenon, <1>6, <1>w, ReceiveType, RespondType DEF ProcessRequestError, FlagTypes
<1>7. CASE ProcessResponse
  BY Zenon, <1>7, ReceiveType, RespondType DEF ProcessResponse, FlagTypes
<1>8. CASE ProcessTimeout
  BY Zenon, <1>8, <1>w, ReceiveType, RespondType DEF ProcessTimeout, FlagTypes
<1>9. CASE CleanupDone
  BY Zenon, <1>9 DEF CleanupDone
<1>10. CASE SendResponseDropped
  BY Zenon, <1>10, NoOutType DEF SendResponseDropped, SendResponseReturn, Sending
<1>11. ASSUME NEW r \in Readers, TestStartingTLS(r) PROVE LoopTypes'
  BY Zenon, <1>11 DEF TestStartingTLS
<1>12. CASE \E c \in Callers : NextMessageID(c) \/ EncodeError(c) \/
        SendMessage(c) \/ CountRequest(c) \/ ReceiveClosed(c) \/ Delivered(c)
        \/ Cancelled(c) \/ FinishMessage(c) \/ FinishMessageTest(c) \/
        FinishMessageCount(c) \/ HandshakeSucceeds(c) \/ HandshakeFails(c)
  BY Zenon, <1>12, <1>1 DEF NextMessageID, EncodeError, OnlyPc, SendMessage,
     CountRequest, ReceiveClosed, Delivered, Cancelled, FinishMessage,
     FinishMessageTest, FinishMessageCount, HandshakeSucceeds, HandshakeFails
<1>13. CASE \E p \in Procs : SendProcessMessageLock(p) \/
        SendProcessMessageSend(p) \/ CloseLock(p) \/ CloseQuit(p) \/
        CloseConfirmed(p) \/ CloseJoin(p)
  BY Zenon, <1>13, <1>1 DEF SendProcessMessageLock, SendProcessMessageSend,
     CloseLock, CloseQuit, CloseConfirmed, CloseJoin
<1>14. CASE \E r \in Readers : ReadPacket(r) \/ ReadError(r) \/
        StoreCloseErr(r)
  BY Zenon, <1>14, <1>1 DEF ReadPacket, ReadError, OnlyPc, StoreCloseErr
<1>15. CASE \E id \in IDs : TimerFires(id) \/ TimerStops(id) \/
        ServerEntry(id) \/ ServerResult(id)
  BY Zenon, <1>15, <1>1 DEF TimerFires, OnlyPc, TimerStops, ServerEntry, ServerSends,
     ServerResult
<1>16. CASE \E c \in Callers, k \in Kinds : Call(c, k)
  BY Zenon, <1>16, <1>1 DEF Call
<1>17. CASE \E t \in Timeouts : SetTimeout(t)
  BY Zenon, <1>17, <1>1 DEF SetTimeout
<1>18. CASE ProcessRequest \/ ProcessFinish \/ ServerStray \/ ServerCloses
  BY Zenon, <1>18, <1>1 DEF ProcessRequest, ProcessFinish, ServerStray, ServerSends,
     ServerCloses
<1>19. CASE UNCHANGED vars
  BY Zenon, <1>19, <1>1 DEF vars
<1>20. QED
  BY Zenon, <1>1, <1>2, <1>3, <1>4, <1>5, <1>6, <1>7, <1>8, <1>9, <1>10, <1>11,
     <1>12, <1>13, <1>14, <1>15, <1>16, <1>17, <1>18, <1>19
  DEF Next, CallerStep, SharedStep, ProcessMessages, ReaderStep, Server

(* Every step keeps the types of the callers. *)
LEMMA CallTypesNext == CallTypes /\ QueueTypes /\ CountTypes /\ [Next]_vars => CallTypes'
<1> SUFFICES ASSUME CallTypes, QueueTypes, CountTypes, [Next]_vars
             PROVE  CallTypes'
  OBVIOUS
<1> USE ConnAssumption DEF ConnAssumption, CallTypes, Goto, Procs, IDs
<1> USE DEF CallerLocs, ReaderLocs, TimerLocs, CloseLocs, callVars
<1>1. CASE UNCHANGED <<pc, kind, cid, messageMutex>>
  BY <1>1
<1>2. CASE Start
  BY <1>2 DEF Start
<1>3. ASSUME NEW c \in Callers, NEW k \in Kinds, Call(c, k) PROVE CallTypes'
  BY <1>3 DEF Call, ReturnsAtOnce
<1>4. ASSUME NEW c \in Callers, NextMessageID(c) PROVE CallTypes'
  BY <1>4 DEF NextMessageID
<1>5. ASSUME NEW c \in Callers, EncodeError(c) PROVE CallTypes'
  BY <1>5 DEF EncodeError, OnlyPc
<1>6. ASSUME NEW c \in Callers, SendMessage(c) PROVE CallTypes'
  BY <1>6 DEF SendMessage, OnlyPc
<1>7. ASSUME NEW c \in Callers, CountRequest(c) PROVE CallTypes'
  BY <1>7 DEF CountRequest
<1>8. ASSUME NEW c \in Callers, ReceiveClosed(c) PROVE CallTypes'
  BY <1>8 DEF ReceiveClosed, OnlyPc
<1>9. ASSUME NEW c \in Callers, Delivered(c) PROVE CallTypes'
  BY <1>9 DEF Delivered, OnlyPc
<1>10. ASSUME NEW c \in Callers, Cancelled(c) PROVE CallTypes'
  BY <1>10 DEF Cancelled, OnlyPc
<1>11. ASSUME NEW c \in Callers, FinishMessage(c) PROVE CallTypes'
  BY <1>11 DEF FinishMessage
<1>12. ASSUME NEW c \in Callers, FinishMessageTest(c) PROVE CallTypes'
  BY <1>12 DEF FinishMessageTest, AfterFinish, OnlyPc
<1>13. ASSUME NEW c \in Callers, FinishMessageCount(c) PROVE CallTypes'
  BY <1>13 DEF FinishMessageCount
<1>14. ASSUME NEW c \in Callers, SendResponse(c) PROVE CallTypes'
  BY <1>14 DEF SendResponse, SendResponseReturn, CloseResponses, AfterReceive,
     NoOut
<1>15. ASSUME NEW c \in Callers, HandshakeSucceeds(c) PROVE CallTypes'
  BY <1>15 DEF HandshakeSucceeds
<1>16. ASSUME NEW c \in Callers, HandshakeFails(c) PROVE CallTypes'
  BY <1>16 DEF HandshakeFails, OnlyPc
<1>17. ASSUME NEW p \in Procs, SendProcessMessageLock(p) PROVE CallTypes'
  BY <1>17 DEF SendProcessMessageLock, AfterSend, AfterFinish
<1>18. ASSUME NEW p \in Procs, SendProcessMessageSend(p) PROVE CallTypes'
  BY <1>18 DEF SendProcessMessageSend, AfterSend, AfterFinish, MessageOf
<1>19. ASSUME NEW p \in Procs, CloseLock(p) PROVE CallTypes'
  BY <1>19 DEF CloseLock
<1>20. ASSUME NEW p \in Procs, CloseQuit(p) PROVE CallTypes'
  BY <1>20 DEF CloseQuit
<1>21. ASSUME NEW p \in Procs, CloseConfirmed(p) PROVE CallTypes'
  BY <1>21 DEF CloseConfirmed
<1>22. ASSUME NEW p \in Procs, CloseJoin(p) PROVE CallTypes'
  BY <1>22 DEF CloseJoin, AfterClose
<1>23. ASSUME NEW id \in IDs, TimerFires(id) PROVE CallTypes'
  BY <1>23 DEF TimerFires, OnlyPc
<1>24. ASSUME NEW id \in IDs, TimerStops(id) PROVE CallTypes'
  BY <1>24 DEF TimerStops, OnlyPc
<1>25. CASE ProcessRequest
  <2> DEFINE m == Head(chanMessage)
  <2>1. m.id \in 0..MaxOps
    BY <1>25, ReceiveType DEF ProcessRequest
  <2>2. pc' \in {pc, [pc EXCEPT ![m.id] = "armed"]}
    BY <1>25 DEF ProcessRequest
  <2>3. UNCHANGED <<kind, cid, messageMutex>>
    BY <1>25 DEF ProcessRequest
  <2>4. QED
    BY <2>1, <2>2, <2>3
<1>26. ASSUME NEW r \in Readers, ReadPacket(r) PROVE CallTypes'
  <2>1. \E l \in ReaderLocs : pc' = [pc EXCEPT ![r] = l]
    BY <1>26 DEF ReadPacket
  <2>2. UNCHANGED <<kind, cid, messageMutex>>
    BY <1>26 DEF ReadPacket
  <2>3. QED
    BY <2>1, <2>2
<1>27. ASSUME NEW r \in Readers, ReadError(r) PROVE CallTypes'
  BY <1>27 DEF ReadError, OnlyPc
<1>28. ASSUME NEW r \in Readers, StoreCloseErr(r) PROVE CallTypes'
  BY <1>28 DEF StoreCloseErr
<1>29. ASSUME NEW r \in Readers, TestStartingTLS(r) PROVE CallTypes'
  <2>1. \E l \in {"stopped", "close.lock", "lock"} : pc' = [pc EXCEPT ![r] = l]
    BY Zenon, <1>29 DEF TestStartingTLS
  <2>2. UNCHANGED <<kind, cid, messageMutex>>
    BY Zenon, <1>29 DEF TestStartingTLS
  <2>3. QED
    BY <2>1, <2>2
<1>30. CASE \E id \in IDs : Cleanup(id) \/ ServerEntry(id) \/ ServerResult(id)
  BY Zenon, <1>30, <1>1 DEF Cleanup, ServerEntry, ServerSends, ServerResult
<1>31. CASE \E t \in Timeouts : SetTimeout(t)
  BY <1>31, <1>1 DEF SetTimeout
<1>32. CASE ProcessQuit \/ ProcessRequestError \/ ProcessResponse \/
        ProcessTimeout \/ ProcessFinish \/ CleanupDone \/ SendResponseDropped
        \/ ServerStray \/ ServerCloses
  BY Zenon, <1>32, <1>1 DEF ProcessQuit, ProcessRequestError, ProcessResponse,
     ProcessTimeout, ProcessFinish, CleanupDone, SendResponseDropped,
     SendResponseReturn, ServerStray, ServerSends, ServerCloses
<1>33. CASE UNCHANGED vars
  BY <1>33, <1>1 DEF vars
<1>34. QED
  BY Zenon, <1>1, <1>2, <1>3, <1>4, <1>5, <1>6, <1>7, <1>8, <1>9, <1>10, <1>11,
     <1>12, <1>13, <1>14, <1>15, <1>16, <1>17, <1>18, <1>19, <1>20, <1>21,
     <1>22, <1>23, <1>24, <1>25, <1>26, <1>27, <1>28, <1>29, <1>30, <1>31,
     <1>32, <1>33
  DEF Next, CallerStep, SharedStep, ProcessMessages, ReaderStep, Server

(* Every step keeps all types. *)
LEMMA TypesNext == Types /\ [Next]_vars => Types'
BY FlagTypesNext, CountTypesNext, QueueTypesNext, ContextTypesNext,
   LoopTypesNext, CallTypesNext DEF Types

=============================================================================
