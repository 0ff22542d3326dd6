------------------------ MODULE ConnResponsesProofs -------------------------
(* Conn implements Responses, for every set of goroutines and every number of
   operations. *)
EXTENDS ConnSafetyProofs, ConnResponses

-----------------------------------------------------------------------------
(* Done channels *)

(* c has sent its request and has not called finishMessage. *)
Unfinished(c) ==
    \/ pc[c] \in {"wait", "deliver", "deliver.last", "handshake", "finish"}
    \/ pc[c] \in CloseLocs /\ kind[c] = "starttls"

UnfinishedInv == \A c \in Callers : Unfinished(c) => cid[c] \notin done

(* A caller comes to have an unfinished request by sending it. *)
LEMMA UnfinishedStep ==
    ASSUME CloseInv, HandshakeKind, NEW x \in Callers, Unfinished(x)', [Next]_vars
    PROVE  /\ cid'[x] = cid[x] /\ ~FinishMessage(x)
           /\ Unfinished(x) \/ NotSent(x)
<1>t. /\ pc \in [Procs -> CallerLocs \cup ReaderLocs \cup TimerLocs] /\ x \in Procs
      /\ cid \in [Callers -> 0..MaxOps] /\ x \notin Readers /\ x \notin IDs
      /\ kind \in [Callers -> AllKinds]
  BY Zenon, Distinct DEF CloseInv, Types, CallTypes, Procs
<1>n. ~NextMessageID(x) /\ ~FinishMessage(x)
  BY <1>t DEF NextMessageID, FinishMessage, Unfinished, CloseLocs, Goto
<1>c. ~\E k \in Kinds : Call(x, k)
  BY <1>t DEF Call, Unfinished, CloseLocs, Goto
<1>d. cid'[x] = cid[x] /\ kind'[x] = kind[x]
  BY <1>t, <1>n, <1>c, IdStep, KindStep DEF NextMessageID, CloseInv
<1>1. CASE pc'[x] = pc[x]
  BY <1>1, <1>d, <1>n DEF Unfinished
<1>2. CASE CallerStep(x)
  <2> USE <1>t, <1>d, <1>n DEF Unfinished, CloseLocs, Goto
  <2>1. CASE EncodeError(x) \/ SendMessage(x) \/ CountRequest(x)
    BY Zenon, <2>1 DEF EncodeError, SendMessage, CountRequest
  <2>2. CASE ReceiveClosed(x) \/ Delivered(x) \/ Cancelled(x) \/ SendResponse(x)
             \/ HandshakeSucceeds(x) \/ HandshakeFails(x)
    BY Zenon, <2>2 DEF ReceiveClosed, Delivered, Cancelled, SendResponse,
       HandshakeSucceeds, HandshakeFails
  <2>3. CASE FinishMessageTest(x) \/ FinishMessageCount(x)
    BY Zenon, <2>3 DEF FinishMessageTest, FinishMessageCount, AfterFinish
  <2>4. QED
    BY Zenon, <1>2, <1>n, <1>c, <2>1, <2>2, <2>3 DEF CallerStep
<1>3. CASE SharedStep(x)
  <2> USE <1>t, <1>d, <1>n DEF Unfinished, CloseLocs, Goto
  <2>1. CASE SendProcessMessageLock(x)
    BY Zenon, <2>1 DEF SendProcessMessageLock, AfterSend, AfterFinish
  <2>2. CASE SendProcessMessageSend(x)
    BY Zenon, <2>2 DEF SendProcessMessageSend, AfterSend, AfterFinish, NotSent
  <2>3. CASE CloseLock(x) \/ CloseQuit(x) \/ CloseConfirmed(x) \/ CloseJoin(x)
    BY Zenon, <2>3 DEF CloseLock, CloseQuit, CloseConfirmed, CloseJoin, AfterClose
  <2>4. QED
    BY Zenon, <1>3, <2>1, <2>2, <2>3 DEF SharedStep
<1>4. QED
  BY Zenon, <1>n, <1>d, <1>1, <1>2, <1>3, PcStep DEF CloseInv

(* No done channel is closed before its operation finishes. *)
LEMMA UnfinishedNext == SafetyInv /\ UnfinishedInv /\ [Next]_vars => UnfinishedInv'
<1> SUFFICES ASSUME SafetyInv, UnfinishedInv, [Next]_vars, NEW x \in Callers, Unfinished(x)'
             PROVE  cid'[x] \notin done'
  BY DEF UnfinishedInv
<1>1. cid'[x] = cid[x] /\ ~FinishMessage(x) /\ (Unfinished(x) \/ NotSent(x))
  BY UnfinishedStep DEF SafetyInv
<1>2. cid[x] # 0 \/ ~Unfinished(x)'
  <2>1. CASE cid[x] = 0
    <3>1. CloseInv' /\ ZeroInv'
      BY SafetyNext DEF SafetyInv
    <3>2. QED
      BY <3>1, <2>1, <1>1 DEF ZeroInv, ZeroCaller, Unfinished, CloseLocs
  <2>2. QED
    BY <2>1
<1>3. cid[x] \in IDs
  BY <1>2, ConnAssumption DEF SafetyInv, CloseInv, Types, CallTypes, IDs, ConnAssumption
<1>4. cid[x] \notin done
  <2>1. CASE Unfinished(x)
    BY <2>1 DEF UnfinishedInv
  <2>2. CASE NotSent(x)
    BY <2>2, <1>3 DEF SafetyInv, CloseInv, IdInv, IdFresh, Absent
  <2>3. QED
    BY <1>1, <2>1, <2>2
<1>5. ASSUME NEW c \in Callers, FinishMessage(c) PROVE cid[c] # cid[x]
  BY <1>5, <1>1, <1>2 DEF SafetyInv, CloseInv, IdInv, IdOwned
<1>6. QED
  BY <1>1, <1>4, <1>5, DoneStep

-----------------------------------------------------------------------------
(* Steps of the contexts *)

(* The ids processMessages works on are those of operations. *)
LEMMA RegisteredId ==
    ASSUME SafetyInv
    PROVE  messageContexts \subseteq IDs /\ (pm = "sending" => out.id \in IDs)
<1>1. \A i \in 0..MaxOps : i # 0 => i \in IDs
  BY ConnAssumption DEF ConnAssumption, IDs
<1>2. QED
  BY <1>1 DEF SafetyInv, CloseInv, Types, ContextTypes, LoopTypes, Sending, ZeroInv, ZeroContext

(* A request that processMessages receives was not registered before. *)
LEMMA NewRequest ==
    ASSUME SafetyInv, Receive("request")
    PROVE  /\ Head(chanMessage).id \in IDs
           /\ Head(chanMessage).id \notin messageContexts /\ Head(chanMessage).id \notin respClosed
<1>1. Head(chanMessage) = chanMessage[1] /\ 1 \in DOMAIN chanMessage
  BY QueueTail DEF Receive, SafetyInv, CloseInv, Types, QueueTypes
<1>2. Head(chanMessage).id # 0
  BY <1>1 DEF Receive, SafetyInv, ZeroInv, ZeroQueue
<1>3. Head(chanMessage).id \in 0..MaxOps
  <2>1. Head(chanMessage) \in Message
    BY HeadTail DEF Receive, SafetyInv, CloseInv, Types, QueueTypes
  <2>2. QED
    BY Zenon, <2>1 DEF Message
<1>4. Head(chanMessage).id \in IDs
  BY <1>2, <1>3, ConnAssumption DEF ConnAssumption, IDs
<1>5. QED
  BY <1>1, <1>2, <1>4 DEF Receive, SafetyInv, CloseInv, IdInv, IdQueued, Unwritten

(* A step that leaves the channels alone is a stutter of Responses. *)
LEMMA ContextsStutter ==
    ASSUME UNCHANGED <<messageContexts, respClosed, done>>, SendingTo' = SendingTo
    PROVE  UNCHANGED Contexts!vars
BY DEF Contexts!vars, ResponsesState

(* processMessages starts to send a response. *)
LEMMA ContextsSend ==
    ASSUME NEW i \in IDs, NEW w, NEW b, NEW r, Respond(i, w, b, r), pm # "sending",
           i \notin respClosed, UNCHANGED <<messageContexts, respClosed, done>>
    PROVE  Contexts!Next
<1>1. SendingTo = {} /\ SendingTo' = {i}
  BY RespondFields DEF SendingTo
<1>2. ResponsesState' = ResponsesState /\ ResponsesState[i] # "closed"
  BY DEF ResponsesState
<1>3. Contexts!Send(i)
  BY <1>1, <1>2 DEF Contexts!Send
<1>4. QED
  BY <1>3 DEF Contexts!Next

(* processMessages closes the channel of a registered context. *)
LEMMA ContextsClose ==
    ASSUME Types, NEW i \in IDs, CloseResponses(i), i \in messageContexts, i \notin respClosed,
           pm # "sending", UNCHANGED <<pm, done>>
    PROVE  Contexts!Next
<1>1. SendingTo = {} /\ SendingTo' = {}
  BY DEF SendingTo
<1>2. ResponsesState' = [ResponsesState EXCEPT ![i] = "closed"] /\ ResponsesState[i] = "open"
  BY DEF ResponsesState, CloseResponses
<1>3. Contexts!Close(i)
  BY <1>1, <1>2 DEF Contexts!Close, Contexts!Set
<1>4. QED
  BY <1>3 DEF Contexts!Next

(* processMessages comes back from sendResponse. *)
LEMMA ContextsSent ==
    ASSUME SafetyInv, SendResponseReturn, UNCHANGED done
    PROVE  Contexts!Next
<1>1. /\ pm = "sending" /\ pm' = out.ret /\ out.ret # "sending" /\ out.id \in IDs
  BY RegisteredId DEF SendResponseReturn, SafetyInv, CloseInv, Types, LoopTypes, Sending
<1>2. SendingTo = {out.id} /\ SendingTo' = {}
  BY <1>1 DEF SendingTo
<1>3. \/ ResponsesState' = ResponsesState
      \/ ResponsesState' = [ResponsesState EXCEPT ![out.id] = "closed"]
  BY <1>1 DEF ResponsesState, CloseResponses, SendResponseReturn
<1>4. Contexts!Sent(out.id)
  BY <1>2, <1>3 DEF Contexts!Sent, Contexts!Set
<1>5. QED
  BY <1>1, <1>4 DEF Contexts!Next

(* Every step of Conn is a step of Responses, or none. *)
LEMMA ContextsNext ==
    ASSUME SafetyInv, UnfinishedInv, [Next]_vars
    PROVE  [Contexts!Next]_(Contexts!vars)
<1> DEFINE Step == [Contexts!Next]_(Contexts!vars)
<1> SUFFICES Step
  OBVIOUS
<1>s. ASSUME Contexts!Next PROVE Step
  BY <1>s
<1>u. ASSUME UNCHANGED <<messageContexts, respClosed, done>>, SendingTo' = SendingTo PROVE Step
  BY <1>u, ContextsStutter
<1> HIDE DEF Step
<1>i. messageContexts \subseteq IDs /\ Types /\ \A i \in messageContexts : i \notin respClosed
  BY RegisteredId DEF SafetyInv, CloseInv, ContextInv
<1> USE DEF ctxVars, pmVars
<1>1. CASE UNCHANGED <<pm, out, messageContexts, respClosed, done>>
  BY <1>1, <1>u DEF SendingTo
<1>2. CASE Start
  BY <1>2, <1>u DEF Start, SendingTo
<1>3. CASE (\E c \in Callers : SendResponse(c)) \/ SendResponseDropped
  BY Zenon, <1>3, <1>s, ContextsSent DEF SendResponse, SendResponseDropped
<1>4. ASSUME NEW id \in IDs, Cleanup(id) PROVE Step
  <2>1. /\ pm = "cleanup" /\ id \in messageContexts /\ id \notin respClosed
        /\ UNCHANGED done
        /\ \/ UNCHANGED pmVars /\ CloseResponses(id)
           \/ /\ Respond(id, "close error", TRUE, "cleanup")
              /\ UNCHANGED <<respClosed, messageContexts>>
    BY Zenon, <1>4, <1>i DEF Cleanup
  <2>2. pm # "sending"
    BY <2>1
  <2>3. CASE CloseResponses(id) /\ UNCHANGED pmVars
    BY <2>1, <2>2, <2>3, <1>i, <1>s, ContextsClose
  <2>4. CASE Respond(id, "close error", TRUE, "cleanup") /\ UNCHANGED <<respClosed, messageContexts>>
    BY <2>1, <2>2, <2>4, <1>s, ContextsSend
  <2>5. QED
    BY <2>1, <2>3, <2>4
<1>5. CASE ProcessQuit \/ CleanupDone
  BY <1>5, <1>u DEF ProcessQuit, CleanupDone, Receive, SendingTo
<1>6. CASE ProcessRequest
  <2> DEFINE i == Head(chanMessage).id
  <2>1. /\ pm = "select" /\ UNCHANGED <<pm, out, done, respClosed>>
        /\ messageContexts' = messageContexts \cup {i} /\ Receive("request")
    BY <1>6 DEF ProcessRequest, Receive
  <2>2. i \in IDs /\ i \notin messageContexts /\ i \notin respClosed
    BY <2>1, NewRequest
  <2> HIDE DEF i
  <2>3. SendingTo = {} /\ SendingTo' = {}
    BY <2>1 DEF SendingTo
  <2>4. ResponsesState[i] = "new" /\ ResponsesState' = [ResponsesState EXCEPT ![i] = "open"]
    BY <2>1, <2>2 DEF ResponsesState
  <2>5. Contexts!Register(i)
    BY <2>1, <2>3, <2>4 DEF Contexts!Register, Contexts!Set
  <2>6. QED
    BY <2>2, <2>5, <1>s DEF Contexts!Next
<1>7. CASE ProcessRequestError
  <2>1. /\ Receive("request") /\ Respond(Head(chanMessage).id, "write error", TRUE, "select")
        /\ UNCHANGED <<messageContexts, respClosed, done>>
    BY <1>7 DEF ProcessRequestError
  <2>2. pm # "sending"
    BY <2>1 DEF Receive
  <2>3. QED
    BY <2>1, <2>2, <1>s, NewRequest, ContextsSend
<1>8. ASSUME NEW i, NEW w, NEW b, NEW op, i \in messageContexts, Receive(op),
             Respond(i, w, b, "select"), UNCHANGED <<messageContexts, respClosed, done>>
      PROVE  Step
  <2>1. pm # "sending" /\ i \in IDs /\ i \notin respClosed
    BY <1>8, <1>i DEF Receive
  <2>2. QED
    BY <2>1, <1>8, <1>s, ContextsSend
<1>9. CASE ProcessResponse
  <2>1. /\ Receive("response") /\ UNCHANGED <<messageContexts, respClosed, done>>
        /\ \/ UNCHANGED pmVars
           \/ /\ Respond(Head(chanMessage).id, Head(chanMessage).what, FALSE, "select")
              /\ Head(chanMessage).id \in messageContexts
    BY Zenon, <1>9 DEF ProcessResponse
  <2>2. QED
    BY <2>1, <1>1, <1>8
<1>10. CASE ProcessTimeout
  <2>1. /\ Receive("timeout") /\ UNCHANGED <<messageContexts, respClosed, done>>
        /\ \/ UNCHANGED pmVars
           \/ /\ Respond(Head(chanMessage).id, "timeout", TRUE, "select")
              /\ Head(chanMessage).id \in messageContexts
    BY Zenon, <1>10 DEF ProcessTimeout
  <2>2. QED
    BY <2>1, <1>1, <1>8
<1>11. CASE ProcessFinish
  <2>1. /\ Receive("finish") /\ UNCHANGED <<pm, out, done>>
        /\ \/ UNCHANGED <<respClosed, messageContexts>>
           \/ /\ CloseResponses(Head(chanMessage).id)
              /\ Head(chanMessage).id \in messageContexts
    BY Zenon, <1>11 DEF ProcessFinish
  <2>2. pm # "sending"
    BY <2>1 DEF Receive
  <2>3. QED
    BY <2>1, <2>2, <1>i, <1>1, <1>s, ContextsClose
<1>12. ASSUME NEW c \in Callers, FinishMessage(c) PROVE Step
  <2>1. /\ cid[c] \notin done /\ done' = done \cup {cid[c]}
        /\ UNCHANGED <<pm, out, messageContexts, respClosed>>
    BY <1>12 DEF FinishMessage, UnfinishedInv, Unfinished
  <2>2. cid[c] \in IDs
    <3>1. cid[c] # 0
      BY <1>12 DEF FinishMessage, SafetyInv, ZeroInv, ZeroCaller, CloseLocs
    <3>2. QED
      BY <3>1, <1>i, ConnAssumption DEF ConnAssumption, Types, CallTypes, IDs
  <2>3. ResponsesState' = ResponsesState /\ SendingTo' = SendingTo
    BY <2>1 DEF ResponsesState, SendingTo
  <2>4. Contexts!Finish(cid[c])
    BY <2>1, <2>3 DEF Contexts!Finish
  <2>5. QED
    BY <2>2, <2>4, <1>s DEF Contexts!Next
<1>13. CASE \E c \in Callers : NextMessageID(c) \/ EncodeError(c) \/
        SendMessage(c) \/ CountRequest(c) \/ ReceiveClosed(c) \/ Delivered(c)
        \/ Cancelled(c) \/ FinishMessageTest(c) \/ FinishMessageCount(c) \/
        HandshakeSucceeds(c) \/ HandshakeFails(c)
  BY Zenon, <1>13, <1>1 DEF NextMessageID, EncodeError, OnlyPc, SendMessage,
     CountRequest, ReceiveClosed, Delivered, Cancelled, FinishMessageTest,
     FinishMessageCount, HandshakeSucceeds, HandshakeFails
<1>14. CASE \E p \in Procs : SendProcessMessageLock(p) \/
        SendProcessMessageSend(p) \/ CloseLock(p) \/ CloseQuit(p) \/
        CloseConfirmed(p) \/ CloseJoin(p)
  BY Zenon, <1>14, <1>1 DEF SendProcessMessageLock, SendProcessMessageSend,
     CloseLock, CloseQuit, CloseConfirmed, CloseJoin
<1>15. CASE \E r \in Readers : ReadPacket(r) \/ ReadError(r) \/
        StoreCloseErr(r) \/ TestStartingTLS(r)
  BY Zenon, <1>15, <1>1 DEF ReadPacket, ReadError, OnlyPc, StoreCloseErr,
     TestStartingTLS
<1>16. CASE \E id \in IDs : TimerFires(id) \/ TimerStops(id) \/
        ServerEntry(id) \/ ServerResult(id)
  BY Zenon, <1>16, <1>1 DEF TimerFires, OnlyPc, TimerStops, ServerEntry, ServerSends,
     ServerResult
<1>17. CASE \E c \in Callers, k \in Kinds : Call(c, k)
  BY <1>17, <1>1 DEF Call
<1>18. CASE \E t \in Timeouts : SetTimeout(t)
  BY <1>18, <1>1 DEF SetTimeout
<1>19. CASE ServerStray \/ ServerCloses
  BY Zenon, <1>19, <1>1 DEF ServerStray, ServerSends, ServerCloses
<1>20. CASE UNCHANGED vars
  BY <1>20, <1>1 DEF vars
<1>21. QED
  BY <1>2, <1>3, <1>4, <1>5, <1>6, <1>7, <1>9, <1>10, <1>11, <1>12, <1>13,
     <1>14, <1>15, <1>16, <1>17, <1>18, <1>19, <1>20
  DEF Next, CallerStep, SharedStep, ProcessMessages, ReaderStep, Server

(* The connection implements Responses, for every set of callers, every number
   of operations and every order of answers, timeouts, failed writes and
   closes: the channels of a messageContext (conn.go:56-81, 410-420, 543-628)
   are used as Go requires. *)
THEOREM ConnImplementsResponses == Spec => ImplementsResponses
<1>1. Init => Contexts!Init
  BY DEF Init, Contexts!Init, ResponsesState, SendingTo
<1>2. Init => UnfinishedInv
  <2> SUFFICES ASSUME Init PROVE UnfinishedInv
    OBVIOUS
  <2>1. done = {}
    BY DEF Init
  <2>2. QED
    BY <2>1 DEF UnfinishedInv
<1>3. SafetyInv /\ UnfinishedInv /\ [Next]_vars => [Contexts!Next]_(Contexts!vars)
  BY ContextsNext
<1>4. QED
  BY <1>1, <1>2, <1>3, UnfinishedNext, SafetyInvariant, PTL
  DEF Spec, ImplementsResponses, Contexts!Spec

=============================================================================
