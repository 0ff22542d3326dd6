-------------------------------- MODULE Conn --------------------------------
(***************************************************************************)
(* The connection of v3/conn.go: the goroutines that share one Conn, the   *)
(* channels, the mutex and the atomics they synchronise with.              *)
(*                                                                         *)
(*   callers          goroutines inside an operation of the library        *)
(*   readers          goroutines of reader(): Start begins one, and every  *)
(*                    successful StartTLS another                          *)
(*   processMessages  the goroutine that owns messageContexts              *)
(*   timers           one goroutine per request sent with a timeout; the   *)
(*                    timer of a request is identified by its message id   *)
(*   the server       and the network, external                            *)
(*                                                                         *)
(* pc[p] is the statement a goroutine is about to execute.  A packet is    *)
(* its message id and what it says: an intermediate answer ("entry"), a    *)
(* final one with a success ("ok") or another result code ("fail"), a      *)
(* packet without children ("bad") or one whose message id is not an       *)
(* integer ("noid").                                                       *)
(***************************************************************************)
EXTENDS Integers, Sequences, FiniteSets

CONSTANTS
    Callers,     \* goroutines that use the connection
    Readers,     \* reader goroutines, as many as a behaviour may start
    None,        \* nobody holds messageMutex
    Kinds,       \* operations the callers perform, a subset of AllKinds
    Timeouts,    \* values of requestTimeout: TRUE is > 0, FALSE is 0
    Replies,     \* answers the server gives, a subset of {"entry", "ok", "fail"}
    Strays,      \* unrequested packets, a subset of {"entry", "bad", "noid"}
    ServerMayClose, \* whether the server may disconnect
    ChanCap,     \* capacity of chanMessage (10 in NewConn)
    MaxOps,      \* bound: operations begun, hence message ids used
    MaxExtra     \* bound: entries and stray packets the server sends

AllKinds == {"request", "async", "starttls", "unbind", "close"}

IDs == 1..MaxOps

Procs == Callers \cup Readers \cup IDs

ASSUME ConnAssumption ==
    /\ Kinds \subseteq AllKinds
    /\ Timeouts \subseteq BOOLEAN /\ Timeouts # {}
    /\ Replies \subseteq {"entry", "ok", "fail"}
    /\ Strays \subseteq {"entry", "bad", "noid"}
    /\ ServerMayClose \in BOOLEAN
    /\ ChanCap \in Nat \ {0} /\ MaxOps \in Nat /\ MaxExtra \in Nat
    /\ IsFiniteSet(Callers)
    /\ Callers \cap Readers = {} /\ None \notin Callers \cup Readers
    /\ (Callers \cup Readers \cup {None}) \cap (0..MaxOps) = {}

VARIABLES
    pc,                  \* where each goroutine but processMessages is
    kind,                \* the operation a caller performs
    cid,                 \* the message id of a caller's messageContext
    ops,                 \* operations begun (bound)
    requestTimeout,      \* requestTimeout > 0
    isTLS,
    closing,
    closeErr,            \* an error is stored in closeErr
    err,                 \* the last error recorded by setError
    isStartingTLS,
    outstandingRequests,
    messageMutex,        \* the goroutine holding it, or None
    chanMessage,         \* contents of the buffered channel
    chanClosed,          \* chanMessage has been closed
    wgClose,
    connUp,              \* l.conn has not been closed by Close
    messageID,           \* next id processMessages hands out
    messageContexts,     \* ids registered with processMessages
    done,                \* ids whose done channel is closed
    respClosed,          \* ids whose responses channel is closed
    pm,                  \* where processMessages is
    out,                 \* the sendResponse it is blocked in
    packet, cleanstop,   \* locals of each reader
    net,                 \* packets on their way to the client
    srvUp,               \* the server has not disconnected
    srvPending,          \* requests the server may still answer
    extra                \* entries and stray packets sent (bound)

flagVars == <<requestTimeout, isTLS, closing, closeErr, err>>
tlsVars == <<isStartingTLS, outstandingRequests>>
closeVars == <<chanClosed, wgClose, connUp>>
chanVars == <<chanMessage, closeVars>>
ctxVars == <<messageID, messageContexts, done, respClosed>>
pmVars  == <<pm, out>>
callVars == <<kind, cid, ops>>
readVars == <<packet, cleanstop>>
netVars == <<net, srvUp, srvPending, extra>>
vars == <<pc, messageMutex, flagVars, tlsVars, chanVars, ctxVars, pmVars,
          callVars, readVars, netVars>>

NoOut == [id |-> 0, what |-> "none", close |-> FALSE, ret |-> "select",
          timed |-> FALSE]
NoPacket == [id |-> 0, what |-> "none"]
QuitMessage == [op |-> "quit", id |-> 0, what |-> "none"]

Init ==
    /\ pc = [p \in Procs |-> IF p \in Callers THEN "idle" ELSE "off"]
    /\ kind = [c \in Callers |-> "close"]
    /\ cid = [c \in Callers |-> 0]
    /\ ops = 0
    /\ requestTimeout \in Timeouts
    /\ isTLS = FALSE /\ closing = FALSE /\ closeErr = FALSE /\ err = "nil"
    /\ isStartingTLS = FALSE /\ outstandingRequests = 0
    /\ messageMutex = None
    /\ chanMessage = <<>> /\ chanClosed = FALSE /\ wgClose = 1
    /\ connUp = TRUE
    /\ messageID = 1 /\ messageContexts = {}
    /\ done = {} /\ respClosed = {}
    /\ pm = "off" /\ out = NoOut
    /\ packet = [r \in Readers |-> NoPacket]
    /\ cleanstop = [r \in Readers |-> FALSE]
    /\ net = <<>> /\ srvUp = TRUE /\ srvPending = {} /\ extra = 0

Goto(p, l) == pc' = [pc EXCEPT ![p] = l]

(* The step changes nothing but the pc. *)
OnlyPc == UNCHANGED <<messageMutex, flagVars, tlsVars, chanVars, ctxVars,
                      pmVars, callVars, readVars, netVars>>

-----------------------------------------------------------------------------
(* Start and SetTimeout *)

Start ==
    /\ pm = "off"
    /\ pm' = "select"
    /\ \E r \in Readers : pc[r] = "off" /\ Goto(r, "read")
    /\ UNCHANGED <<messageMutex, flagVars, tlsVars, chanVars, ctxVars, out,
                   callVars, readVars, netVars>>

SetTimeout(t) ==
    /\ requestTimeout # t
    /\ requestTimeout' = t
    /\ UNCHANGED <<pc, messageMutex, isTLS, closing, closeErr, err, tlsVars,
                   chanVars, ctxVars, pmVars, callVars, readVars,
                   netVars>>

-----------------------------------------------------------------------------
(* A caller enters an operation.  "request" is every synchronous operation
   (doRequest, readPacket, finishMessage), "async" the worker of SearchAsync. *)

(* The operation returns before it asks for a message id. *)
ReturnsAtOnce(k) ==
    \/ k = "starttls" /\ isTLS
    \/ k \in {"unbind", "async"} /\ closing

Call(c, k) ==
    /\ pc[c] = "idle"
    /\ ops < MaxOps
    /\ ops' = ops + 1
    /\ kind' = [kind EXCEPT ![c] = k]
    /\ Goto(c, IF k = "close" THEN "close.lock"
               ELSE IF ReturnsAtOnce(k) THEN "idle" ELSE "nextid")
    /\ UNCHANGED <<messageMutex, flagVars, tlsVars, chanVars, ctxVars,
                   pmVars, cid, readVars, netVars>>

(* nextMessageID: a rendezvous with the select of processMessages, or 0 once
   chanMessageID is closed, which processMessages does when it exits. *)
NextMessageID(c) ==
    /\ pc[c] = "nextid"
    /\ \/ /\ pm = "select" /\ messageID \in IDs
          /\ cid' = [cid EXCEPT ![c] = messageID]
          /\ messageID' = messageID + 1
       \/ /\ pm = "exited"
          /\ cid' = [cid EXCEPT ![c] = 0]
          /\ UNCHANGED messageID
    /\ Goto(c, "begin")
    /\ UNCHANGED <<messageMutex, flagVars, tlsVars, chanVars,
                   messageContexts, done, respClosed, pmVars, kind,
                   ops, readVars, netVars>>

(* appendTo fails: the id is used up and nothing is sent. *)
EncodeError(c) ==
    /\ pc[c] = "begin"
    /\ kind[c] \in {"request", "async"}
    /\ Goto(c, "idle")
    /\ OnlyPc

(* sendMessageWithFlags, the unlocked test of IsClosing. *)
SendMessage(c) ==
    /\ pc[c] = "begin"
    /\ Goto(c, IF closing THEN "idle" ELSE "flags")
    /\ OnlyPc

(* Faulty: the request is not counted. *)
CountRequestUncounted(c) ==
    /\ pc[c] = "flags" /\ messageMutex = None
    /\ Goto(c, "lock")
    /\ isStartingTLS' = (kind[c] = "starttls") /\ UNCHANGED outstandingRequests
    /\ UNCHANGED <<messageMutex, flagVars, chanVars, ctxVars, pmVars,
                   callVars, readVars, netVars>>

(* Faulty: requests are let through while StartTLS is under way. *)
CountRequestUnfenced(c) ==
    /\ pc[c] = "flags" /\ messageMutex = None
    /\ Goto(c, "lock")
    /\ isStartingTLS' = (isStartingTLS \/ kind[c] = "starttls")
    /\ outstandingRequests' = outstandingRequests + 1
    /\ UNCHANGED <<messageMutex, flagVars, chanVars, ctxVars, pmVars,
                   callVars, readVars, netVars>>

(* sendMessageWithFlags, its critical section. *)
CountRequest(c) ==
    /\ pc[c] = "flags"
    /\ messageMutex = None
    /\ IF isStartingTLS \/ (kind[c] = "starttls" /\ outstandingRequests # 0)
         THEN Goto(c, "idle") /\ UNCHANGED tlsVars
         ELSE /\ Goto(c, "lock")
              /\ isStartingTLS' = (kind[c] = "starttls")
              /\ outstandingRequests' = outstandingRequests + 1
    /\ UNCHANGED <<messageMutex, flagVars, chanVars, ctxVars, pmVars,
                   callVars, readVars, netVars>>

-----------------------------------------------------------------------------
(* sendProcessMessage, called by callers (a request, or a finish once done is
   closed), by the reader (a response) and by the timers (a timeout). *)

MessageOf(p) ==
    IF p \in Readers THEN [op |-> "response", id |-> packet[p].id,
                           what |-> packet[p].what]
    ELSE IF p \in IDs THEN [op |-> "timeout", id |-> p, what |-> "none"]
    ELSE IF cid[p] \in done THEN [op |-> "finish", id |-> cid[p], what |-> "none"]
    ELSE [op |-> "request", id |-> cid[p], what |-> kind[p]]

AfterFinish(c) == IF kind[c] = "unbind" THEN "close.lock" ELSE "idle"

(* Faulty: Unbind closes the connection without finishing its message. *)
AfterSendUnfinished(p, ok) ==
    IF p \in Readers THEN IF cleanstop[p] THEN "stopped"
                          ELSE IF ok THEN "read" ELSE "close.lock"
    ELSE IF p \in IDs THEN "exited"
    ELSE IF cid[p] \in done THEN AfterFinish(p)
    ELSE IF ~ok THEN "idle"
    ELSE IF kind[p] = "unbind" THEN "close.lock" ELSE "wait"

AfterSend(p, ok) ==
    IF p \in Readers THEN IF cleanstop[p] THEN "stopped"
                          ELSE IF ok THEN "read" ELSE "close.lock"
    ELSE IF p \in IDs THEN "exited"
    ELSE IF cid[p] \in done THEN AfterFinish(p)
    ELSE IF ~ok THEN "idle"
    ELSE IF kind[p] = "unbind" THEN "finish" ELSE "wait"

(* Faulty: sendProcessMessage without its test of IsClosing. *)
SendProcessMessageUnchecked(p) ==
    /\ pc[p] = "lock" /\ messageMutex = None
    /\ Goto(p, "send") /\ messageMutex' = p
    /\ UNCHANGED <<flagVars, tlsVars, chanVars, ctxVars, pmVars, callVars,
                   readVars, netVars>>

SendProcessMessageLock(p) ==
    /\ pc[p] = "lock"
    /\ messageMutex = None
    /\ IF closing THEN Goto(p, AfterSend(p, FALSE)) /\ UNCHANGED messageMutex
                  ELSE Goto(p, "send") /\ messageMutex' = p
    /\ UNCHANGED <<flagVars, tlsVars, chanVars, ctxVars, pmVars, callVars,
                   readVars, netVars>>

SendProcessMessageSend(p) ==
    /\ pc[p] = "send"
    /\ Len(chanMessage) < ChanCap
    /\ chanMessage' = Append(chanMessage, MessageOf(p))
    /\ messageMutex' = None
    /\ Goto(p, AfterSend(p, TRUE))
    /\ UNCHANGED <<flagVars, tlsVars, closeVars, ctxVars, pmVars, callVars,
                   readVars, netVars>>

-----------------------------------------------------------------------------
(* The operation reads its responses channel and finishes its message. *)

(* Where a caller goes when it has received an answer: a search loops on
   entries unless it gives up early, StartTLS goes on to the handshake, and
   the worker of SearchAsync first hands the result to its consumer. *)
AfterReceive(c, what) ==
    CASE kind[c] = "starttls" -> {IF what = "ok" THEN "handshake" ELSE "finish"}
      [] kind[c] = "async" -> IF what = "entry" THEN {"deliver", "deliver.last"}
                              ELSE IF what = "ok" THEN {"finish", "deliver.last"}
                              ELSE {"deliver.last"}
      [] OTHER -> IF what = "entry" THEN {"wait", "finish"} ELSE {"finish"}

ReceiveClosed(c) ==
    /\ pc[c] = "wait"
    /\ cid[c] \in respClosed
    /\ Goto(c, IF kind[c] = "async" THEN "deliver.last" ELSE "finish")
    /\ OnlyPc

(* searchResponse.send returns: the consumer took the result, or its context
   is cancelled and the worker stops. *)
Delivered(c) ==
    /\ \/ pc[c] = "deliver" /\ \E l \in {"wait", "finish"} : Goto(c, l)
       \/ pc[c] = "deliver.last" /\ Goto(c, "finish")
    /\ OnlyPc

(* The worker of SearchAsync sees its context cancelled while it waits. *)
Cancelled(c) ==
    /\ pc[c] = "wait"
    /\ kind[c] = "async"
    /\ Goto(c, "finish")
    /\ OnlyPc

FinishMessage(c) ==
    /\ pc[c] = "finish"
    /\ done' = done \cup {cid[c]}
    /\ Goto(c, "finish.test")
    /\ UNCHANGED <<messageMutex, flagVars, tlsVars, chanVars, messageID,
                   messageContexts, respClosed, pmVars, callVars,
                   readVars, netVars>>

FinishMessageTest(c) ==
    /\ pc[c] = "finish.test"
    /\ Goto(c, IF closing THEN AfterFinish(c) ELSE "finish.count")
    /\ OnlyPc

FinishMessageCount(c) ==
    /\ pc[c] = "finish.count"
    /\ messageMutex = None
    /\ outstandingRequests' = outstandingRequests - 1
    /\ isStartingTLS' = FALSE
    /\ Goto(c, "lock")
    /\ UNCHANGED <<messageMutex, flagVars, chanVars, ctxVars, pmVars,
                   callVars, readVars, netVars>>

-----------------------------------------------------------------------------
(* Close, called by a caller, by Unbind and StartTLS, and by the reader. *)

AfterClose(p) ==
    IF p \in Readers THEN "exited"
    ELSE IF kind[p] = "starttls" THEN "finish" ELSE "idle"

(* Faulty: Close ignores the result of setClosing. *)
CloseLockAgain(p) ==
    /\ pc[p] = "close.lock" /\ messageMutex = None
    /\ messageMutex' = p /\ closing' = TRUE
    /\ Goto(p, "close.quit")
    /\ UNCHANGED <<requestTimeout, isTLS, closeErr, err, tlsVars, chanVars,
                   ctxVars, pmVars, callVars, readVars, netVars>>

CloseLock(p) ==
    /\ pc[p] = "close.lock"
    /\ messageMutex = None
    /\ messageMutex' = p
    /\ closing' = TRUE
    /\ Goto(p, IF closing THEN "close.join" ELSE "close.quit")
    /\ UNCHANGED <<requestTimeout, isTLS, closeErr, err, tlsVars, chanVars,
                   ctxVars, pmVars, callVars, readVars, netVars>>

CloseQuit(p) ==
    /\ pc[p] = "close.quit"
    /\ Len(chanMessage) < ChanCap
    /\ chanMessage' = Append(chanMessage, QuitMessage)
    /\ Goto(p, IF requestTimeout THEN "close.timed" ELSE "close.wait")
    /\ UNCHANGED <<messageMutex, flagVars, tlsVars, closeVars, ctxVars,
                   pmVars, callVars, readVars, netVars>>

(* chanConfirm is closed when processMessages exits. *)
CloseConfirmed(p) ==
    /\ \/ pc[p] \in {"close.wait", "close.timed"} /\ pm = "exited"
       \/ pc[p] = "close.timed"
    /\ chanClosed' = TRUE
    /\ connUp' = FALSE
    /\ wgClose' = wgClose - 1
    /\ Goto(p, "close.join")
    /\ UNCHANGED <<messageMutex, flagVars, tlsVars, chanMessage, ctxVars,
                   pmVars, callVars, readVars, netVars>>

CloseJoin(p) ==
    /\ pc[p] = "close.join"
    /\ wgClose = 0
    /\ messageMutex' = None
    /\ Goto(p, AfterClose(p))
    /\ UNCHANGED <<flagVars, tlsVars, chanVars, ctxVars, pmVars, callVars,
                   readVars, netVars>>

-----------------------------------------------------------------------------
(* processMessages *)

(* Its select receives a message of this kind. *)
Receive(op) ==
    /\ pm = "select"
    /\ chanMessage # <<>>
    /\ Head(chanMessage).op = op
    /\ chanMessage' = Tail(chanMessage)

Respond(id, what, close, ret) ==
    /\ pm' = "sending"
    /\ out' = [id |-> id, what |-> what, close |-> close, ret |-> ret,
               timed |-> requestTimeout]

CloseResponses(id) ==
    /\ respClosed' = respClosed \cup {id}
    /\ messageContexts' = messageContexts \ {id}

ProcessQuit ==
    /\ Receive("quit")
    /\ pm' = "cleanup"
    /\ UNCHANGED <<pc, messageMutex, flagVars, tlsVars, closeVars, ctxVars,
                   out, callVars, readVars, netVars>>

(* The request is written and registered, and its timer started. *)
ProcessRequest ==
    LET m == Head(chanMessage) IN
    /\ Receive("request")
    /\ connUp
    /\ messageContexts' = messageContexts \cup {m.id}
    /\ pc' = IF requestTimeout THEN [pc EXCEPT ![m.id] = "armed"] ELSE pc
    /\ srvPending' = IF srvUp /\ m.what # "unbind" THEN srvPending \cup {m.id}
                                                   ELSE srvPending
    /\ UNCHANGED <<messageMutex, flagVars, tlsVars, closeVars, messageID,
                   done, respClosed, pmVars, callVars, readVars, net,
                   srvUp, extra>>

(* conn.Write fails: the request is answered and never registered. *)
ProcessRequestError ==
    /\ Receive("request")
    /\ ~connUp \/ ~srvUp
    /\ Respond(Head(chanMessage).id, "write error", TRUE, "select")
    /\ UNCHANGED <<pc, messageMutex, flagVars, tlsVars, closeVars, ctxVars,
                   callVars, readVars, netVars>>

(* Faulty: setError takes messageMutex instead of errMutex. *)
ProcessResponseMutex ==
    LET m == Head(chanMessage) IN
    /\ Receive("response")
    /\ IF m.id \in messageContexts
         THEN Respond(m.id, m.what, FALSE, "select") /\ UNCHANGED err
         ELSE messageMutex = None /\ err' = "unexpected message" /\ UNCHANGED pmVars
    /\ UNCHANGED <<pc, messageMutex, requestTimeout, isTLS, closing,
                   closeErr, tlsVars, closeVars, ctxVars, callVars,
                   readVars, netVars>>

ProcessResponse ==
    LET m == Head(chanMessage) IN
    /\ Receive("response")
    /\ IF m.id \in messageContexts
         THEN Respond(m.id, m.what, FALSE, "select") /\ UNCHANGED err
         ELSE err' = "unexpected message" /\ UNCHANGED pmVars
    /\ UNCHANGED <<pc, messageMutex, requestTimeout, isTLS, closing,
                   closeErr, tlsVars, closeVars, ctxVars, callVars,
                   readVars, netVars>>

(* Faulty: the timeout of a request is not passed on to it. *)
ProcessTimeoutIgnored ==
    /\ Receive("timeout")
    /\ UNCHANGED <<pc, messageMutex, flagVars, tlsVars, closeVars, ctxVars,
                   pmVars, callVars, readVars, netVars>>

ProcessTimeout ==
    LET m == Head(chanMessage) IN
    /\ Receive("timeout")
    /\ IF m.id \in messageContexts
         THEN Respond(m.id, "timeout", TRUE, "select")
         ELSE UNCHANGED pmVars
    /\ UNCHANGED <<pc, messageMutex, flagVars, tlsVars, closeVars, ctxVars,
                   callVars, readVars, netVars>>

(* Faulty: the channel is closed and the context stays in the map. *)
ProcessFinishKept ==
    LET m == Head(chanMessage) IN
    /\ Receive("finish")
    /\ respClosed' = IF m.id \in messageContexts THEN respClosed \cup {m.id}
                                                 ELSE respClosed
    /\ UNCHANGED <<pc, messageMutex, flagVars, tlsVars, closeVars, messageID,
                   messageContexts, done, pmVars, callVars, readVars,
                   netVars>>

(* Faulty: the context is taken from the map and its channel stays open. *)
ProcessFinishUnclosed ==
    LET m == Head(chanMessage) IN
    /\ Receive("finish")
    /\ messageContexts' = messageContexts \ {m.id}
    /\ UNCHANGED <<pc, messageMutex, flagVars, tlsVars, closeVars, messageID,
                   respClosed, done, pmVars, callVars, readVars, netVars>>

ProcessFinish ==
    LET m == Head(chanMessage) IN
    /\ Receive("finish")
    /\ IF m.id \in messageContexts
         THEN CloseResponses(m.id)
         ELSE UNCHANGED <<respClosed, messageContexts>>
    /\ UNCHANGED <<pc, messageMutex, flagVars, tlsVars, closeVars, messageID,
                   done, pmVars, callVars, readVars, netVars>>

(* The deferred loop over messageContexts, in any order. *)
Cleanup(id) ==
    /\ pm = "cleanup"
    /\ id \in messageContexts
    /\ IF closing /\ closeErr
         THEN Respond(id, "close error", TRUE, "cleanup")
              /\ UNCHANGED <<respClosed, messageContexts>>
         ELSE CloseResponses(id) /\ UNCHANGED pmVars
    /\ UNCHANGED <<pc, messageMutex, flagVars, tlsVars, chanVars, messageID,
                   done, callVars, readVars, netVars>>

(* Faulty: processMessages exits without closing the pending contexts. *)
CleanupSkipped ==
    /\ pm = "cleanup"
    /\ pm' = "exited"
    /\ UNCHANGED <<pc, messageMutex, flagVars, tlsVars, chanVars, ctxVars,
                   out, callVars, readVars, netVars>>

(* chanMessageID and chanConfirm are closed. *)
CleanupDone ==
    /\ pm = "cleanup"
    /\ messageContexts = {}
    /\ pm' = "exited"
    /\ UNCHANGED <<pc, messageMutex, flagVars, tlsVars, chanVars, ctxVars,
                   out, callVars, readVars, netVars>>

(* sendResponse returns; where the code then closes responses and forgets the
   context, so does this step. *)
SendResponseReturn ==
    /\ pm = "sending"
    /\ pm' = out.ret
    /\ out' = NoOut
    /\ IF out.close THEN CloseResponses(out.id)
                    ELSE UNCHANGED <<respClosed, messageContexts>>

SendResponse(c) ==
    /\ pc[c] = "wait"
    /\ cid[c] = out.id
    /\ SendResponseReturn
    /\ \E l \in AfterReceive(c, out.what) : Goto(c, l)
    /\ UNCHANGED <<messageMutex, flagVars, tlsVars, chanVars, messageID,
                   done, callVars, readVars, netVars>>

SendResponseDropped ==
    /\ out.id \in done \/ out.timed
    /\ SendResponseReturn
    /\ UNCHANGED <<pc, messageMutex, flagVars, tlsVars, chanVars, messageID,
                   done, callVars, readVars, netVars>>

-----------------------------------------------------------------------------
(* The timer goroutine of a request *)

TimerFires(id) ==
    /\ pc[id] = "armed"
    /\ Goto(id, "lock")
    /\ OnlyPc

TimerStops(id) ==
    /\ pc[id] = "armed"
    /\ id \in done
    /\ Goto(id, "exited")
    /\ OnlyPc

-----------------------------------------------------------------------------
(* reader *)

(* A packet without children is skipped. *)
ReadPacket(r) ==
    /\ pc[r] = "read"
    /\ net # <<>>
    /\ net' = Tail(net)
    /\ IF Head(net).what = "bad"
         THEN UNCHANGED <<pc, packet>>
         ELSE packet' = [packet EXCEPT ![r] = Head(net)] /\ Goto(r, "test")
    /\ UNCHANGED <<messageMutex, flagVars, tlsVars, chanVars, ctxVars, pmVars,
                   callVars, cleanstop, srvUp, srvPending, extra>>

ReadError(r) ==
    /\ pc[r] = "read"
    /\ ~connUp \/ (~srvUp /\ net = <<>>)
    /\ Goto(r, IF closing THEN "close.lock" ELSE "store")
    /\ OnlyPc

StoreCloseErr(r) ==
    /\ pc[r] = "store"
    /\ closeErr' = TRUE
    /\ Goto(r, "close.lock")
    /\ UNCHANGED <<messageMutex, requestTimeout, isTLS, closing, err, tlsVars,
                   chanVars, ctxVars, pmVars, callVars, readVars, netVars>>

(* Faulty: the reader goes on reading during StartTLS. *)
TestStartingTLSIgnored(r) ==
    /\ pc[r] = "test" /\ messageMutex = None
    /\ Goto(r, "lock")
    /\ OnlyPc

(* The critical section that decides cleanstop, then the type assertion on
   the message id, whose panic the deferred function records. *)
TestStartingTLS(r) ==
    /\ pc[r] = "test"
    /\ messageMutex = None
    /\ cleanstop' = [cleanstop EXCEPT ![r] = isStartingTLS]
    /\ IF packet[r].what = "noid"
         THEN /\ err' = "panic in reader"
              /\ Goto(r, IF isStartingTLS THEN "stopped" ELSE "close.lock")
         ELSE UNCHANGED err /\ Goto(r, "lock")
    /\ UNCHANGED <<messageMutex, requestTimeout, isTLS, closing, closeErr,
                   tlsVars, chanVars, ctxVars, pmVars, callVars, packet, netVars>>

-----------------------------------------------------------------------------
(* StartTLS after a successful answer *)

(* The connection is replaced and a new reader started; the deferred
   finishMessage comes after that.  Packets still unread were in the buffer of
   the stopped reader and are lost with it (read by the handshake instead,
   they would have made it fail). *)
HandshakeSucceeds(c) ==
    /\ pc[c] = "handshake"
    /\ connUp /\ srvUp
    /\ isTLS' = TRUE
    /\ net' = <<>>
    /\ \E r \in Readers :
          pc[r] = "off" /\ pc' = [pc EXCEPT ![c] = "finish", ![r] = "read"]
    /\ UNCHANGED <<messageMutex, requestTimeout, closing, closeErr, err, tlsVars,
                   chanVars, ctxVars, pmVars, callVars, readVars, srvUp,
                   srvPending, extra>>

HandshakeFails(c) ==
    /\ pc[c] = "handshake"
    /\ Goto(c, "close.lock")
    /\ OnlyPc

-----------------------------------------------------------------------------
(* The server and the network (external): answers arrive in order. *)

ServerSends(id, what) ==
    /\ srvUp /\ connUp
    /\ net' = Append(net, [id |-> id, what |-> what])
    /\ UNCHANGED <<pc, messageMutex, flagVars, tlsVars, chanVars, ctxVars,
                   pmVars, callVars, readVars, srvUp>>

ServerEntry(id) ==
    /\ "entry" \in Replies /\ extra < MaxExtra /\ id \in srvPending
    /\ ServerSends(id, "entry")
    /\ extra' = extra + 1
    /\ UNCHANGED srvPending

ServerResult(id) ==
    /\ id \in srvPending
    /\ \E what \in Replies \ {"entry"} : ServerSends(id, what)
    /\ srvPending' = srvPending \ {id}
    /\ UNCHANGED extra

ServerStray ==
    /\ extra < MaxExtra
    /\ \E what \in Strays : ServerSends(0, what)
    /\ extra' = extra + 1
    /\ UNCHANGED srvPending

ServerCloses ==
    /\ ServerMayClose
    /\ srvUp
    /\ srvUp' = FALSE
    /\ UNCHANGED <<pc, messageMutex, flagVars, tlsVars, chanVars, ctxVars,
                   pmVars, callVars, readVars, net, srvPending, extra>>

-----------------------------------------------------------------------------
CallerStep(c) ==
    \/ \E k \in Kinds : Call(c, k)
    \/ NextMessageID(c) \/ EncodeError(c) \/ SendMessage(c) \/ CountRequest(c)
    \/ ReceiveClosed(c) \/ Delivered(c) \/ Cancelled(c)
    \/ FinishMessage(c) \/ FinishMessageTest(c) \/ FinishMessageCount(c)
    \/ SendResponse(c)
    \/ HandshakeSucceeds(c) \/ HandshakeFails(c)

SharedStep(p) ==
    \/ SendProcessMessageLock(p) \/ SendProcessMessageSend(p)
    \/ CloseLock(p) \/ CloseQuit(p) \/ CloseConfirmed(p) \/ CloseJoin(p)

ProcessMessages ==
    \/ ProcessQuit \/ ProcessRequest \/ ProcessRequestError
    \/ ProcessResponse \/ ProcessTimeout \/ ProcessFinish
    \/ \E id \in IDs : Cleanup(id)
    \/ CleanupDone \/ SendResponseDropped

ReaderStep(r) ==
    ReadPacket(r) \/ ReadError(r) \/ StoreCloseErr(r) \/ TestStartingTLS(r)

Server ==
    \/ \E id \in IDs : ServerEntry(id) \/ ServerResult(id)
    \/ ServerStray \/ ServerCloses

Next ==
    \/ Start
    \/ \E t \in Timeouts : SetTimeout(t)
    \/ \E c \in Callers : CallerStep(c)
    \/ \E p \in Procs : SharedStep(p)
    \/ \E id \in IDs : TimerFires(id) \/ TimerStops(id)
    \/ \E r \in Readers : ReaderStep(r)
    \/ ProcessMessages \/ Server

Spec == Init /\ [][Next]_vars

(* Goroutines that can run do run; the consumer of an asynchronous search
   takes its results or cancels; the server answers the requests it has got. *)
CallerProgress(c) ==
    \/ NextMessageID(c) \/ SendMessage(c) \/ CountRequest(c)
    \/ ReceiveClosed(c) \/ Delivered(c) \/ SendResponse(c)
    \/ FinishMessage(c) \/ FinishMessageTest(c) \/ FinishMessageCount(c)
    \/ HandshakeSucceeds(c) \/ HandshakeFails(c)

ClientFairness ==
    /\ WF_vars(Start)
    /\ \A c \in Callers : WF_vars(CallerProgress(c))
    /\ \A p \in Procs : WF_vars(SharedStep(p))
    /\ \A id \in IDs : WF_vars(TimerFires(id) \/ TimerStops(id))
    /\ WF_vars(ProcessMessages)
    /\ \A r \in Readers : WF_vars(ReaderStep(r))

ServerFairness == \A id \in IDs : WF_vars(ServerResult(id))

FairSpec == Spec /\ ClientFairness /\ ServerFairness

(* A server that may ignore requests: only the client's goroutines are fair. *)
ClientFairSpec == Spec /\ ClientFairness

-----------------------------------------------------------------------------
(* Properties *)

Whats == {"none", "entry", "ok", "fail", "bad", "noid", "write error",
          "timeout", "close error"} \cup AllKinds

Message == [op : {"quit", "request", "response", "finish", "timeout"},
            id : 0..MaxOps, what : Whats]

Packet == [id : 0..MaxOps, what : Whats]

Sending == [id : 0..MaxOps, what : Whats, close : BOOLEAN,
            ret : {"select", "cleanup"}, timed : BOOLEAN]

CloseLocs == {"close.lock", "close.quit", "close.wait", "close.timed", "close.join"}
CallerLocs == {"idle", "nextid", "begin", "flags", "lock", "send", "wait",
               "deliver", "deliver.last", "handshake", "finish", "finish.test",
               "finish.count"} \cup CloseLocs
ReaderLocs == {"off", "read", "store", "test", "lock", "send", "stopped",
               "exited"} \cup CloseLocs
TimerLocs == {"off", "armed", "lock", "send", "exited"}

(* The variables of the model have the types of the fields of Conn. *)
TypeOK ==
    /\ pc \in [Procs -> CallerLocs \cup ReaderLocs \cup TimerLocs]
    /\ \A c \in Callers : pc[c] \in CallerLocs
    /\ \A r \in Readers : pc[r] \in ReaderLocs
    /\ \A id \in IDs : pc[id] \in TimerLocs
    /\ kind \in [Callers -> AllKinds]
    /\ cid \in [Callers -> 0..MaxOps]
    /\ ops \in 0..MaxOps
    /\ requestTimeout \in BOOLEAN /\ isTLS \in BOOLEAN /\ closing \in BOOLEAN
    /\ closeErr \in BOOLEAN
    /\ err \in {"nil", "unexpected message", "panic in reader"}
    /\ isStartingTLS \in BOOLEAN /\ outstandingRequests \in Nat
    /\ messageMutex \in Procs \cup {None}
    /\ chanMessage \in Seq(Message) /\ Len(chanMessage) <= ChanCap
    /\ chanClosed \in BOOLEAN /\ wgClose \in {0, 1} /\ connUp \in BOOLEAN
    /\ messageID \in 1..(MaxOps + 1)
    /\ messageContexts \subseteq IDs /\ done \subseteq IDs
    /\ respClosed \subseteq IDs
    /\ pm \in {"off", "select", "sending", "cleanup", "exited"}
    /\ out \in Sending
    /\ packet \in [Readers -> Packet] /\ cleanstop \in [Readers -> BOOLEAN]
    /\ net \in Seq(Packet)
    /\ srvUp \in BOOLEAN /\ srvPending \subseteq IDs /\ extra \in 0..MaxExtra

(* No goroutine sends on chanMessage after Close has closed it, Close closes
   it once, and processMessages never receives the nil of the closed and
   drained channel: MessageQuit is always ahead of the close. *)
ChanMessageSafe ==
    /\ \A p \in Procs : pc[p] = "send" => ~chanClosed
    /\ \A p \in Procs : pc[p] \in {"close.quit", "close.wait", "close.timed"}
                            => ~chanClosed /\ wgClose = 1
    /\ pm = "select" /\ chanMessage = <<>> => ~chanClosed

(* processMessages never sends on a responses channel it has closed and never
   closes one twice, whichever of MessageFinish, MessageTimeout, a failed
   write and the final cleanup come first. *)
ResponsesSafe ==
    /\ messageContexts \cap respClosed = {}
    /\ pm = "sending" => out.id \notin respClosed
    /\ \A i \in DOMAIN chanMessage :
          chanMessage[i].op = "request" => chanMessage[i].id \notin respClosed

(* Once processMessages has exited, every operation still reading its
   responses channel finds it closed: no request is left behind in the queue
   or in the map when Close, a disconnect or a failed read ends the loop. *)
NoOrphan ==
    pm = "exited" => \A c \in Callers : pc[c] = "wait" => cid[c] \in respClosed

(* The callers between outstandingRequests++ and outstandingRequests--. *)
Outstanding(c) ==
    \/ pc[c] \in {"wait", "deliver", "deliver.last", "handshake", "finish",
                  "finish.test", "finish.count"}
    \/ pc[c] \in {"lock", "send"} /\ cid[c] \notin done
    \/ pc[c] \in CloseLocs /\ kind[c] = "starttls"

(* outstandingRequests is the number of unfinished requests until the
   connection closes, and from then on at least that, so the unsigned counter
   never wraps below zero and StartTLS is refused exactly when it must be. *)
OutstandingExact ==
    LET n == Cardinality({c \in Callers : Outstanding(c)}) IN
    /\ outstandingRequests >= n
    /\ ~closing => outstandingRequests = n

(* While isStartingTLS is set the StartTLS request is the only one under way,
   so that no finishMessage of another operation can clear the flag. *)
StartTLSAlone ==
    isStartingTLS =>
        \A c, d \in Callers : Outstanding(c) /\ Outstanding(d)
                                => c = d /\ kind[c] = "starttls"

(* The TLS handshake has the connection to itself: every reader that was
   started has stopped and processMessages has no request to write. *)
HandshakeAlone ==
    (\E c \in Callers : pc[c] = "handshake") =>
        /\ \A r \in Readers : pc[r] \in {"off", "stopped"}
        /\ \A i \in DOMAIN chanMessage : chanMessage[i].op # "request"

(* Every call of the library returns: it is not left waiting by the other
   callers, the readers, the timers or processMessages. *)
CallsReturn == \A c \in Callers : pc[c] # "idle" ~> pc[c] = "idle"

(* Without timeouts that needs a server that answers what it is asked or
   disconnects: then every request, Unbind and Close returns. *)
CallsReturnAnswered == ServerFairness => CallsReturn

(* Close returns whatever the server does and whatever the other callers,
   the reader and the timers are doing with messageMutex and chanMessage. *)
CloseReturns ==
    \A p \in Callers \cup Readers : pc[p] \in CloseLocs ~> pc[p] \notin CloseLocs
=============================================================================
