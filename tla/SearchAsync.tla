---------------------------- MODULE SearchAsync ----------------------------
(***************************************************************************)
(* An asynchronous search (v3/response.go): the worker goroutine begun by  *)
(* start, the result channel ch, the consumer calling Next, and the        *)
(* context that cancels the search.  The connection is what the worker     *)
(* sees of it: the responses channel of its message context, whose packets *)
(* arrive in the order the server sent them and which is closed when the   *)
(* connection gives the request up.                                        *)
(*                                                                         *)
(* A packet is its number and what the worker finds in it.                 *)
(***************************************************************************)
EXTENDS Integers, Sequences, Functions

CONSTANTS
    BufferSizes,    \* values of bufferSize; 0 makes an unbuffered channel
    Packets,        \* what the server may send, a subset of AllPackets
    Timeouts,       \* values of requestTimeout: TRUE is > 0, FALSE is 0
    MaxPackets      \* bound: packets the server sends

(* Each carries something for the consumer and the search goes on. *)
Streamed == {"entry", "entry control", "reference", "intermediate"}

(* SearchResultDone; "done control" carries controls for the consumer. *)
Successes == {"done", "done control"}

(* Malformed: attributes or a control that cannot be decoded, a tag that is
   not known, or fewer children than the code indexes ("short"). *)
Malformed == {"bad attributes", "bad control", "bad done control", "unknown tag",
              "short"}

AllPackets == Streamed \cup Successes \cup Malformed \cup {"done failure"}

ASSUME SearchAssumption ==
    /\ BufferSizes \subseteq Nat /\ MaxPackets \in Nat
    /\ Packets \subseteq AllPackets
    /\ Timeouts \subseteq BOOLEAN

VARIABLES
    bufferSize,  \* argument of SearchAsync
    timed,       \* requestTimeout > 0 throughout: sendResponse may give up
    pc,          \* where the worker is
    result,      \* the result it is sending on ch
    after,       \* where it goes once that is sent
    panicked,    \* it runs its deferred functions after a panic
    ch, chClosed,
    cancelled,   \* ctx is done
    closing,     \* the connection's closing flag
    connErr,     \* setError was called
    registered,  \* the request was accepted by sendMessage
    finished,    \* finishMessage was called
    wire,        \* packets the connection has for the worker
    sent,        \* all packets the server sent
    ended,       \* responses is closed after what is in wire
    err,         \* r.err is not nil
    last,        \* what the last Next returned
    got,         \* the results for which Next returned true
    gone         \* the consumer calls Next no more

argVars == <<bufferSize, timed>>
workerVars == <<argVars, pc, result, after, panicked>>
chanVars == <<ch, chClosed>>
connVars == <<closing, registered, finished, wire, sent, ended>>
consumerVars == <<err, last, got, gone>>
vars == <<workerVars, chanVars, cancelled, connErr, connVars, consumerVars>>

Error == [n |-> 0, what |-> "error"]

Init ==
    /\ bufferSize \in BufferSizes /\ timed \in Timeouts
    /\ pc = "begin" /\ result = Error /\ after = "close" /\ panicked = FALSE
    /\ ch = <<>> /\ chClosed = FALSE
    /\ cancelled = FALSE /\ connErr = FALSE
    /\ closing = FALSE
    /\ registered = FALSE /\ finished = FALSE
    /\ wire = <<>> /\ sent = <<>> /\ ended = FALSE
    /\ err = FALSE /\ last = "none" /\ got = <<>> /\ gone = FALSE

-----------------------------------------------------------------------------
(* The worker *)

Goto(l) == pc' = l /\ UNCHANGED <<argVars, result, after, panicked>>

(* searchResponse.send is called with res; the worker then goes to l. *)
Offer(res, l) ==
    /\ pc' = "offer" /\ result' = res /\ after' = l
    /\ UNCHANGED <<argVars, panicked>>

OnlyWorker == UNCHANGED <<chanVars, cancelled, connErr, connVars, consumerVars>>

TestClosing ==
    /\ pc = "begin"
    /\ Goto(IF closing THEN "close" ELSE "encode")
    /\ OnlyWorker

Encode ==
    /\ pc = "encode"
    /\ Goto("submit") \/ Offer(Error, "close")
    /\ OnlyWorker

(* sendMessage refuses a request when the connection is closing or starting
   TLS. *)
SendMessage ==
    /\ pc = "submit"
    /\ \/ ~closing /\ registered' = TRUE /\ Goto("loop")
       \/ Offer(Error, "close") /\ UNCHANGED registered
    /\ UNCHANGED <<chanVars, cancelled, connErr, closing, finished, wire, sent,
                   ended, consumerVars>>

ContextDone ==
    /\ pc = "loop" /\ cancelled
    /\ Goto("finish")
    /\ OnlyWorker

ResponsesClosed ==
    /\ pc = "loop" /\ ended /\ wire = <<>>
    /\ Offer(Error, "finish")
    /\ OnlyWorker

(* Faulty: an error is sent and the search goes on. *)
HandleContinuing(m) ==
    IF m.what \in Streamed THEN Offer(m, "loop")
    ELSE IF m.what = "done control" THEN Offer(m, "finish")
    ELSE IF m.what = "done" THEN Goto("finish")
    ELSE Offer(Error, "loop")

(* Faulty: a failed search is taken for a finished one. *)
HandleUnreported(m) ==
    IF m.what \in Streamed THEN Offer(m, "loop")
    ELSE IF m.what = "done control" THEN Offer(m, "finish")
    ELSE Goto("finish")

(* What the worker does with a packet.  Undecodable attributes are reported by
   a plain send on ch, everything else by searchResponse.send. *)
Handle(m) ==
    CASE m.what \in Streamed -> Offer(m, "loop")
      [] m.what = "done control" -> Offer(m, "finish")
      [] m.what = "done" -> Goto("finish")
      [] m.what = "short" -> pc' = "finish" /\ panicked' = TRUE
                             /\ UNCHANGED <<argVars, result, after>>
      [] m.what = "bad attributes" -> pc' = "offer.plain" /\ result' = Error
                                      /\ after' = "finish" /\ UNCHANGED <<argVars, panicked>>
      [] OTHER -> Offer(Error, "finish")

Receive ==
    /\ pc = "loop" /\ wire # <<>>
    /\ wire' = Tail(wire)
    /\ Handle(Head(wire))
    /\ UNCHANGED <<chanVars, cancelled, connErr, closing, registered, finished,
                   sent, ended, consumerVars>>

Offering == pc \in {"offer", "offer.plain"}

SendBuffered ==
    /\ Offering
    /\ Len(ch) < bufferSize
    /\ ch' = Append(ch, result)
    /\ Goto(after)
    /\ UNCHANGED <<chClosed, cancelled, connErr, connVars, consumerVars>>

(* Faulty: searchResponse.send without its ctx.Done case. *)
SendCancelledNever == FALSE /\ UNCHANGED vars

(* Faulty: the worker ignores what searchResponse.send returns. *)
SendCancelledOn ==
    /\ pc = "offer" /\ cancelled
    /\ Goto(after)
    /\ OnlyWorker

SendCancelled ==
    /\ pc = "offer" /\ cancelled
    /\ Goto(IF after = "loop" THEN "finish" ELSE after)
    /\ OnlyWorker

(* The deferred functions run in this order, after a panic too. *)
FinishMessage ==
    /\ pc = "finish"
    /\ finished' = TRUE
    /\ Goto("close")
    /\ UNCHANGED <<chanVars, cancelled, connErr, closing, registered, wire, sent,
                   ended, consumerVars>>

(* Faulty: ch is closed as soon as the loop is left. *)
CloseChEarly ==
    /\ pc \in {"close", "finish"} /\ ~chClosed
    /\ chClosed' = TRUE
    /\ Goto(IF pc = "finish" THEN "finish" ELSE "exited")
    /\ UNCHANGED <<ch, cancelled, connErr, connVars, consumerVars>>

(* Faulty: recover comes first and returns without closing ch. *)
CloseChUnlessPanic ==
    /\ pc = "close"
    /\ chClosed' = ~panicked
    /\ connErr' = (connErr \/ panicked)
    /\ Goto("exited")
    /\ UNCHANGED <<ch, cancelled, connVars, consumerVars>>

CloseCh ==
    /\ pc = "close"
    /\ chClosed' = TRUE
    /\ connErr' = (connErr \/ panicked)
    /\ Goto("exited")
    /\ UNCHANGED <<ch, cancelled, connVars, consumerVars>>

-----------------------------------------------------------------------------
(* The consumer *)

(* Next has received res. *)
Received(res) ==
    IF res = Error
      THEN err' = TRUE /\ last' = "false" /\ UNCHANGED got
      ELSE err' = FALSE /\ last' = "true" /\ got' = Append(got, res)

(* From the buffer, or from the worker when the channel has none. *)
Next_ ==
    /\ ~gone
    /\ \/ /\ ch # <<>>
          /\ Received(Head(ch)) /\ ch' = Tail(ch)
          /\ UNCHANGED workerVars
       \/ /\ bufferSize = 0 /\ Offering
          /\ Received(result) /\ Goto(after)
          /\ UNCHANGED ch
    /\ UNCHANGED <<chClosed, cancelled, connErr, connVars, gone>>

NextClosed ==
    /\ ~gone /\ chClosed /\ ch = <<>>
    /\ last' = "false"
    /\ UNCHANGED <<workerVars, chanVars, cancelled, connErr, connVars, err, got,
                   gone>>

Abandon ==
    /\ ~gone /\ gone' = TRUE
    /\ UNCHANGED <<workerVars, chanVars, cancelled, connErr, connVars, err, last,
                   got>>

Cancel ==
    /\ ~cancelled /\ cancelled' = TRUE
    /\ UNCHANGED <<workerVars, chanVars, connErr, connVars, consumerVars>>

-----------------------------------------------------------------------------
(* The connection and the server *)

SearchEnded == \E i \in DOMAIN sent :
    sent[i].what \in Successes \cup {"done failure", "bad done control"}

ServerSends ==
    /\ registered /\ ~ended /\ ~finished /\ ~SearchEnded
    /\ Len(sent) < MaxPackets
    /\ \E w \in Packets :
          LET m == [n |-> Len(sent) + 1, what |-> w] IN
          sent' = Append(sent, m) /\ wire' = Append(wire, m)
    /\ UNCHANGED <<workerVars, chanVars, cancelled, connErr, closing, registered,
                   finished, ended, consumerVars>>

(* sendResponse gives up when a timeout is set and the worker is slow. *)
SendResponseDropped ==
    /\ timed /\ wire # <<>> /\ Head(wire) # Error
    /\ wire' = Tail(wire)
    /\ UNCHANGED <<workerVars, chanVars, cancelled, connErr, closing, registered,
                   finished, sent, ended, consumerVars>>

(* The connection gives the request up: the write fails or the request times
   out (an error is delivered), or the connection closes (with an error to
   deliver or without).  Packets not yet taken from the network are lost. *)
GiveUp ==
    /\ registered /\ ~ended
    /\ ended' = TRUE
    /\ \E n \in 0..Len(wire), e \in {<<>>, <<Error>>} :
          /\ wire' = SubSeq(wire, 1, n) \o e
          /\ closing' \in IF e = <<>> THEN {TRUE} ELSE {closing, TRUE}
    /\ UNCHANGED <<workerVars, chanVars, cancelled, connErr, registered, finished,
                   sent, consumerVars>>

ConnCloses ==
    /\ ~registered /\ ~closing
    /\ closing' = TRUE
    /\ UNCHANGED <<workerVars, chanVars, cancelled, connErr, registered, finished,
                   wire, sent, ended, consumerVars>>

-----------------------------------------------------------------------------
Worker ==
    \/ TestClosing \/ Encode \/ SendMessage \/ ContextDone \/ ResponsesClosed
    \/ Receive \/ SendBuffered \/ SendCancelled \/ FinishMessage \/ CloseCh

Consumer == Next_ \/ NextClosed

Next ==
    \/ Worker \/ Consumer \/ Abandon \/ Cancel
    \/ ServerSends \/ SendResponseDropped \/ GiveUp \/ ConnCloses

Spec == Init /\ [][Next]_vars

(* The worker goroutine runs.  Nothing is assumed of the consumer, the server
   or the connection. *)
FairSpec == Spec /\ WF_vars(Worker)

-----------------------------------------------------------------------------
(* Properties *)

Result == [n : 0..MaxPackets, what : AllPackets \cup {"error"}]

(* The variables have the types of the fields of searchResponse and of the
   locals of start. *)
TypeOK ==
    /\ bufferSize \in BufferSizes /\ timed \in Timeouts
    /\ pc \in {"begin", "encode", "submit", "loop", "offer", "offer.plain",
               "finish", "close", "exited"}
    /\ result \in Result /\ after \in {"loop", "finish", "close"}
    /\ panicked \in BOOLEAN
    /\ ch \in Seq(Result) /\ Len(ch) <= bufferSize /\ chClosed \in BOOLEAN
    /\ cancelled \in BOOLEAN /\ closing \in BOOLEAN /\ connErr \in BOOLEAN
    /\ registered \in BOOLEAN /\ finished \in BOOLEAN /\ ended \in BOOLEAN
    /\ wire \in Seq(Result) /\ sent \in Seq(Result)
    /\ err \in BOOLEAN /\ last \in {"none", "true", "false"}
    /\ got \in Seq(Result) /\ gone \in BOOLEAN

(* The packets that hold something for the consumer. *)
Data(s) == {m \in Range(s) : m.what \in Streamed \cup {"done control"}}

(* SearchAsync (search.go:628-630): the consumer gets the results in the order
   the server sent them, whenever it cancels, leaves or the connection goes
   away; and without gaps unless sendResponse may time out. *)
AllResults ==
    /\ \A i, j \in DOMAIN got : i < j => got[i].n < got[j].n
    /\ Range(got) \subseteq Data(sent)
    /\ timed \/ \A m \in Data(sent), i \in DOMAIN got : m.n < got[i].n => m \in Range(got)

(* Err (response.go:45-48): when Next reports the end and Err is nil although
   the search was not cancelled, the server has reported success and every
   result it sent was delivered or timed out.  The two ways in which start
   ends a search silently are the exceptions: a connection already closing,
   and a panic, which only GetLastError tells of. *)
EndMeansComplete ==
    last = "false" /\ ~err /\ ~cancelled =>
        \/ closing /\ ~registered
        \/ connErr
        \/ /\ \E i \in DOMAIN sent : sent[i].what \in Successes
           /\ timed \/ Data(sent) \subseteq Range(got)

(* Next reads r.err from every result it receives: an error once reported is
   not cleared by a later Next, because nothing follows it into ch. *)
ErrorIsFinal == [][err => err']_vars

(* The deferred functions of start: once ch is closed, and so before Next
   reports the end of the stream, the request has been finished, and a
   consumer may go on to StartTLS. *)
FinishedBeforeEnd == chClosed /\ registered => finished

(* send (response.go:69-71): when the search is cancelled its goroutine exits,
   whether or not anyone still calls Next. *)
CancelStops == cancelled ~> pc = "exited"

(* The same but for the one send that does not watch ctx (response.go:147). *)
CancelStopsSends == cancelled ~> pc \in {"exited", "offer.plain"}

(* A consumer that keeps calling Next learns of the end of the search, after a
   panic of the worker too, when the connection ends the request (the server
   answers, or a timeout is set, or the connection closes). *)
ConsumerReturns ==
    WF_vars(Consumer) /\ WF_vars(GiveUp) => []<>(gone \/ last = "false")
============================================================================
