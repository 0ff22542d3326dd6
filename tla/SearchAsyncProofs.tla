------------------------- MODULE SearchAsyncProofs --------------------------
(* Proofs about SearchAsync: its types, the order and completeness of what the
   consumer gets, the finality of an error and what the end of the stream
   means. *)
EXTENDS SearchAsync, SequenceTheorems, TLAPS

(* The worker has left its loop, and has no result to send. *)
Ending == pc \in {"finish", "close", "exited"}

(* It is in its loop, or comes back to it with its result sent. *)
Looping == pc = "loop" \/ (Offering /\ after = "loop")

(* Where the worker is when the request is registered, what its results lead
   to, and that the channel is closed last. *)
ControlInv ==
    /\ IF registered THEN /\ pc \notin {"begin", "encode", "submit"}
                          /\ Offering => after # "close"
                          /\ pc \in {"close", "exited"} => finished
       ELSE /\ pc \notin {"loop", "finish"} /\ (Offering => after = "close")
            /\ sent = <<>> /\ wire = <<>> /\ ~ended
    /\ chClosed <=> pc = "exited"
    /\ Offering => (after = "loop" => result # Error) /\ (after = "close" => result = Error)

(* An error is the last result there is: nothing follows it on ch. *)
ErrorInv ==
    /\ err => ch = <<>> /\ Ending
    /\ \A i \in DOMAIN ch : ch[i] = Error => i = Len(ch) /\ Ending

(* The results on their way from the worker to the consumer, or with it. *)
InHand(m) == m \in Range(got) \/ m \in Range(ch) \/ (Offering /\ m = result)

(* The packets of the server are numbered, and none follows the last. *)
SentInv ==
    \A i \in DOMAIN sent :
        /\ sent[i].n = i /\ sent[i].what \in AllPackets
        /\ sent[i].what \in Successes \cup {"done failure", "bad done control"} => i = Len(sent)

(* The results are packets, in their order: first those the consumer has, then
   those in ch, then the one being sent. *)
OrderInv ==
    /\ \A i \in DOMAIN got : got[i] \in Data(sent)
    /\ \A i, j \in DOMAIN got : i < j => got[i].n < got[j].n
    /\ \A j \in DOMAIN ch : ch[j] # Error =>
          /\ ch[j] \in Data(sent)
          /\ \A i \in DOMAIN got : got[i].n < ch[j].n
          /\ \A i \in DOMAIN ch : i < j => ch[i].n < ch[j].n
    /\ Offering /\ result # Error =>
          /\ result \in Data(sent)
          /\ \A i \in DOMAIN got : got[i].n < result.n
          /\ \A i \in DOMAIN ch : ch[i].n < result.n

(* The first h packets have been received or dropped, and wire goes on from
   there, until the connection gives the request up. *)
WireAt(h) ==
    /\ \A i \in DOMAIN wire : IF wire[i] = Error THEN i = Len(wire) /\ ended
                              ELSE h + i <= Len(sent) /\ wire[i] = sent[h + i]
    /\ ~ended => h + Len(wire) = Len(sent)
    /\ \A m \in Data(sent) : InHand(m) => m.n <= h
    /\ Looping => timed \/ \A m \in Data(sent) : m.n <= h => InHand(m)

(* Nothing is missing among the results in hand, unless it could be dropped. *)
GaplessInv ==
    timed \/ \A m, x \in Data(sent) : InHand(x) /\ m.n < x.n => InHand(m)

StreamInv == SentInv /\ OrderInv /\ GaplessInv /\ \E h \in 0..Len(sent) : WireAt(h)

(* The server reported success and all it sent is in hand. *)
Complete ==
    /\ \E i \in DOMAIN sent : sent[i].what \in Successes
    /\ timed \/ \A m \in Data(sent) : InHand(m)

(* Why the worker has left its loop. *)
CompleteInv ==
    /\ Offering /\ after = "finish" /\ result # Error => Complete
    /\ Ending => \/ cancelled \/ err \/ Complete
                 \/ \E i \in DOMAIN ch : ch[i] = Error
                 \/ closing /\ ~registered
                 \/ panicked /\ (pc = "exited" => connErr)
    /\ last = "false" /\ ~err => chClosed /\ ch = <<>>

AsyncInv == TypeOK /\ ControlInv /\ ErrorInv /\ StreamInv /\ CompleteInv
-----------------------------------------------------------------------------
(* Types, and the control of the worker *)

LEMMA TypesInit ==
    ASSUME SearchAssumption, Init
    PROVE  TypeOK /\ ControlInv /\ ErrorInv
<1>1. <<>> \in Seq(Result) /\ Len(<<>>) = 0
  BY EmptySeq
<1>2. Error \in Result
  BY DEF Error, Result, SearchAssumption
<1>3. bufferSize \in Nat
  BY DEF Init, SearchAssumption
<1>4. TypeOK
  <2>1. Len(ch) <= bufferSize
    BY <1>1, <1>3 DEF Init
  <2>. QED  BY <1>1, <1>2, <2>1 DEF Init, TypeOK
<1>5. ControlInv
  BY DEF Init, ControlInv, Offering
<1>6. ErrorInv
  BY <1>1 DEF Init, ErrorInv
<1>. QED  BY <1>4, <1>5, <1>6

(* What the worker does with a packet keeps the types and leaves the loop with
   a result to send, or for good. *)
LEMMA HandleType ==
    ASSUME SearchAssumption, TypeOK, NEW m \in Result, Handle(m)
    PROVE  /\ pc' \in {"offer", "offer.plain", "finish"}
           /\ result' \in Result /\ after' \in {"loop", "finish", "close"}
           /\ panicked' \in BOOLEAN /\ UNCHANGED argVars
           /\ pc' # "finish" => \/ m.what \in Streamed /\ result' = m /\ after' = "loop"
                                \/ after' = "finish"
<1>1. Error \in Result
  BY DEF Error, Result, SearchAssumption
<1>. QED  BY <1>1 DEF Handle, Offer, Goto, TypeOK

(* A streamed packet is not an error. *)
LEMMA StreamedIsNoError ==
    ASSUME NEW m \in Result, m.what \in Streamed \cup {"done control"}
    PROVE  m # Error
<1>1. Error.what = "error"
  BY DEF Error
<1>2. "error" \notin Streamed \cup {"done control"}
  BY DEF Streamed
<1>. QED  BY <1>1, <1>2

(* The types and the control of the worker are kept by every step. *)
LEMMA TypesNext ==
    ASSUME SearchAssumption, TypeOK, ControlInv, [Next]_vars
    PROVE  TypeOK' /\ ControlInv'
<1>0. Error \in Result /\ bufferSize \in Nat /\ MaxPackets \in Nat
  BY DEF Error, Result, SearchAssumption, TypeOK
<1>1. CASE TestClosing
  BY <1>1 DEF TestClosing, Goto, OnlyWorker, TypeOK, ControlInv, Offering, argVars,
     chanVars, connVars, consumerVars
<1>2. CASE Encode
  BY <1>0, <1>2 DEF Encode, Goto, Offer, OnlyWorker, TypeOK, ControlInv, Offering, argVars,
     chanVars, connVars, consumerVars
<1>3. CASE SendMessage
  <2>1. CASE ~closing /\ registered' = TRUE /\ Goto("loop")
    BY <1>3, <2>1 DEF SendMessage, Goto, TypeOK, ControlInv, Offering, argVars, chanVars,
       consumerVars
  <2>2. CASE Offer(Error, "close") /\ UNCHANGED registered
    BY <1>0, <1>3, <2>2 DEF SendMessage, Offer, TypeOK, ControlInv, Offering, argVars,
       chanVars, consumerVars
  <2>. QED  BY <1>3, <2>1, <2>2 DEF SendMessage
<1>4. CASE ContextDone
  BY <1>4 DEF ContextDone, Goto, OnlyWorker, TypeOK, ControlInv, Offering, argVars,
     chanVars, connVars, consumerVars
<1>5. CASE ResponsesClosed
  BY <1>0, <1>5 DEF ResponsesClosed, Offer, OnlyWorker, TypeOK, ControlInv, Offering, argVars,
     chanVars, connVars, consumerVars
<1>6. CASE Receive
  <2>1. Head(wire) \in Result /\ Tail(wire) \in Seq(Result)
    BY <1>6, HeadTailProperties DEF Receive, TypeOK
  <2>2. Handle(Head(wire))
    BY <1>6 DEF Receive
  <2>3. Head(wire).what \in Streamed => Head(wire) # Error
    BY <2>1, StreamedIsNoError
  <2>. QED  BY <2>1, <2>2, <2>3, <1>6, HandleType DEF Receive, TypeOK, ControlInv, Offering,
            argVars, chanVars, consumerVars
<1>7. CASE SendBuffered
  <2>1. ch' \in Seq(Result) /\ Len(ch') = Len(ch) + 1 /\ Len(ch) \in Nat
    BY <1>7, AppendProperties, LenProperties DEF SendBuffered, TypeOK
  <2>. QED  BY <1>0, <1>7, <2>1 DEF SendBuffered, Goto, TypeOK, ControlInv, Offering, argVars,
            connVars, consumerVars
<1>8. CASE SendCancelled
  BY <1>8 DEF SendCancelled, Goto, OnlyWorker, TypeOK, ControlInv, Offering, argVars,
     chanVars, connVars, consumerVars
<1>9. CASE FinishMessage
  BY <1>9 DEF FinishMessage, Goto, TypeOK, ControlInv, Offering, argVars,
     chanVars, connVars, consumerVars
<1>10. CASE CloseCh
  BY <1>10 DEF CloseCh, Goto, TypeOK, ControlInv, Offering, argVars,
     chanVars, connVars, consumerVars
<1>11. CASE Next_
  <2>1. ASSUME NEW m \in Result, Received(m)
        PROVE  err' \in BOOLEAN /\ last' \in {"none", "true", "false"} /\ got' \in Seq(Result)
    <3>1. CASE m = Error
      BY <2>1, <3>1 DEF Received, TypeOK
    <3>2. CASE m # Error
      <4>1. Append(got, m) \in Seq(Result)
        BY <2>1, AppendProperties DEF TypeOK
      <4>. QED  BY <2>1, <3>2, <4>1 DEF Received
    <3>. QED  BY <3>1, <3>2
  <2>2. CASE ch # <<>> /\ Received(Head(ch)) /\ ch' = Tail(ch) /\ UNCHANGED workerVars
    <3>1. Head(ch) \in Result /\ Tail(ch) \in Seq(Result) /\ Len(Tail(ch)) = Len(ch) - 1
          /\ Len(ch) \in Nat
      BY <2>2, HeadTailProperties, LenProperties DEF TypeOK
    <3>2. err' \in BOOLEAN /\ last' \in {"none", "true", "false"} /\ got' \in Seq(Result)
      BY <2>1, <2>2, <3>1
    <3>3. ch' \in Seq(Result) /\ Len(ch') <= bufferSize
      BY <1>0, <2>2, <3>1 DEF TypeOK
    <3>. QED  BY <1>11, <2>2, <3>2, <3>3 DEF Next_, TypeOK, ControlInv, Offering,
              workerVars, argVars, connVars
  <2>3. CASE bufferSize = 0 /\ Offering /\ Received(result) /\ Goto(after) /\ UNCHANGED ch
    BY <1>11, <2>1, <2>3 DEF Next_, Goto, TypeOK, ControlInv, Offering, argVars, connVars
  <2>. QED  BY <1>11, <2>2, <2>3 DEF Next_
<1>12. CASE NextClosed
  BY <1>12 DEF NextClosed, TypeOK, ControlInv, Offering, workerVars, argVars, chanVars, connVars
<1>18. CASE Abandon
  BY <1>18 DEF Abandon, TypeOK, ControlInv, Offering, workerVars, argVars, chanVars, connVars
<1>19. CASE Cancel
  BY <1>19 DEF Cancel, TypeOK, ControlInv, Offering, workerVars, argVars, chanVars, connVars,
     consumerVars
<1>13. CASE ServerSends
  <2>1. PICK w \in Packets : sent' = Append(sent, [n |-> Len(sent) + 1, what |-> w])
                             /\ wire' = Append(wire, [n |-> Len(sent) + 1, what |-> w])
    BY <1>13 DEF ServerSends
  <2>2. [n |-> Len(sent) + 1, what |-> w] \in Result
    <3>1. Len(sent) \in Nat /\ Len(sent) < MaxPackets
      BY <1>13, LenProperties DEF ServerSends, TypeOK
    <3>. QED  BY <1>0, <3>1 DEF Result, SearchAssumption
  <2>3. sent' \in Seq(Result) /\ wire' \in Seq(Result)
    BY <2>1, <2>2, AppendProperties DEF TypeOK
  <2>. QED  BY <1>13, <2>3 DEF ServerSends, TypeOK, ControlInv, Offering, workerVars, argVars,
            chanVars, consumerVars
<1>14. CASE SendResponseDropped
  <2>1. Tail(wire) \in Seq(Result)
    BY <1>14, HeadTailProperties DEF SendResponseDropped, TypeOK
  <2>2. TypeOK'
    <3>1. /\ wire' = Tail(wire)
          /\ UNCHANGED <<workerVars, chanVars, cancelled, connErr, closing, registered,
                         finished, sent, ended, consumerVars>>
      BY <1>14 DEF SendResponseDropped
    <3>. QED  BY <2>1, <3>1 DEF TypeOK, workerVars, argVars, chanVars, consumerVars
  <2>3. registered
    BY <1>14 DEF SendResponseDropped, ControlInv
  <2>4. ControlInv'
    BY <1>14, <2>3 DEF SendResponseDropped, ControlInv, Offering, workerVars, chanVars
  <2>. QED  BY <2>2, <2>4
<1>15. CASE GiveUp
  <2>1. PICK n \in 0..Len(wire), e \in {<<>>, <<Error>>} :
            /\ wire' = SubSeq(wire, 1, n) \o e
            /\ closing' \in IF e = <<>> THEN {TRUE} ELSE {closing, TRUE}
    BY <1>15 DEF GiveUp
  <2>2. SubSeq(wire, 1, n) \in Seq(Result)
    BY SubSeqProperties, LenProperties DEF TypeOK
  <2>3. e \in Seq(Result)
    <3>1. <<>> \in Seq(Result) /\ <<Error>> \in Seq(Result)
      BY <1>0, EmptySeq
    <3>. QED  BY <3>1
  <2>4. wire' \in Seq(Result)
    BY <2>1, <2>2, <2>3, ConcatProperties
  <2>5. closing' \in BOOLEAN
    BY <2>1 DEF TypeOK
  <2>. QED  BY <1>15, <2>4, <2>5 DEF GiveUp, TypeOK, ControlInv, Offering, workerVars,
            argVars, chanVars, consumerVars
<1>16. CASE ConnCloses
  BY <1>16 DEF ConnCloses, TypeOK, ControlInv, Offering, workerVars, argVars, chanVars,
     consumerVars
<1>17. CASE UNCHANGED vars
  BY <1>17 DEF vars, TypeOK, ControlInv, Offering, workerVars, argVars, chanVars, connVars,
     consumerVars
<1>. QED  BY <1>1, <1>2, <1>3, <1>4, <1>5, <1>6, <1>7, <1>8, <1>9, <1>10, <1>11, <1>12, <1>13,
          <1>14, <1>15, <1>16, <1>17, <1>18, <1>19 DEF Next, Worker, Consumer

-----------------------------------------------------------------------------
(* Errors are the last results *)

(* Nothing follows an error into ch. *)
LEMMA ErrorNext ==
    ASSUME SearchAssumption, TypeOK, ControlInv, ErrorInv, [Next]_vars
    PROVE  ErrorInv'
<1>0. Len(ch) \in Nat /\ DOMAIN ch = 1..Len(ch)
  BY LenProperties DEF TypeOK
<1>1. CASE UNCHANGED <<ch, err>> /\ (Ending => Ending')
  BY <1>1 DEF ErrorInv
<1>2. CASE SendBuffered
  <2>1. pc' = after /\ ch' = Append(ch, result) /\ ~err /\ err' = err
        /\ (result = Error => after # "loop") /\ ~Ending
    BY <1>2 DEF SendBuffered, Goto, ControlInv, ErrorInv, Offering, Ending, consumerVars
  <2>2. Len(ch') = Len(ch) + 1 /\ DOMAIN ch' = 1..(Len(ch) + 1) /\ ch'[Len(ch) + 1] = result
        /\ \A i \in DOMAIN ch : ch'[i] = ch[i]
    <3>1. result \in Result /\ ch \in Seq(Result)
      BY DEF TypeOK
    <3>. QED  BY <1>0, <2>1, <3>1, AppendProperties
  <2>3. \A i \in DOMAIN ch : ch[i] # Error
    BY <2>1 DEF ErrorInv
  <2>4. result = Error => Ending'
    BY <2>1 DEF Ending, TypeOK
  <2>. QED  BY <1>0, <2>1, <2>2, <2>3, <2>4 DEF ErrorInv
<1>3. CASE Next_
  <2>1. CASE ch # <<>> /\ Received(Head(ch)) /\ ch' = Tail(ch) /\ UNCHANGED workerVars
    <3>1. Head(ch) = ch[1] /\ Len(ch) > 0
      BY <1>0, <2>1, EmptySeq DEF TypeOK
    <3>2. /\ Tail(ch) \in Seq(Result) /\ Len(Tail(ch)) = Len(ch) - 1
          /\ \A i \in 1..Len(Tail(ch)) : Tail(ch)[i] = ch[i + 1]
      BY <2>1, HeadTailProperties DEF TypeOK
    <3>3. DOMAIN Tail(ch) = 1..Len(Tail(ch))
      BY <3>2, LenProperties
    <3>4. Ending' = Ending
      BY <2>1 DEF Ending, workerVars
    <3>5. \A i \in DOMAIN ch' : ch'[i] = Error => i = Len(ch') /\ Ending'
      BY <1>0, <2>1, <3>2, <3>3, <3>4 DEF ErrorInv
    <3>6. err' => ch' = <<>> /\ Ending'
      <4>1. err' => Head(ch) = Error
        BY <2>1 DEF Received
      <4>2. ch[1] = Error => Len(ch) = 1 /\ Ending
        BY <1>0, <3>1 DEF ErrorInv
      <4>3. Len(Tail(ch)) = 0 => Tail(ch) = <<>>
        BY <3>2, EmptySeq
      <4>. QED  BY <2>1, <3>1, <3>2, <3>4, <4>1, <4>2, <4>3
    <3>. QED  BY <3>5, <3>6 DEF ErrorInv
  <2>2. CASE bufferSize = 0 /\ Offering /\ Received(result) /\ Goto(after) /\ UNCHANGED ch
    <3>1. ch = <<>> /\ DOMAIN ch = {}
      BY <1>0, <2>2, EmptySeq DEF TypeOK
    <3>2. err' => Ending'
      BY <2>2 DEF Received, Goto, ControlInv, Ending, TypeOK
    <3>. QED  BY <2>2, <3>1, <3>2 DEF ErrorInv
  <2>. QED  BY <1>3, <2>1, <2>2 DEF Next_
<1>4. CASE \/ TestClosing \/ Encode \/ SendMessage \/ ContextDone \/ ResponsesClosed \/ Receive
           \/ SendCancelled \/ FinishMessage \/ CloseCh
  <2>1. UNCHANGED <<ch, err>>
    BY <1>4 DEF TestClosing, Encode, SendMessage, ContextDone, ResponsesClosed, Receive,
       SendCancelled, FinishMessage, CloseCh, OnlyWorker, chanVars, consumerVars
  <2>2. Ending => Ending'
    BY <1>4 DEF Ending, TestClosing, Encode, SendMessage, ContextDone, ResponsesClosed, Receive,
       SendCancelled, FinishMessage, CloseCh, Goto
  <2>. QED  BY <1>1, <2>1, <2>2
<1>5. CASE \/ NextClosed \/ Abandon \/ Cancel \/ ServerSends \/ SendResponseDropped \/ GiveUp
           \/ ConnCloses \/ UNCHANGED vars
  <2>1. UNCHANGED <<ch, err, pc>>
    BY <1>5 DEF NextClosed, Abandon, Cancel, ServerSends, SendResponseDropped, GiveUp,
       ConnCloses, vars, workerVars, chanVars, consumerVars
  <2>. QED  BY <1>1, <2>1 DEF Ending
<1>. QED  BY <1>2, <1>3, <1>4, <1>5 DEF Next, Worker, Consumer

-----------------------------------------------------------------------------
(* What is in hand *)

(* The data among the packets: numbered by their places, and no errors. *)
LEMMA DataFacts ==
    ASSUME SearchAssumption, TypeOK, SentInv, NEW m \in Data(sent)
    PROVE  /\ m.n \in 1..Len(sent) /\ m = sent[m.n] /\ Len(sent) \in Nat
           /\ m \in Result /\ m # Error
<1>1. Len(sent) \in Nat /\ DOMAIN sent = 1..Len(sent) /\ \A i \in DOMAIN sent : sent[i] \in Result
  BY LenProperties DEF TypeOK
<1>2. PICK i \in DOMAIN sent : m = sent[i]
  BY DEF Data, Range
<1>3. m.n = i /\ m \in Result
  BY <1>1, <1>2 DEF SentInv
<1>4. m # Error
  BY <1>3, StreamedIsNoError DEF Data
<1>. QED  BY <1>1, <1>2, <1>3, <1>4

(* What Append and Tail do to the elements of a sequence of results. *)
LEMMA Elements ==
    ASSUME NEW s \in Seq(Result)
    PROVE  /\ Len(s) \in Nat /\ DOMAIN s = 1..Len(s) /\ \A i \in DOMAIN s : s[i] \in Result
           /\ \A m \in Result : /\ Append(s, m) \in Seq(Result)
                                /\ DOMAIN Append(s, m) = 1..(Len(s) + 1)
                                /\ Len(Append(s, m)) = Len(s) + 1
                                /\ Append(s, m)[Len(s) + 1] = m
                                /\ \A i \in DOMAIN s : Append(s, m)[i] = s[i]
                                /\ Range(Append(s, m)) = Range(s) \cup {m}
           /\ s # <<>> => /\ Len(s) > 0 /\ Head(s) = s[1] /\ Head(s) \in Result
                          /\ Tail(s) \in Seq(Result) /\ Len(Tail(s)) = Len(s) - 1
                          /\ DOMAIN Tail(s) = 1..(Len(s) - 1)
                          /\ \A i \in 1..(Len(s) - 1) : Tail(s)[i] = s[i + 1]
                          /\ Range(s) = Range(Tail(s)) \cup {Head(s)}
<1>1. Len(s) \in Nat /\ DOMAIN s = 1..Len(s) /\ \A i \in DOMAIN s : s[i] \in Result
  BY LenProperties
<1>2. ASSUME NEW m \in Result
      PROVE  /\ Append(s, m) \in Seq(Result)
             /\ DOMAIN Append(s, m) = 1..(Len(s) + 1)
             /\ Len(Append(s, m)) = Len(s) + 1
             /\ Append(s, m)[Len(s) + 1] = m
             /\ \A i \in DOMAIN s : Append(s, m)[i] = s[i]
             /\ Range(Append(s, m)) = Range(s) \cup {m}
  <2>1. /\ Append(s, m) \in Seq(Result)
        /\ DOMAIN Append(s, m) = 1..(Len(s) + 1)
        /\ Len(Append(s, m)) = Len(s) + 1
        /\ Append(s, m)[Len(s) + 1] = m
        /\ \A i \in DOMAIN s : Append(s, m)[i] = s[i]
    BY <1>1, <1>2, AppendProperties
  <2>2. Range(Append(s, m)) = Range(s) \cup {m}
    BY <1>1, <2>1 DEF Range
  <2>. QED  BY <2>1, <2>2
<1>3. ASSUME s # <<>>
      PROVE  /\ Len(s) > 0 /\ Head(s) = s[1] /\ Head(s) \in Result
             /\ Tail(s) \in Seq(Result) /\ Len(Tail(s)) = Len(s) - 1
             /\ DOMAIN Tail(s) = 1..(Len(s) - 1)
             /\ \A i \in 1..(Len(s) - 1) : Tail(s)[i] = s[i + 1]
             /\ Range(s) = Range(Tail(s)) \cup {Head(s)}
  <2>1. Len(s) > 0 /\ Head(s) = s[1]
    BY <1>1, <1>3, EmptySeq
  <2>2. /\ Tail(s) \in Seq(Result) /\ Len(Tail(s)) = Len(s) - 1 /\ Head(s) \in Result
        /\ \A i \in 1..Len(Tail(s)) : Tail(s)[i] = s[i + 1]
    BY <1>3, HeadTailProperties
  <2>3. DOMAIN Tail(s) = 1..Len(Tail(s))
    BY <2>2, LenProperties
  <2>4. Range(s) \subseteq Range(Tail(s)) \cup {Head(s)}
    <3>. SUFFICES ASSUME NEW i \in DOMAIN s, i # 1
                  PROVE  s[i] \in Range(Tail(s))
      BY <2>1 DEF Range
    <3>1. i - 1 \in DOMAIN Tail(s) /\ Tail(s)[i - 1] = s[i]
      BY <1>1, <2>2, <2>3
    <3>. QED  BY <3>1 DEF Range
  <2>5. Range(Tail(s)) \cup {Head(s)} \subseteq Range(s)
    BY <1>1, <2>1, <2>2, <2>3 DEF Range
  <2>. QED  BY <2>1, <2>2, <2>3, <2>4, <2>5
<1>. QED  BY <1>1, <1>2, <1>3

(* A step that only moves what is in hand, keeps it without gaps and in step
   with the wire. *)
LEMMA SameHand ==
    ASSUME StreamInv, UNCHANGED <<sent, wire, ended, timed>>,
           \A m \in Data(sent) : InHand(m)' <=> InHand(m),
           Looping' => Looping \/ Data(sent) = {},
           OrderInv'
    PROVE  StreamInv'
<1>1. Data(sent)' = Data(sent)
  BY DEF Data
<1>2. SentInv'
  BY DEF StreamInv, SentInv
<1>3. GaplessInv'
  BY <1>1 DEF StreamInv, GaplessInv
<1>4. PICK h \in 0..Len(sent) : WireAt(h)
  BY DEF StreamInv
<1>5. WireAt(h)'
  <2>1. \A i \in DOMAIN wire' : IF wire'[i] = Error THEN i = Len(wire') /\ ended'
                                ELSE h + i <= Len(sent') /\ wire'[i] = sent'[h + i]
    BY <1>4 DEF WireAt
  <2>2. ~ended' => h + Len(wire') = Len(sent')
    BY <1>4 DEF WireAt
  <2>3. \A m \in Data(sent') : InHand(m)' => m.n <= h
    BY <1>1, <1>4 DEF WireAt
  <2>4. Looping' => timed' \/ \A m \in Data(sent') : m.n <= h => InHand(m)'
    BY <1>1, <1>4 DEF WireAt
  <2>. QED  BY <2>1, <2>2, <2>3, <2>4 DEF WireAt
<1>. QED  BY <1>2, <1>3, <1>4, <1>5 DEF StreamInv

(* A step that neither takes nor moves a result. *)
LEMMA NoResultStream ==
    ASSUME SearchAssumption, TypeOK, StreamInv,
           UNCHANGED <<got, ch, sent, wire, ended, timed>>,
           Offering' => result' = Error \/ (Offering /\ result' = result),
           Offering /\ result # Error => Offering' /\ result' = result,
           Looping' => Looping \/ Data(sent) = {}
    PROVE  StreamInv' /\ \A m \in Data(sent) : InHand(m)' <=> InHand(m)
<1>1. \A m \in Data(sent) : m # Error
  BY DataFacts DEF StreamInv
<1>2. \A m \in Data(sent) : InHand(m)' <=> InHand(m)
  BY <1>1 DEF InHand
<1>3. Data(sent)' = Data(sent)
  BY DEF Data
<1>4. OrderInv'
  BY <1>3 DEF StreamInv, OrderInv
<1>. QED  BY <1>2, <1>4, SameHand

(* The result being sent comes after all others. *)
LEMMA ResultIsLast ==
    ASSUME SearchAssumption, TypeOK, StreamInv, Offering, result # Error,
           NEW x \in Data(sent), x \in Range(got) \cup Range(ch)
    PROVE  x.n < result.n /\ result \in Data(sent)
BY DEF StreamInv, OrderInv, Range

(* searchResponse.send gives its result up. *)
LEMMA CancelledStream ==
    ASSUME SearchAssumption, TypeOK, ControlInv, StreamInv, SendCancelled
    PROVE  StreamInv'
<1>1. /\ Offering /\ ~Offering' /\ ~Looping'
      /\ UNCHANGED <<got, ch, sent, wire, ended, timed>>
  BY DEF SendCancelled, Goto, OnlyWorker, Offering, Looping, TypeOK, argVars, chanVars,
     connVars, consumerVars
<1>2. Data(sent)' = Data(sent)
  BY <1>1 DEF Data
<1>3. \A m \in Data(sent) : InHand(m)' => InHand(m) /\ m \in Range(got) \cup Range(ch)
  BY <1>1 DEF InHand
<1>4. SentInv'
  BY <1>1 DEF StreamInv, SentInv
<1>5. OrderInv'
  BY <1>1, <1>2 DEF StreamInv, OrderInv
<1>6. GaplessInv'
  <2>. SUFFICES ASSUME ~timed, NEW m \in Data(sent), NEW x \in Data(sent),
                       InHand(x)', m.n < x.n
                PROVE  InHand(m)'
    BY <1>1, <1>2 DEF GaplessInv
  <2>1. InHand(m) /\ x \in Range(got) \cup Range(ch)
    BY <1>3 DEF StreamInv, GaplessInv
  <2>2. m.n \in Int /\ x.n \in Int /\ m # Error
    BY DataFacts DEF StreamInv
  <2>3. m \in Range(got) \cup Range(ch)
    <3>. SUFFICES ASSUME m = result  PROVE FALSE
      BY <2>1 DEF InHand
    <3>1. x.n < result.n
      BY <1>1, <2>1, <2>2, ResultIsLast
    <3>. QED  BY <2>2, <3>1
  <2>. QED  BY <1>1, <2>3 DEF InHand
<1>7. PICK h \in 0..Len(sent) : WireAt(h)
  BY DEF StreamInv
<1>8. WireAt(h)'
  <2>1. \A i \in DOMAIN wire' : IF wire'[i] = Error THEN i = Len(wire') /\ ended'
                                ELSE h + i <= Len(sent') /\ wire'[i] = sent'[h + i]
    BY <1>1, <1>7 DEF WireAt
  <2>2. ~ended' => h + Len(wire') = Len(sent')
    BY <1>1, <1>7 DEF WireAt
  <2>3. \A m \in Data(sent') : InHand(m)' => m.n <= h
    BY <1>2, <1>3, <1>7 DEF WireAt
  <2>. QED  BY <1>1, <2>1, <2>2, <2>3 DEF WireAt
<1>. QED  BY <1>1, <1>4, <1>5, <1>6, <1>7, <1>8 DEF StreamInv

(* The result goes into ch. *)
LEMMA BufferedStream ==
    ASSUME SearchAssumption, TypeOK, ControlInv, ErrorInv, StreamInv, SendBuffered
    PROVE  StreamInv' /\ \A m \in Data(sent) : InHand(m)' <=> InHand(m)
<1>1. /\ Offering /\ ~Offering' /\ pc' = after /\ ch' = Append(ch, result)
      /\ UNCHANGED <<got, sent, wire, ended, timed>>
  BY DEF SendBuffered, Goto, Offering, TypeOK, argVars, connVars, consumerVars
<1>2. Data(sent)' = Data(sent)
  BY <1>1 DEF Data
<1>3. /\ Len(ch) \in Nat /\ DOMAIN ch = 1..Len(ch) /\ DOMAIN ch' = 1..(Len(ch) + 1)
      /\ ch'[Len(ch) + 1] = result /\ \A i \in DOMAIN ch : ch'[i] = ch[i]
      /\ Range(ch') = Range(ch) \cup {result}
  <2>1. ch \in Seq(Result) /\ result \in Result
    BY DEF TypeOK
  <2>. QED  BY <1>1, <2>1, Elements
<1>4. \A m \in Data(sent) : InHand(m)' <=> InHand(m)
  BY <1>1, <1>3 DEF InHand
<1>5. Looping' => Looping
  BY <1>1 DEF Looping
<1>6. OrderInv'
  <2>1. \A i \in DOMAIN got : got[i] \in Data(sent)
    BY DEF StreamInv, OrderInv
  <2>2. \A i, j \in DOMAIN got : i < j => got[i].n < got[j].n
    BY DEF StreamInv, OrderInv
  <2>3. ASSUME NEW j \in DOMAIN ch', ch'[j] # Error
        PROVE  /\ ch'[j] \in Data(sent)
               /\ \A i \in DOMAIN got : got[i].n < ch'[j].n
               /\ \A i \in DOMAIN ch' : i < j => ch'[i].n < ch'[j].n
    <3>1. CASE j \in DOMAIN ch
      BY <1>3, <2>3, <3>1 DEF StreamInv, OrderInv
    <3>2. CASE j = Len(ch) + 1
      BY <1>1, <1>3, <2>3, <3>2 DEF StreamInv, OrderInv
    <3>. QED  BY <1>3, <2>3, <3>1, <3>2
  <2>. QED  BY <1>1, <1>2, <2>1, <2>2, <2>3 DEF OrderInv
<1>. QED  BY <1>1, <1>4, <1>5, <1>6, SameHand

(* Next takes the first result of ch. *)
LEMMA TakenStream ==
    ASSUME SearchAssumption, TypeOK, ControlInv, ErrorInv, StreamInv,
           ch # <<>>, Received(Head(ch)), ch' = Tail(ch),
           UNCHANGED <<workerVars, connVars>>
    PROVE  StreamInv' /\ \A m \in Data(sent) : InHand(m)' <=> InHand(m)
<1>1. UNCHANGED <<pc, result, after, sent, wire, ended, timed>> /\ Offering' = Offering
  BY DEF workerVars, argVars, connVars, Offering
<1>2. Data(sent)' = Data(sent)
  BY <1>1 DEF Data
<1>3. /\ Len(ch) \in Nat /\ Len(ch) > 0 /\ DOMAIN ch = 1..Len(ch) /\ Head(ch) = ch[1]
      /\ Head(ch) \in Result
      /\ DOMAIN ch' = 1..(Len(ch) - 1) /\ \A i \in 1..(Len(ch) - 1) : ch'[i] = ch[i + 1]
      /\ Range(ch) = Range(ch') \cup {Head(ch)}
  <2>1. ch \in Seq(Result)
    BY DEF TypeOK
  <2>. QED  BY <2>1, Elements
<1>4. Looping' => Looping
  BY <1>1 DEF Looping
<1>5. CASE Head(ch) = Error
  <2>1. got' = got
    BY <1>5 DEF Received
  <2>2. Len(ch) = 1
    BY <1>3, <1>5 DEF ErrorInv
  <2>3. \A m \in Data(sent) : InHand(m)' <=> InHand(m)
    <3>1. \A m \in Data(sent) : m # Error
      BY DataFacts DEF StreamInv
    <3>. QED  BY <1>1, <1>3, <1>5, <2>1, <3>1 DEF InHand
  <2>4. OrderInv'
    BY <1>1, <1>2, <1>3, <2>1, <2>2 DEF StreamInv, OrderInv
  <2>. QED  BY <1>1, <1>4, <2>3, <2>4, SameHand
<1>6. CASE Head(ch) # Error
  <2>1. got' = Append(got, Head(ch))
    BY <1>6 DEF Received
  <2>2. /\ Len(got) \in Nat /\ DOMAIN got = 1..Len(got) /\ DOMAIN got' = 1..(Len(got) + 1)
        /\ got'[Len(got) + 1] = Head(ch) /\ \A i \in DOMAIN got : got'[i] = got[i]
        /\ Range(got') = Range(got) \cup {Head(ch)}
    <3>1. got \in Seq(Result)
      BY DEF TypeOK
    <3>. QED  BY <1>3, <2>1, <3>1, Elements
  <2>3. \A m \in Data(sent) : InHand(m)' <=> InHand(m)
    BY <1>1, <1>3, <2>2 DEF InHand
  <2>4. OrderInv'
    <3>1. /\ ch[1] \in Data(sent)
          /\ \A i \in DOMAIN got : got[i] \in Data(sent) /\ got[i].n < ch[1].n
      BY <1>3, <1>6 DEF StreamInv, OrderInv
    <3>2. \A i \in DOMAIN got' : got'[i] \in Data(sent)
      BY <1>3, <2>2, <3>1
    <3>3. \A i, j \in DOMAIN got' : i < j => got'[i].n < got'[j].n
      <4>1. \A i, j \in DOMAIN got : i < j => got[i].n < got[j].n
        BY DEF StreamInv, OrderInv
      <4>. QED  BY <1>3, <2>2, <3>1, <4>1
    <3>4. ASSUME NEW j \in DOMAIN ch', ch'[j] # Error
          PROVE  /\ ch'[j] \in Data(sent)
                 /\ \A i \in DOMAIN got' : got'[i].n < ch'[j].n
                 /\ \A i \in DOMAIN ch' : i < j => ch'[i].n < ch'[j].n
      <4>1. j + 1 \in DOMAIN ch /\ ch'[j] = ch[j + 1]
        BY <1>3, <3>4
      <4>2. /\ ch[j + 1] \in Data(sent)
            /\ \A i \in DOMAIN got : got[i].n < ch[j + 1].n
            /\ \A i \in DOMAIN ch : i < j + 1 => ch[i].n < ch[j + 1].n
        BY <3>4, <4>1 DEF StreamInv, OrderInv
      <4>. QED  BY <1>3, <2>2, <4>1, <4>2
    <3>5. Offering /\ result # Error =>
             /\ result \in Data(sent)
             /\ \A i \in DOMAIN got' : got'[i].n < result.n
             /\ \A i \in DOMAIN ch' : ch'[i].n < result.n
      <4>1. Offering /\ result # Error =>
               /\ result \in Data(sent)
               /\ \A i \in DOMAIN got : got[i].n < result.n
               /\ \A i \in DOMAIN ch : ch[i].n < result.n
        BY DEF StreamInv, OrderInv
      <4>. QED  BY <1>3, <2>2, <4>1
    <3>. QED  BY <1>1, <1>2, <3>2, <3>3, <3>4, <3>5 DEF OrderInv
  <2>. QED  BY <1>1, <1>4, <2>3, <2>4, SameHand
<1>. QED  BY <1>5, <1>6

(* Next takes the result from the worker: ch has no buffer. *)
LEMMA HandedStream ==
    ASSUME SearchAssumption, TypeOK, ControlInv, ErrorInv, StreamInv,
           bufferSize = 0, Offering, Received(result), Goto(after),
           UNCHANGED <<ch, connVars>>
    PROVE  StreamInv' /\ \A m \in Data(sent) : InHand(m)' <=> InHand(m)
<1>1. /\ ~Offering' /\ pc' = after
      /\ UNCHANGED <<ch, sent, wire, ended, timed>>
  BY DEF Goto, Offering, TypeOK, argVars, connVars
<1>2. Data(sent)' = Data(sent)
  BY <1>1 DEF Data
<1>3. Range(ch) = {} /\ DOMAIN ch = {}
  <2>1. ch \in Seq(Result) /\ Len(ch) <= 0
    BY DEF TypeOK
  <2>. QED  BY <2>1, Elements DEF Range
<1>4. Looping' => Looping
  BY <1>1 DEF Looping
<1>5. CASE result = Error
  <2>1. got' = got
    BY <1>5 DEF Received
  <2>. QED  BY <1>1, <1>4, <1>5, <2>1, NoResultStream
<1>6. CASE result # Error
  <2>1. got' = Append(got, result)
    BY <1>6 DEF Received
  <2>2. /\ Len(got) \in Nat /\ DOMAIN got = 1..Len(got) /\ DOMAIN got' = 1..(Len(got) + 1)
        /\ got'[Len(got) + 1] = result /\ \A i \in DOMAIN got : got'[i] = got[i]
        /\ Range(got') = Range(got) \cup {result}
    <3>1. got \in Seq(Result) /\ result \in Result
      BY DEF TypeOK
    <3>. QED  BY <2>1, <3>1, Elements
  <2>3. \A m \in Data(sent) : InHand(m)' <=> InHand(m)
    BY <1>1, <2>2 DEF InHand
  <2>4. OrderInv'
    <3>1. /\ result \in Data(sent)
          /\ \A i \in DOMAIN got : got[i] \in Data(sent) /\ got[i].n < result.n
          /\ \A i, j \in DOMAIN got : i < j => got[i].n < got[j].n
      BY <1>6 DEF StreamInv, OrderInv
    <3>. QED  BY <1>1, <1>2, <1>3, <2>2, <3>1 DEF OrderInv
  <2>. QED  BY <1>1, <1>4, <2>3, <2>4, SameHand
<1>. QED  BY <1>5, <1>6

(* The server sends a packet: it is the last of sent and of wire. *)
LEMMA ServerStream ==
    ASSUME SearchAssumption, TypeOK, ControlInv, ErrorInv, StreamInv, ServerSends
    PROVE  StreamInv' /\ Data(sent) \subseteq Data(sent')
<1>. DEFINE N == Len(sent) + 1
<1>1. /\ ~ended /\ ~SearchEnded
      /\ UNCHANGED <<workerVars, chanVars, ended, consumerVars>>
  BY DEF ServerSends
<1>2. PICK w \in Packets : /\ sent' = Append(sent, [n |-> N, what |-> w])
                           /\ wire' = Append(wire, [n |-> N, what |-> w])
  BY DEF ServerSends
<1>. DEFINE p == [n |-> N, what |-> w]
<1>3. Len(sent) \in Nat /\ p \in Result /\ p.n = N /\ p.what \in AllPackets
  <2>1. Len(sent) \in Nat /\ Len(sent) < MaxPackets /\ MaxPackets \in Nat
    BY LenProperties DEF ServerSends, TypeOK, SearchAssumption
  <2>. QED  BY <2>1 DEF Result, SearchAssumption
<1>4. /\ DOMAIN sent = 1..Len(sent) /\ DOMAIN sent' = 1..N /\ Len(sent') = N
      /\ sent'[N] = p /\ \A i \in DOMAIN sent : sent'[i] = sent[i]
      /\ Range(sent') = Range(sent) \cup {p}
  <2>1. sent \in Seq(Result)
    BY DEF TypeOK
  <2>. QED  BY <1>2, <1>3, <2>1, Elements
<1>5. /\ Len(wire) \in Nat /\ DOMAIN wire = 1..Len(wire)
      /\ DOMAIN wire' = 1..(Len(wire) + 1) /\ Len(wire') = Len(wire) + 1
      /\ wire'[Len(wire) + 1] = p /\ \A i \in DOMAIN wire : wire'[i] = wire[i]
  <2>1. wire \in Seq(Result)
    BY DEF TypeOK
  <2>. QED  BY <1>2, <1>3, <2>1, Elements
<1>. HIDE DEF p
<1>6. Data(sent) \subseteq Data(sent') /\ \A m \in Data(sent') : m \in Data(sent) \/ m = p
  BY <1>4 DEF Data
<1>7. \A m : InHand(m)' <=> InHand(m)
  BY <1>1 DEF InHand, Offering, workerVars, chanVars, consumerVars
<1>8. UNCHANGED <<got, ch, pc, result, after, timed>> /\ Offering' = Offering
      /\ Looping' = Looping
  BY <1>1 DEF Offering, Looping, workerVars, argVars, chanVars, consumerVars
<1>9. SentInv'
  <2>. SUFFICES ASSUME NEW i \in 1..N
                PROVE  /\ sent'[i].n = i /\ sent'[i].what \in AllPackets
                       /\ sent'[i].what \in Successes \cup {"done failure", "bad done control"}
                             => i = N
    BY <1>4 DEF SentInv
  <2>1. CASE i \in DOMAIN sent
    BY <1>1, <1>4, <2>1 DEF StreamInv, SentInv, SearchEnded
  <2>2. CASE i = N
    BY <1>3, <1>4, <2>2
  <2>3. i \in 1..Len(sent) \/ i = N
    BY <1>3
  <2>. QED  BY <1>4, <2>1, <2>2, <2>3
<1>10. OrderInv'
  BY <1>6, <1>8 DEF StreamInv, OrderInv
<1>11. PICK h \in 0..Len(sent) : WireAt(h)
  BY DEF StreamInv
<1>12. \A m \in Data(sent) : m.n \in 1..Len(sent) /\ m # Error
  BY DataFacts DEF StreamInv
<1>13. ASSUME NEW m \in Data(sent'), InHand(m)
       PROVE  m \in Data(sent)
  <2>1. m # Error
    <3>1. Error.n = 0
      BY DEF Error
    <3>. QED  BY <1>3, <1>6, <1>12, <1>13, <3>1
  <2>2. \A i \in DOMAIN got : got[i] \in Data(sent)
    BY DEF StreamInv, OrderInv
  <2>3. \A i \in DOMAIN ch : ch[i] # Error => ch[i] \in Data(sent)
    BY DEF StreamInv, OrderInv
  <2>4. Offering /\ result # Error => result \in Data(sent)
    BY DEF StreamInv, OrderInv
  <2>. QED  BY <1>13, <2>1, <2>2, <2>3, <2>4 DEF InHand, Range
<1>14. GaplessInv'
  <2>. SUFFICES ASSUME ~timed, NEW m \in Data(sent'), NEW x \in Data(sent'), InHand(x), m.n < x.n
                PROVE  InHand(m)
    BY <1>7, <1>8 DEF GaplessInv
  <2>1. x \in Data(sent)
    BY <1>13
  <2>2. m \in Data(sent)
    BY <1>3, <1>6, <1>12, <2>1
  <2>. QED  BY <2>1, <2>2 DEF StreamInv, GaplessInv
<1>15. WireAt(h)'
  <2>1. h + Len(wire) = Len(sent)
    BY <1>1, <1>11 DEF WireAt
  <2>2. p # Error
    BY <1>3 DEF Error
  <2>3. \A i \in DOMAIN wire' : IF wire'[i] = Error THEN i = Len(wire') /\ ended'
                                ELSE h + i <= Len(sent') /\ wire'[i] = sent'[h + i]
    <3>1. \A i \in DOMAIN wire : wire[i] # Error /\ h + i <= Len(sent) /\ wire[i] = sent[h + i]
      BY <1>1, <1>11 DEF WireAt
    <3>. QED  BY <1>3, <1>4, <1>5, <2>1, <2>2, <3>1
  <2>4. h + Len(wire') = Len(sent')
    BY <1>3, <1>4, <1>5, <2>1
  <2>5. \A m \in Data(sent') : InHand(m)' => m.n <= h
    BY <1>7, <1>11, <1>13 DEF WireAt
  <2>6. Looping' => timed' \/ \A m \in Data(sent') : m.n <= h => InHand(m)'
    <3>. SUFFICES ASSUME Looping, ~timed, NEW m \in Data(sent'), m.n <= h
                  PROVE  InHand(m)
      BY <1>7, <1>8
    <3>1. m \in Data(sent)
      BY <1>3, <1>6
    <3>. QED  BY <1>11, <3>1 DEF WireAt
  <2>. QED  BY <2>3, <2>4, <2>5, <2>6 DEF WireAt
<1>16. h \in 0..Len(sent')
  BY <1>3, <1>4
<1>. QED  BY <1>6, <1>9, <1>10, <1>14, <1>15, <1>16 DEF StreamInv

(* sendResponse drops the next packet. *)
LEMMA DroppedStream ==
    ASSUME SearchAssumption, TypeOK, ControlInv, ErrorInv, StreamInv, SendResponseDropped
    PROVE  StreamInv' /\ \A m : InHand(m)' <=> InHand(m)
<1>1. /\ timed /\ timed' = timed /\ wire # <<>> /\ Head(wire) # Error /\ wire' = Tail(wire)
      /\ UNCHANGED <<got, ch, pc, result, after, sent, ended>>
  BY DEF SendResponseDropped, workerVars, argVars, chanVars, consumerVars
<1>2. Data(sent)' = Data(sent)
  BY <1>1 DEF Data
<1>3. \A m : InHand(m)' <=> InHand(m)
  BY <1>1 DEF InHand, Offering
<1>4. SentInv'
  BY <1>1 DEF StreamInv, SentInv
<1>5. OrderInv'
  BY <1>1, <1>2 DEF StreamInv, OrderInv, Offering
<1>6. GaplessInv'
  BY <1>1 DEF GaplessInv
<1>7. PICK h \in 0..Len(sent) : WireAt(h)
  BY DEF StreamInv
<1>8. /\ Len(wire) \in Nat /\ Len(wire) > 0 /\ DOMAIN wire = 1..Len(wire) /\ Head(wire) = wire[1]
      /\ Len(wire') = Len(wire) - 1 /\ DOMAIN wire' = 1..(Len(wire) - 1)
      /\ \A i \in 1..(Len(wire) - 1) : wire'[i] = wire[i + 1]
  <2>1. wire \in Seq(Result)
    BY DEF TypeOK
  <2>. QED  BY <1>1, <2>1, Elements
<1>9. h + 1 \in 0..Len(sent) /\ Len(sent) \in Nat
  <2>1. Len(sent) \in Nat
    BY LenProperties DEF TypeOK
  <2>. QED  BY <1>1, <1>7, <1>8, <2>1 DEF WireAt
<1>10. WireAt(h + 1)'
  <2>1. \A i \in DOMAIN wire' : IF wire'[i] = Error THEN i = Len(wire') /\ ended'
                                ELSE h + 1 + i <= Len(sent') /\ wire'[i] = sent'[h + 1 + i]
    <3>. SUFFICES ASSUME NEW i \in DOMAIN wire'
                  PROVE  IF wire'[i] = Error THEN i = Len(wire') /\ ended'
                         ELSE h + 1 + i <= Len(sent') /\ wire'[i] = sent'[h + 1 + i]
      OBVIOUS
    <3>1. i + 1 \in DOMAIN wire /\ wire'[i] = wire[i + 1] /\ h + (i + 1) = h + 1 + i
      BY <1>8
    <3>2. IF wire[i + 1] = Error THEN i + 1 = Len(wire) /\ ended
          ELSE h + (i + 1) <= Len(sent) /\ wire[i + 1] = sent[h + (i + 1)]
      BY <1>7, <3>1 DEF WireAt
    <3>. QED  BY <1>1, <1>8, <3>1, <3>2
  <2>2. ~ended' => h + 1 + Len(wire') = Len(sent')
    BY <1>1, <1>7, <1>8 DEF WireAt
  <2>3. \A m \in Data(sent') : InHand(m)' => m.n <= h + 1
    <3>1. \A m \in Data(sent) : m.n \in Int
      BY DataFacts DEF StreamInv
    <3>. QED  BY <1>2, <1>3, <1>7, <3>1 DEF WireAt
  <2>. QED  BY <1>1, <2>1, <2>2, <2>3 DEF WireAt
<1>. QED  BY <1>1, <1>3, <1>4, <1>5, <1>6, <1>9, <1>10 DEF StreamInv

(* The connection gives the request up: what is left of wire still follows what
   was received, and an error may end it. *)
LEMMA GiveUpStream ==
    ASSUME SearchAssumption, TypeOK, ControlInv, ErrorInv, StreamInv, GiveUp
    PROVE  StreamInv' /\ \A m : InHand(m)' <=> InHand(m)
<1>1. ~ended /\ ended' /\ UNCHANGED <<got, ch, pc, result, after, timed, sent>>
  BY DEF GiveUp, workerVars, argVars, chanVars, consumerVars
<1>2. PICK n \in 0..Len(wire), e \in {<<>>, <<Error>>} : wire' = SubSeq(wire, 1, n) \o e
  BY DEF GiveUp
<1>3. Data(sent)' = Data(sent)
  BY <1>1 DEF Data
<1>4. \A m : InHand(m)' <=> InHand(m)
  BY <1>1 DEF InHand, Offering
<1>5. SentInv'
  BY <1>1 DEF StreamInv, SentInv
<1>6. OrderInv'
  BY <1>1, <1>3 DEF StreamInv, OrderInv, Offering
<1>7. GaplessInv'
  BY <1>1, <1>3, <1>4 DEF StreamInv, GaplessInv
<1>8. PICK h \in 0..Len(sent) : WireAt(h)
  BY DEF StreamInv
<1>9. /\ Len(wire) \in Nat /\ DOMAIN wire = 1..Len(wire) /\ \A i \in 1..Len(wire) : wire[i] \in Result
      /\ Error \in Result
  <2>1. Error \in Result
    BY DEF Error, Result, SearchAssumption
  <2>. QED  BY <2>1, LenProperties DEF TypeOK
<1>10. /\ SubSeq(wire, 1, n) \in Seq(Result) /\ Len(SubSeq(wire, 1, n)) = n
       /\ \A i \in 1..n : SubSeq(wire, 1, n)[i] = wire[i]
  <2>1. n \in Int /\ \A i \in 1..n : wire[i] \in Result
    BY <1>2, <1>9
  <2>. QED  BY <1>2, <1>9, <2>1, SubSeqProperties
<1>11. e \in Seq(Result) /\ Len(e) \in {0, 1} /\ (Len(e) = 1 => e[1] = Error)
  <2>1. <<>> \in Seq(Result) /\ <<Error>> \in Seq(Result) /\ Len(<<>>) = 0
    BY <1>9, EmptySeq
  <2>2. CASE e = <<>>
    BY <2>1, <2>2
  <2>3. CASE e = <<Error>>
    <3>1. e \in Seq(Result) /\ Len(e) = 1 /\ e[1] = Error
      BY <2>1, <2>3
    <3>. QED  BY <3>1
  <2>. QED  BY <2>2, <2>3
<1>12. /\ wire' \in Seq(Result) /\ Len(wire') = n + Len(e)
       /\ \A i \in 1..(n + Len(e)) : wire'[i] = IF i <= n THEN wire[i] ELSE Error
  <2>1. /\ wire' \in Seq(Result) /\ Len(wire') = n + Len(e)
        /\ \A i \in 1..(n + Len(e)) :
              wire'[i] = IF i <= n THEN SubSeq(wire, 1, n)[i] ELSE e[i - n]
    BY <1>2, <1>10, <1>11, ConcatProperties
  <2>. QED  BY <1>2, <1>10, <1>11, <2>1
<1>13. DOMAIN wire' = 1..(n + Len(e))
  BY <1>12, LenProperties
<1>14. WireAt(h)'
  <2>1. \A i \in DOMAIN wire' : IF wire'[i] = Error THEN i = Len(wire') /\ ended'
                                ELSE h + i <= Len(sent') /\ wire'[i] = sent'[h + i]
    <3>1. \A i \in 1..n : wire[i] # Error /\ h + i <= Len(sent) /\ wire[i] = sent[h + i]
      <4>1. \A i \in 1..n : i \in DOMAIN wire
        BY <1>9
      <4>. QED  BY <1>1, <1>8, <4>1 DEF WireAt
    <3>. SUFFICES ASSUME NEW i \in 1..(n + Len(e))
                  PROVE  IF wire'[i] = Error THEN i = Len(wire') /\ ended'
                         ELSE h + i <= Len(sent') /\ wire'[i] = sent'[h + i]
      BY <1>13
    <3>2. CASE i <= n
      <4>0. i \in 1..n
        BY <1>9, <1>11, <3>2
      <4>1. wire'[i] = wire[i]
        BY <1>12, <3>2
      <4>. QED  BY <1>1, <3>1, <4>0, <4>1
    <3>3. CASE i > n
      <4>0. i = n + Len(e) /\ ~(i <= n)
        <5>1. n \in Nat
          BY <1>9
        <5>2. Len(e) \in {0, 1}
          BY <1>11
        <5>3. CASE Len(e) = 0  BY <3>3, <5>1, <5>3
        <5>4. CASE Len(e) = 1  BY <3>3, <5>1, <5>4
        <5>. QED  BY <5>2, <5>3, <5>4
      <4>1. i = Len(wire') /\ wire'[i] = Error
        BY <1>12, <4>0
      <4>. QED  BY <1>1, <4>1
    <3>. QED  BY <1>9, <1>11, <3>2, <3>3
  <2>2. \A m \in Data(sent') : InHand(m)' => m.n <= h
    BY <1>3, <1>4, <1>8 DEF WireAt
  <2>3. Looping' => timed' \/ \A m \in Data(sent') : m.n <= h => InHand(m)'
    BY <1>1, <1>3, <1>4, <1>8 DEF WireAt, Looping, Offering
  <2>. QED  BY <1>1, <2>1, <2>2, <2>3 DEF WireAt
<1>. QED  BY <1>1, <1>4, <1>5, <1>6, <1>7, <1>8, <1>14 DEF StreamInv

(* The worker receives a packet: it comes after all that is in hand, and when it
   is data it is in hand from now on. *)
LEMMA ReceiveStream ==
    ASSUME SearchAssumption, TypeOK, ControlInv, ErrorInv, StreamInv, Receive
    PROVE  /\ StreamInv'
           /\ \A m \in Data(sent) : InHand(m) => InHand(m)'
           /\ Head(wire).what \in Successes => Complete'
<1>1. /\ pc = "loop" /\ Looping /\ ~Offering /\ wire # <<>> /\ wire' = Tail(wire)
      /\ Handle(Head(wire)) /\ UNCHANGED <<got, ch, sent, ended>>
  BY DEF Receive, Looping, Offering, chanVars, consumerVars
<1>2. /\ Len(wire) \in Nat /\ Len(wire) > 0 /\ DOMAIN wire = 1..Len(wire) /\ Head(wire) = wire[1]
      /\ Head(wire) \in Result
      /\ Len(wire') = Len(wire) - 1 /\ DOMAIN wire' = 1..(Len(wire) - 1)
      /\ \A i \in 1..(Len(wire) - 1) : wire'[i] = wire[i + 1]
  <2>1. wire \in Seq(Result)
    BY DEF TypeOK
  <2>. QED  BY <1>1, <2>1, Elements
<1>3. timed' = timed
  BY <1>1, <1>2, HandleType DEF argVars
<1>4. Data(sent)' = Data(sent)
  BY <1>1 DEF Data
<1>5. Len(sent) \in Nat /\ DOMAIN sent = 1..Len(sent)
  BY LenProperties DEF TypeOK
<1>6. PICK h \in 0..Len(sent) : WireAt(h)
  BY DEF StreamInv
<1>7. \A m \in Data(sent) : m.n \in 1..Len(sent) /\ m = sent[m.n] /\ m # Error
  BY DataFacts DEF StreamInv
<1>8. \A m \in Data(sent) : InHand(m) => m \in Range(got) \cup Range(ch) /\ m.n <= h
  BY <1>1, <1>6 DEF InHand, WireAt
<1>9. \A m \in Data(sent) : InHand(m) => InHand(m)'
  BY <1>1, <1>8 DEF InHand
<1>10. timed \/ \A m \in Data(sent) : m.n <= h => InHand(m)
  BY <1>1, <1>6 DEF WireAt
<1>11. SentInv'
  BY <1>1 DEF StreamInv, SentInv
<1>12. CASE Head(wire) = Error
  <2>1. Head(wire).what = "error"
    BY <1>12 DEF Error
  <2>2. pc' = "offer" /\ result' = Error /\ after' = "finish"
    BY <1>1, <2>1 DEF Handle, Offer, Streamed
  <2>3. Len(wire) = 1 /\ ended
    BY <1>2, <1>6, <1>12 DEF WireAt
  <2>4. \A m \in Data(sent) : InHand(m)' => InHand(m)
    BY <1>1, <1>7, <2>2 DEF InHand
  <2>5. OrderInv'
    BY <1>1, <1>4, <2>2 DEF StreamInv, OrderInv
  <2>6. GaplessInv'
    BY <1>3, <1>4, <1>9, <2>4 DEF StreamInv, GaplessInv
  <2>7. WireAt(h)'
    <3>1. DOMAIN wire' = {} /\ ended' /\ ~Looping'
      BY <1>1, <1>2, <2>2, <2>3 DEF Looping
    <3>2. \A m \in Data(sent') : InHand(m)' => m.n <= h
      BY <1>4, <1>8, <2>4
    <3>. QED  BY <3>1, <3>2 DEF WireAt
  <2>8. "error" \notin Successes
    BY DEF Successes
  <2>. QED  BY <1>1, <1>6, <1>9, <1>11, <2>1, <2>5, <2>6, <2>7, <2>8 DEF StreamInv
<1>13. CASE Head(wire) # Error
  <2>0. PICK p \in Result : p = Head(wire)
    BY <1>2
  <2>1. h + 1 \in DOMAIN sent /\ p = sent[h + 1] /\ p.n = h + 1
        /\ p.what \in AllPackets
    <3>1. h + 1 <= Len(sent) /\ wire[1] = sent[h + 1]
      BY <1>2, <1>6, <1>13 DEF WireAt
    <3>2. h + 1 \in DOMAIN sent
      BY <1>5, <3>1
    <3>. QED  BY <1>2, <2>0, <3>1, <3>2 DEF StreamInv, SentInv
  <2>. DEFINE isData == p.what \in Streamed \cup {"done control"}
  <2>2. isData => p \in Data(sent)
    BY <2>1 DEF Data, Range
  <2>3. /\ isData => pc' = "offer" /\ result' = p
        /\ ~isData => result' = Error \/ pc' = "finish"
    <3>1. CASE p.what \in Streamed
      BY <1>1, <2>0, <3>1 DEF Handle, Offer, Streamed
    <3>2. CASE p.what = "done control"
      BY <1>1, <2>0, <3>2 DEF Handle, Offer, Streamed
    <3>3. CASE ~isData
      BY <1>1, <2>0, <3>3 DEF Handle, Offer, Goto, Streamed
    <3>. QED  BY <3>1, <3>2, <3>3
  <2>4. \A m \in Data(sent) : InHand(m)' => InHand(m) \/ (isData /\ m = p)
    <3>. SUFFICES ASSUME NEW m \in Data(sent), InHand(m)', ~InHand(m)
                  PROVE  isData /\ m = p
      OBVIOUS
    <3>1. Offering' /\ m = result'
      BY <1>1 DEF InHand
    <3>2. m # Error /\ pc' # "finish"
      BY <1>7, <3>1 DEF Offering
    <3>. QED  BY <2>3, <3>1, <3>2
  <2>5. isData => InHand(p)'
    BY <2>3 DEF InHand, Offering
  <2>6. OrderInv'
    <3>1. \A i \in DOMAIN got : got[i] \in Data(sent) /\ InHand(got[i])
      BY DEF StreamInv, OrderInv, InHand, Range
    <3>2. \A i \in DOMAIN ch : ch[i] # Error /\ ch[i] \in Data(sent) /\ InHand(ch[i])
      BY <1>1 DEF StreamInv, OrderInv, InHand, Range, ErrorInv, Ending
    <3>3. Offering' /\ result' # Error =>
             /\ result' \in Data(sent)
             /\ \A i \in DOMAIN got : got[i].n < result'.n
             /\ \A i \in DOMAIN ch : ch[i].n < result'.n
      <4>. SUFFICES ASSUME Offering', result' # Error
                    PROVE  /\ result' \in Data(sent)
                           /\ \A i \in DOMAIN got : got[i].n < result'.n
                           /\ \A i \in DOMAIN ch : ch[i].n < result'.n
        OBVIOUS
      <4>1. isData /\ result' = p
        BY <2>3 DEF Offering
      <4>2. \A m \in Data(sent) : InHand(m) => m.n < result'.n
        <5>1. \A m \in Data(sent) : m.n \in Int
          BY <1>7
        <5>2. result'.n = h + 1 /\ h \in Int
          <6>1. p.n = h + 1 /\ result' = p
            BY <2>1, <4>1
          <6>2. h \in Int
            BY <1>5
          <6>. QED  BY <6>1, <6>2
        <5>. QED  BY <1>8, <5>1, <5>2
      <4>. QED  BY <2>2, <3>1, <3>2, <4>1, <4>2
    <3>4. /\ \A i \in DOMAIN got : got[i] \in Data(sent)
          /\ \A i, j \in DOMAIN got : i < j => got[i].n < got[j].n
          /\ \A j \in DOMAIN ch : ch[j] # Error =>
                /\ ch[j] \in Data(sent)
                /\ \A i \in DOMAIN got : got[i].n < ch[j].n
                /\ \A i \in DOMAIN ch : i < j => ch[i].n < ch[j].n
      BY DEF StreamInv, OrderInv
    <3>. QED  BY <1>1, <1>4, <3>3, <3>4 DEF OrderInv
  <2>7. timed \/ (\A m \in Data(sent) : m.n <= h + 1 => InHand(m)')
    <3>. SUFFICES ASSUME ~timed, NEW m \in Data(sent), m.n <= h + 1
                  PROVE  InHand(m)'
      OBVIOUS
    <3>1. CASE m.n <= h
      BY <1>9, <1>10, <3>1
    <3>2. CASE m.n = h + 1
      <4>1. m = p /\ isData
        BY <1>7, <2>1, <3>2 DEF Data
      <4>. QED  BY <2>5, <4>1
    <3>3. m.n \in Int /\ h \in Int
      BY <1>5, <1>7
    <3>. QED  BY <3>1, <3>2, <3>3
  <2>8. \A m \in Data(sent) : InHand(m)' => m.n <= h + 1
    <3>. SUFFICES ASSUME NEW m \in Data(sent), InHand(m)'
                  PROVE  m.n <= h + 1
      OBVIOUS
    <3>1. m.n \in Int /\ h \in Int
      BY <1>5, <1>7
    <3>2. CASE InHand(m)
      BY <1>8, <3>1, <3>2
    <3>3. CASE m = p
      BY <2>1, <3>1, <3>3
    <3>. QED  BY <2>4, <3>2, <3>3
  <2>9. GaplessInv'
    <3>. SUFFICES ASSUME ~timed, NEW m \in Data(sent), NEW x \in Data(sent),
                         InHand(x)', m.n < x.n
                  PROVE  InHand(m)'
      BY <1>3, <1>4 DEF GaplessInv
    <3>1. m.n <= h + 1
      BY <1>5, <1>7, <2>8
    <3>. QED  BY <2>7, <3>1
  <2>10. WireAt(h + 1)'
    <3>1. \A i \in DOMAIN wire' : IF wire'[i] = Error THEN i = Len(wire') /\ ended'
                                  ELSE h + 1 + i <= Len(sent') /\ wire'[i] = sent'[h + 1 + i]
      <4>. SUFFICES ASSUME NEW i \in DOMAIN wire'
                    PROVE  IF wire'[i] = Error THEN i = Len(wire') /\ ended'
                           ELSE h + 1 + i <= Len(sent') /\ wire'[i] = sent'[h + 1 + i]
        OBVIOUS
      <4>1. i + 1 \in DOMAIN wire /\ wire'[i] = wire[i + 1] /\ h + (i + 1) = h + 1 + i
        BY <1>2
      <4>2. IF wire[i + 1] = Error THEN i + 1 = Len(wire) /\ ended
            ELSE h + (i + 1) <= Len(sent) /\ wire[i + 1] = sent[h + (i + 1)]
        BY <1>6, <4>1 DEF WireAt
      <4>. QED  BY <1>1, <1>2, <4>1, <4>2
    <3>2. ~ended' => h + 1 + Len(wire') = Len(sent')
      BY <1>1, <1>2, <1>6 DEF WireAt
    <3>3. \A m \in Data(sent') : InHand(m)' => m.n <= h + 1
      BY <1>4, <2>8
    <3>4. Looping' => timed' \/ \A m \in Data(sent') : m.n <= h + 1 => InHand(m)'
      BY <1>3, <1>4, <2>7
    <3>. QED  BY <3>1, <3>2, <3>3, <3>4 DEF WireAt
  <2>11. h + 1 \in 0..Len(sent')
    BY <1>1, <1>5, <2>1
  <2>12. Head(wire).what \in Successes => Complete'
    <3>. SUFFICES ASSUME p.what \in Successes
                  PROVE  Complete'
      BY <2>0
    <3>1. h + 1 = Len(sent)
      BY <2>1 DEF StreamInv, SentInv
    <3>2. \A m \in Data(sent) : m.n <= h + 1
      BY <1>5, <1>7, <3>1
    <3>3. timed' \/ \A m \in Data(sent') : InHand(m)'
      BY <1>3, <1>4, <2>7, <3>2
    <3>. QED  BY <1>1, <2>1, <3>3 DEF Complete
  <2>. QED  BY <1>9, <1>11, <2>6, <2>9, <2>10, <2>11, <2>12 DEF StreamInv
<1>. QED  BY <1>12, <1>13

-----------------------------------------------------------------------------
(* The stream, and its end *)

LEMMA StreamInit ==
    ASSUME SearchAssumption, Init
    PROVE  StreamInv /\ CompleteInv
<1>1. Len(sent) = 0 /\ DOMAIN sent = {} /\ DOMAIN wire = {} /\ Len(wire) = 0 /\ ~Offering
      /\ DOMAIN got = {} /\ DOMAIN ch = {} /\ Data(sent) = {}
  BY EmptySeq DEF Init, Data, Range, Offering
<1>2. WireAt(0)
  BY <1>1 DEF WireAt
<1>3. StreamInv
  BY <1>1, <1>2 DEF StreamInv, SentInv, OrderInv, GaplessInv
<1>4. CompleteInv
  BY <1>1 DEF Init, CompleteInv, Ending
<1>. QED  BY <1>3, <1>4

(* The steps of the worker that neither take nor move a result. *)
Quiet ==
    \/ TestClosing \/ Encode \/ SendMessage \/ ContextDone \/ ResponsesClosed
    \/ FinishMessage \/ CloseCh
    \/ NextClosed \/ Abandon \/ Cancel \/ ConnCloses \/ UNCHANGED vars

LEMMA QuietStream ==
    ASSUME SearchAssumption, TypeOK, ControlInv, StreamInv, Quiet
    PROVE  StreamInv' /\ \A m \in Data(sent) : InHand(m)' <=> InHand(m)
<1>1. UNCHANGED <<got, ch, sent, wire, ended, timed>>
  BY DEF Quiet, TestClosing, Encode, SendMessage, ContextDone, ResponsesClosed, FinishMessage,
     CloseCh, NextClosed, Abandon, Cancel, ConnCloses, Goto, Offer, OnlyWorker, vars,
     workerVars, argVars, chanVars, connVars, consumerVars
<1>2. CASE UNCHANGED <<pc, result, after>>
  <2>1. Offering' = Offering /\ result' = result /\ Looping' = Looping
    BY <1>2 DEF Offering, Looping
  <2>. QED  BY <1>1, <2>1, NoResultStream
<1>3. CASE ~Offering /\ (pc' = "offer" => result' = Error) /\ pc' # "offer.plain"
           /\ (Looping' => Data(sent) = {})
  <2>1. Offering' => result' = Error
    BY <1>3 DEF Offering
  <2>. QED  BY <1>1, <1>3, <2>1, NoResultStream
<1>4. CASE SendMessage
  <2>1. Data(sent) = {}
    <3>1. sent = <<>>
      BY <1>4 DEF SendMessage, ControlInv
    <3>2. DOMAIN sent = {}
      BY <3>1
    <3>. QED  BY <3>2 DEF Data, Range
  <2>. QED  BY <1>3, <1>4, <2>1 DEF SendMessage, Goto, Offer, Offering
<1>5. CASE TestClosing \/ Encode \/ ContextDone \/ ResponsesClosed \/ FinishMessage \/ CloseCh
  BY <1>3, <1>5 DEF TestClosing, Encode, ContextDone, ResponsesClosed, FinishMessage, CloseCh,
     Goto, Offer, Offering, Looping
<1>6. CASE NextClosed \/ Abandon \/ Cancel \/ ConnCloses \/ UNCHANGED vars
  BY <1>2, <1>6 DEF NextClosed, Abandon, Cancel, ConnCloses, vars, workerVars
<1>. QED  BY <1>4, <1>5, <1>6 DEF Quiet

(* The results stay in order, without gaps and in step with the wire. *)
LEMMA StreamNext ==
    ASSUME SearchAssumption, TypeOK, ControlInv, ErrorInv, StreamInv, [Next]_vars
    PROVE  StreamInv'
<1>1. CASE Next_
  <2>1. UNCHANGED connVars
    BY <1>1 DEF Next_
  <2>2. CASE ch # <<>> /\ Received(Head(ch)) /\ ch' = Tail(ch) /\ UNCHANGED workerVars
    BY <2>1, <2>2, TakenStream
  <2>3. CASE bufferSize = 0 /\ Offering /\ Received(result) /\ Goto(after) /\ UNCHANGED ch
    BY <2>1, <2>3, HandedStream
  <2>. QED  BY <1>1, <2>2, <2>3 DEF Next_
<1>. QED  BY <1>1, QuietStream, ReceiveStream, BufferedStream, CancelledStream, ServerStream,
          DroppedStream, GiveUpStream DEF Next, Worker, Consumer, Quiet

(* What is complete stays complete while all in hand stays in hand. *)
LEMMA CompleteKept ==
    ASSUME SearchAssumption, Complete, UNCHANGED <<sent, timed>>,
           \A m \in Data(sent) : InHand(m) => InHand(m)'
    PROVE  Complete'
<1>1. Data(sent)' = Data(sent)
  BY DEF Data
<1>. QED  BY <1>1 DEF Complete

(* A step that does not leave the loop, nor takes a result from ch. *)
LEMMA StillComplete ==
    ASSUME SearchAssumption, TypeOK, CompleteInv,
           Complete => Complete', UNCHANGED <<err, last, ch>>,
           Offering' /\ result' # Error =>
               Offering /\ result # Error /\ (after' = "finish" => after = "finish"),
           Ending' => Ending, pc' = "exited" => pc = "exited",
           chClosed => chClosed', cancelled => cancelled', connErr => connErr',
           closing => closing', registered' = registered, panicked' = panicked
    PROVE  CompleteInv'
<1>1. Offering' /\ after' = "finish" /\ result' # Error => Complete'
  BY DEF CompleteInv
<1>2. Ending' => \/ cancelled' \/ err' \/ Complete'
                 \/ \E i \in DOMAIN ch' : ch'[i] = Error
                 \/ closing' /\ ~registered'
                 \/ panicked' /\ (pc' = "exited" => connErr')
  BY DEF CompleteInv
<1>3. last' = "false" /\ ~err' => chClosed' /\ ch' = <<>>
  BY DEF CompleteInv
<1>. QED  BY <1>1, <1>2, <1>3 DEF CompleteInv

(* The worker leaves its loop for a reason, and it is still there when the
   consumer sees the end. *)
LEMMA CompleteNext ==
    ASSUME SearchAssumption, TypeOK, ControlInv, ErrorInv, StreamInv, CompleteInv, [Next]_vars
    PROVE  CompleteInv'
<1>. DEFINE Reason == \/ cancelled \/ err \/ Complete
                      \/ \E i \in DOMAIN ch : ch[i] = Error
                      \/ closing /\ ~registered
                      \/ panicked /\ (pc = "exited" => connErr)
            Ends == last = "false" /\ ~err => chClosed /\ ch = <<>>
<1>0. last = "false" /\ ~err => pc = "exited"
  BY DEF CompleteInv, ControlInv
<1>1. CASE Quiet
  <2>1. Complete => Complete'
    <3>1. UNCHANGED <<sent, timed>>
      BY <1>1 DEF Quiet, TestClosing, Encode, SendMessage, ContextDone, ResponsesClosed,
         FinishMessage, CloseCh, NextClosed, Abandon, Cancel, ConnCloses, Goto, Offer, OnlyWorker,
         vars, workerVars, argVars, chanVars, connVars, consumerVars
    <3>. QED  BY <1>1, <3>1, QuietStream, CompleteKept
  <2>2. CASE TestClosing
    BY <1>0, <2>1, <2>2 DEF TestClosing, Goto, OnlyWorker, CompleteInv, ControlInv, Ending,
       Offering, argVars, chanVars, connVars, consumerVars
  <2>3. CASE Encode \/ SendMessage \/ ResponsesClosed
    <3>1. /\ ~Ending' /\ pc # "exited" /\ UNCHANGED <<last, err>>
          /\ Offering' => result' = Error
      BY <2>3 DEF Encode, SendMessage, ResponsesClosed, Goto, Offer, OnlyWorker, Ending,
         Offering, consumerVars
    <3>. QED  BY <1>0, <3>1 DEF CompleteInv
  <2>4. CASE ContextDone
    BY <1>0, <2>4 DEF ContextDone, Goto, OnlyWorker, CompleteInv, Offering, consumerVars
  <2>5. CASE FinishMessage \/ CloseCh
    <3>1. /\ Ending /\ ~Offering' /\ pc # "exited" /\ UNCHANGED <<last, err, ch, cancelled, closing,
                                                                  registered, panicked>>
          /\ panicked /\ pc' = "exited" => connErr'
      BY <2>5 DEF FinishMessage, CloseCh, Goto, Ending, Offering, connVars, chanVars, consumerVars
    <3>2. Reason
      BY <3>1 DEF CompleteInv
    <3>3. Reason'
      BY <2>1, <3>1, <3>2
    <3>. QED  BY <1>0, <3>1, <3>3 DEF CompleteInv
  <2>6. CASE NextClosed
    <3>1. chClosed' /\ ch' = <<>> /\ UNCHANGED <<pc, after, result, cancelled, err, ch, closing,
                                                registered, panicked, connErr>>
      BY <2>6 DEF NextClosed, workerVars, chanVars, connVars
    <3>2. Offering' = Offering /\ Ending' = Ending
      BY <3>1 DEF Offering, Ending
    <3>3. Reason => Reason'
      BY <2>1, <3>1
    <3>. QED  BY <2>1, <3>1, <3>2, <3>3 DEF CompleteInv
  <2>7. CASE Abandon \/ Cancel \/ ConnCloses \/ UNCHANGED vars
    <3>1. /\ UNCHANGED <<pc, after, result, err, last, ch, chClosed, connErr, registered, panicked>>
          /\ cancelled => cancelled'
          /\ closing => closing'
      BY <2>7 DEF Abandon, Cancel, ConnCloses, vars, workerVars, chanVars, connVars, consumerVars
    <3>2. Offering' = Offering /\ Ending' = Ending
      BY <3>1 DEF Offering, Ending
    <3>. QED  BY <2>1, <3>1, <3>2, StillComplete
  <2>. QED  BY <1>1, <2>2, <2>3, <2>4, <2>5, <2>6, <2>7 DEF Quiet
<1>2. CASE Receive
  <2>0. PICK p \in Result : p = Head(wire)
    BY <1>2, HeadTailProperties DEF Receive, TypeOK
  <2>1. pc = "loop" /\ Handle(p) /\ UNCHANGED <<last, err>>
    BY <1>2, <2>0 DEF Receive, consumerVars
  <2>2. p.what \in Successes => Complete'
    BY <1>2, <2>0, ReceiveStream
  <2>3. CASE p.what \in Streamed
    <3>1. pc' = "offer" /\ after' = "loop"
      BY <2>1, <2>3 DEF Handle, Offer, Streamed
    <3>. QED  BY <1>0, <2>1, <3>1 DEF CompleteInv, Ending
  <2>4. CASE p.what \in Successes
    BY <1>0, <2>1, <2>2, <2>4 DEF CompleteInv
  <2>5. CASE p.what = "short"
    <3>1. pc' = "finish" /\ panicked'
      BY <2>1, <2>5 DEF Handle, Streamed
    <3>. QED  BY <1>0, <2>1, <3>1 DEF CompleteInv, Offering
  <2>6. CASE p.what \notin Streamed \cup Successes \cup {"short"}
    <3>1. pc' \in {"offer", "offer.plain"} /\ result' = Error
      BY <2>1, <2>6 DEF Handle, Offer, Successes
    <3>. QED  BY <1>0, <2>1, <3>1 DEF CompleteInv, Ending
  <2>. QED  BY <2>3, <2>4, <2>5, <2>6
<1>3. CASE SendBuffered
  <2>1. /\ Offering /\ ~Offering' /\ pc' = after /\ pc # "exited"
        /\ UNCHANGED <<last, err, sent, timed>> /\ ch' = Append(ch, result)
    BY <1>3 DEF SendBuffered, Goto, Offering, TypeOK, argVars, connVars, consumerVars
  <2>2. Complete => Complete'
    BY <1>3, <2>1, BufferedStream, CompleteKept
  <2>3. Len(ch) + 1 \in DOMAIN ch' /\ ch'[Len(ch) + 1] = result
    <3>1. ch \in Seq(Result) /\ result \in Result
      BY DEF TypeOK
    <3>. QED  BY <2>1, <3>1, Elements
  <2>4. Ending' => result = Error \/ Complete
    <3>1. Ending' => after \in {"finish", "close"}
      BY <2>1 DEF Ending, TypeOK
    <3>2. Offering /\ after = "close" => result = Error
      BY DEF ControlInv
    <3>3. Offering /\ after = "finish" /\ result # Error => Complete
      BY DEF CompleteInv
    <3>. QED  BY <2>1, <3>1, <3>2, <3>3
  <2>. QED  BY <1>0, <2>1, <2>2, <2>3, <2>4 DEF CompleteInv
<1>4. CASE SendCancelled
  BY <1>0, <1>4 DEF SendCancelled, Goto, OnlyWorker, CompleteInv, Offering, TypeOK, consumerVars
<1>5. CASE Next_
  <2>1. UNCHANGED <<connVars, chClosed, cancelled, connErr>>
    BY <1>5 DEF Next_
  <2>2. CASE ch # <<>> /\ Received(Head(ch)) /\ ch' = Tail(ch) /\ UNCHANGED workerVars
    <3>1. Complete => Complete'
      <4>1. UNCHANGED <<sent, timed>>
        BY <2>1, <2>2 DEF connVars, workerVars, argVars
      <4>. QED  BY <2>1, <2>2, <4>1, TakenStream, CompleteKept
    <3>2. UNCHANGED <<pc, after, result, panicked, closing, registered>> /\ Offering' = Offering
          /\ Ending' = Ending
      BY <2>1, <2>2 DEF workerVars, connVars, Offering, Ending
    <3>3. (Head(ch) = Error => err') /\ (last' = "false" => err') /\ ~err
      BY <2>2 DEF Received, ErrorInv
    <3>4. (\E i \in DOMAIN ch : ch[i] = Error) => err' \/ \E i \in DOMAIN ch' : ch'[i] = Error
      <4>1. Range(ch) = Range(ch') \cup {Head(ch)}
        BY <2>2, Elements DEF TypeOK
      <4>2. \A i \in DOMAIN ch : ch[i] \in Range(ch)
        BY DEF Range
      <4>3. Error \in Range(ch') => \E i \in DOMAIN ch' : ch'[i] = Error
        BY DEF Range
      <4>. QED  BY <3>3, <4>1, <4>2, <4>3
    <3>5. Ending' => Reason'
      BY <2>1, <3>1, <3>2, <3>3, <3>4 DEF CompleteInv
    <3>. QED  BY <3>1, <3>2, <3>3, <3>5 DEF CompleteInv
  <2>3. CASE bufferSize = 0 /\ Offering /\ Received(result) /\ Goto(after) /\ UNCHANGED ch
    <3>1. Complete => Complete'
      <4>1. UNCHANGED <<sent, timed>>
        BY <2>1, <2>3 DEF connVars, Goto, argVars
      <4>. QED  BY <2>1, <2>3, <4>1, HandedStream, CompleteKept
    <3>2. ~Offering' /\ pc' = after
      BY <2>3 DEF Goto, Offering, TypeOK
    <3>3. (result = Error => err') /\ (last' = "false" => err')
      BY <2>3 DEF Received
    <3>4. Ending' => result = Error \/ Complete
      <4>1. Ending' => after \in {"finish", "close"}
        BY <2>3, <3>2 DEF Ending, TypeOK
      <4>2. Offering /\ after = "close" => result = Error
        BY DEF ControlInv
      <4>3. Offering /\ after = "finish" /\ result # Error => Complete
        BY DEF CompleteInv
      <4>. QED  BY <2>3, <3>2, <4>1, <4>2, <4>3
    <3>. QED  BY <3>1, <3>2, <3>3, <3>4 DEF CompleteInv
  <2>. QED  BY <1>5, <2>2, <2>3 DEF Next_
<1>6. CASE ServerSends
  <2>1. ~Complete
    BY <1>6 DEF ServerSends, SearchEnded, Complete
  <2>2. UNCHANGED <<pc, after, result, err, last, ch, chClosed, connErr, registered, panicked,
                    cancelled, closing>>
    BY <1>6 DEF ServerSends, workerVars, chanVars, consumerVars
  <2>3. Offering' = Offering /\ Ending' = Ending
    BY <2>2 DEF Offering, Ending
  <2>. QED  BY <2>1, <2>2, <2>3, StillComplete
<1>7. CASE SendResponseDropped \/ GiveUp
  <2>1. /\ UNCHANGED <<pc, after, result, err, last, ch, chClosed, connErr, registered, panicked,
                       cancelled, sent, timed>>
        /\ closing => closing'
    <3>1. CASE SendResponseDropped
      BY <3>1 DEF SendResponseDropped, workerVars, argVars, chanVars, consumerVars
    <3>2. CASE GiveUp
      <4>1. PICK n \in 0..Len(wire), e \in {<<>>, <<Error>>} :
               closing' \in IF e = <<>> THEN {TRUE} ELSE {closing, TRUE}
        BY <3>2 DEF GiveUp
      <4>. QED  BY <3>2, <4>1 DEF GiveUp, workerVars, argVars, chanVars, consumerVars
    <3>. QED  BY <1>7, <3>1, <3>2
  <2>2. Offering' = Offering /\ Ending' = Ending
    BY <2>1 DEF Offering, Ending
  <2>3. Complete => Complete'
    BY <1>7, <2>1, DroppedStream, GiveUpStream, CompleteKept
  <2>. QED  BY <2>1, <2>2, <2>3, StillComplete
<1>. QED  BY <1>1, <1>2, <1>3, <1>4, <1>5, <1>6, <1>7 DEF Next, Worker, Consumer, Quiet

-----------------------------------------------------------------------------
(* Theorems *)

(* The inductive invariant: in every behaviour of an asynchronous search the
   results the worker and the consumer hold are packets of the server in their
   order, without gaps unless sendResponse may time out, and the worker leaves
   its loop only for a reason that the consumer can learn. *)
THEOREM AsyncInvariant == Spec => []AsyncInv
<1>1. Init => AsyncInv
  BY SearchAssumption, TypesInit, StreamInit DEF AsyncInv
<1>2. AsyncInv /\ [Next]_vars => AsyncInv'
  BY SearchAssumption, TypesNext, ErrorNext, StreamNext, CompleteNext DEF AsyncInv
<1>. QED  BY <1>1, <1>2, PTL DEF Spec

(* The fields of searchResponse and the locals of start keep their types, and
   ch never holds more than its buffer. *)
THEOREM AsyncTypeCorrect == Spec => []TypeOK
<1>1. AsyncInv => TypeOK
  BY DEF AsyncInv
<1>. QED  BY <1>1, AsyncInvariant, PTL

(* Next hands the results out in the order in which the server sent them, and
   without gaps unless sendResponse may time out, for every number of packets
   and every buffer size. *)
THEOREM AsyncAllResults == Spec => []AllResults
<1>1. AsyncInv => AllResults
  <2>. SUFFICES ASSUME AsyncInv
                PROVE  AllResults
    OBVIOUS
  <2>. USE DEF AsyncInv, StreamInv
  <2>1. /\ \A i, j \in DOMAIN got : i < j => got[i].n < got[j].n
        /\ \A i \in DOMAIN got : got[i] \in Data(sent)
    BY DEF OrderInv
  <2>2. ASSUME ~timed, NEW m \in Data(sent), NEW i \in DOMAIN got, m.n < got[i].n
        PROVE  m \in Range(got)
    <3>1. InHand(got[i])
      BY DEF InHand, Range
    <3>2. InHand(m)
      BY <2>1, <2>2, <3>1 DEF GaplessInv
    <3>3. m.n \in Int /\ m # Error /\ got[i].n \in Int
      BY <2>1, SearchAssumption, DataFacts
    <3>4. \A j \in DOMAIN ch : ch[j] # Error => got[i].n < ch[j].n
      BY DEF OrderInv
    <3>5. Offering /\ result # Error => got[i].n < result.n
      BY DEF OrderInv
    <3>6. m \notin Range(ch) /\ ~(Offering /\ m = result)
      BY <2>2, <3>3, <3>4, <3>5 DEF Range
    <3>. QED  BY <3>2, <3>6 DEF InHand
  <2>. QED  BY <2>1, <2>2 DEF AllResults, Range
<1>. QED  BY <1>1, AsyncInvariant, PTL

(* When Next reports the end and Err is nil, the search is complete, or was
   cancelled, or ended in one of the two silent ways of start. *)
THEOREM AsyncEndMeansComplete == Spec => []EndMeansComplete
<1>1. AsyncInv => EndMeansComplete
  <2>. SUFFICES ASSUME AsyncInv, last = "false", ~err, ~cancelled,
                       ~(closing /\ ~registered), ~connErr
                PROVE  /\ \E i \in DOMAIN sent : sent[i].what \in Successes
                       /\ timed \/ Data(sent) \subseteq Range(got)
    BY DEF EndMeansComplete
  <2>1. pc = "exited" /\ ch = <<>> /\ DOMAIN ch = {} /\ ~Offering
    BY DEF AsyncInv, CompleteInv, ControlInv, Offering
  <2>2. Complete
    BY <2>1 DEF AsyncInv, CompleteInv, Ending
  <2>. QED  BY <2>1, <2>2 DEF Complete, InHand, Range
<1>. QED  BY <1>1, AsyncInvariant, PTL

(* Once ch is closed the request has been finished, so that a consumer that has
   seen the end may go on to StartTLS. *)
THEOREM AsyncFinishedBeforeEnd == Spec => []FinishedBeforeEnd
<1>1. AsyncInv => FinishedBeforeEnd
  BY DEF AsyncInv, ControlInv, FinishedBeforeEnd
<1>. QED  BY <1>1, AsyncInvariant, PTL

(* No later Next clears an error that Next has reported. *)
THEOREM AsyncErrorIsFinal == Spec => ErrorIsFinal
<1>1. AsyncInv /\ [Next]_vars => [err => err']_vars
  <2>. SUFFICES ASSUME AsyncInv, [Next]_vars, err
                PROVE  err'
    OBVIOUS
  <2>1. ch = <<>> /\ ~Offering
    BY DEF AsyncInv, ErrorInv, Ending, Offering
  <2>2. ~Next_
    BY <2>1 DEF Next_
  <2>3. err' = err
    BY <2>2 DEF Next, Worker, Consumer, TestClosing, Encode, SendMessage, ContextDone,
       ResponsesClosed, Receive, SendBuffered, SendCancelled, FinishMessage, CloseCh, NextClosed,
       Abandon, Cancel, ServerSends, SendResponseDropped, GiveUp, ConnCloses, OnlyWorker, vars,
       consumerVars
  <2>. QED  BY <2>3
<1>. QED  BY <1>1, AsyncInvariant, PTL DEF Spec, ErrorIsFinal
=============================================================================
