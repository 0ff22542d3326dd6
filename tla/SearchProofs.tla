---------------------------- MODULE SearchProofs ----------------------------
(* Proofs about Search: its types, that SearchWithPaging returns every entry
   once, and that the size limit is never exceeded. *)
EXTENDS Search, SequenceTheorems, TLAPS

(* While SearchWithPaging runs its control is in the request, and when it began
   with an empty cookie, the cookie counts the entries it has collected. *)
PagingInv ==
    op = "paging" /\ pc # "idle" =>
        /\ paging.is = "control"
        /\ arg = 0 => Len(acc) = paging.cookie /\ \A i \in 1..Len(acc) : acc[i] = i

(* What has been read of an answer, and where the answer leads. *)
ReadInv ==
    pc = "read" =>
        /\ answer.next = answer.asked + Len(entries) + 1
        /\ answer.next <= answer.upto + 1
        /\ \A i \in 1..Len(entries) : entries[i] = answer.asked + i
        /\ op = "paging" => /\ answer.asked = paging.cookie
                            /\ answer.cookie # 0 => answer.cookie = answer.upto
                            /\ answer.cookie = 0 => answer.upto = N
                            /\ answer.is = "absent" => answer.cookie = 0

SearchInv == TypeOK /\ PagingInv /\ ReadInv /\ PagingComplete /\ SizeLimitHard

-----------------------------------------------------------------------------
(* The smaller of two numbers. *)
LEMMA MinOfTwo ==
    ASSUME NEW a \in Int, NEW b \in Int
    PROVE  Min({a, b}) \in {a, b} /\ Min({a, b}) <= a /\ Min({a, b}) <= b
<1>1. \E x \in {a, b} : \A y \in {a, b} : x =< y
  OBVIOUS
<1>. QED  BY <1>1 DEF Min

(* What the server may answer: pages that follow each other, the last of which
   has an empty cookie. *)
LEMMA AnswersType ==
    ASSUME SearchAssumption, SearchInv, NEW a \in Answers
    PROVE  /\ a \in [asked : 0..N, next : 1..(N + 1), upto : 0..N,
                      is : {"absent", "control"}, cookie : 0..N]
           /\ a.next = a.asked + 1 /\ a.next <= a.upto + 1
           /\ op = "paging" /\ paging.is = "control" =>
                 /\ a.asked = paging.cookie
                 /\ a.cookie # 0 => a.cookie = a.upto
                 /\ a.cookie = 0 => a.upto = N
                 /\ a.is = "absent" => a.cookie = 0
<1>. DEFINE c == IF op = "dirsync" THEN dirsync ELSE paging
            size == IF op = "dirsync" \/ c.size = 0 THEN N ELSE c.size
            last == Min({N, c.cookie + size})
            A(u, k) == [asked |-> c.cookie, next |-> c.cookie + 1, upto |-> u,
                        is |-> "control", cookie |-> k]
<1>1. c.cookie \in 0..N /\ size \in Nat /\ N \in Nat
  BY DEF SearchInv, TypeOK, Controls, SearchAssumption
<1>2. last \in Int /\ last <= N
  BY <1>1, MinOfTwo
<1>3. \/ /\ a = [NoAnswer EXCEPT !.upto = N]
         /\ op = "paging" /\ paging.is = "control" => paging.cookie = 0
      \/ \E u \in c.cookie..last :
            (u > 0 \/ N = 0) /\ a = A(u, IF op # "dirsync" /\ u = N THEN 0 ELSE u)
  BY DEF Answers
<1>4. CASE /\ a = [NoAnswer EXCEPT !.upto = N]
           /\ op = "paging" /\ paging.is = "control" => paging.cookie = 0
  BY <1>1, <1>4 DEF NoAnswer
<1>5. CASE \E u \in c.cookie..last :
               (u > 0 \/ N = 0) /\ a = A(u, IF op # "dirsync" /\ u = N THEN 0 ELSE u)
  BY <1>1, <1>2, <1>5
<1>. QED  BY <1>3, <1>4, <1>5
-----------------------------------------------------------------------------
LEMMA InitInv ==
    ASSUME SearchAssumption, Init
    PROVE  SearchInv
<1>1. TypeOK
  <2>1. {paging, dirsync} \subseteq Controls
    BY DEF Init, Absent, Foreign, Control, Controls, SearchAssumption
  <2>2. <<>> \in Seq(1..N)
    BY EmptySeq
  <2>. QED  BY <2>1, <2>2 DEF Init, TypeOK, Returned, NoAnswer, SearchAssumption
<1>2. SizeLimitHard
  BY DEF Init, SizeLimitHard, Returned, SearchAssumption
<1>. QED  BY <1>1, <1>2 DEF Init, SearchInv, PagingInv, ReadInv, PagingComplete

(* A call that begins: SearchWithPaging has collected nothing yet, so that the
   cookie it begins with is what it counts from. *)
LEMMA CallInv ==
    ASSUME SearchAssumption, SearchInv,
           NEW o, Call(o), o \in {"search", "paging", "dirsync"},
           {paging', dirsync'} \subseteq Controls, arg' \in 0..N,
           \/ Begin
           \/ Refuse,
           o = "paging" /\ pc' # "idle" => paging'.is = "control" /\ arg' = paging'.cookie
    PROVE  SearchInv'
<1>. USE DEF SearchInv
<1>0. <<>> \in Seq(1..N) /\ Len(<<>>) = 0
  BY EmptySeq
<1>. DEFINE Result == /\ pc' \in {"idle", "request"} /\ acc' \in Seq(1..N)
                      /\ ret'.entries \in Seq(1..N) /\ ret'.err \in BOOLEAN
                      /\ pc' # "idle" => acc' = <<>>
<1>1. TypeOK'
  <2>1. Result
    <3>1. CASE Begin  BY <1>0, <3>1 DEF Begin, TypeOK
    <3>2. CASE Refuse  BY <1>0, <3>2 DEF Refuse, Returned, TypeOK
    <3>. QED  BY <3>1, <3>2
  <2>2. calls' \in 0..MaxCalls
    BY DEF Call, TypeOK, SearchAssumption
  <2>. QED  BY <2>1, <2>2 DEF TypeOK, Call
<1>2. PagingInv'
  <2>1. CASE Begin
    BY <1>0, <2>1 DEF PagingInv, Call, Begin
  <2>2. CASE Refuse
    BY <2>2 DEF PagingInv, Refuse
  <2>. QED  BY <2>1, <2>2
<1>3. ReadInv'
  BY DEF ReadInv, Call, Begin, Refuse
<1>4. PagingComplete'
  BY <1>0 DEF PagingComplete, Call, Begin, Refuse, Returned
<1>5. SizeLimitHard'
  BY <1>0 DEF SizeLimitHard, Call, Begin, Refuse, Returned, TypeOK, SearchAssumption
<1>. QED  BY <1>1, <1>2, <1>3, <1>4, <1>5

(* Search returns es to the call.  What SearchWithPaging has then is the entries
   from the first on; the next cookie counts them, and without one they are all. *)
LEMMA ReturnInv ==
    ASSUME SearchAssumption, SearchInv,
           NEW es \in Seq(1..N), NEW e \in BOOLEAN,
           pc # "idle",
           sizeLimit > 0 => Len(es) <= sizeLimit,
           \A i \in 1..Len(es) : op = "paging" => es[i] = paging.cookie + i,
           op = "paging" /\ ~e => /\ paging.cookie + Len(es) = answer.upto
                                  /\ answer.cookie # 0 => answer.cookie = answer.upto
                                  /\ answer.cookie = 0 => answer.upto = N
                                  /\ answer.is = "absent" => answer.cookie = 0,
           SearchReturns(es, e), UNCHANGED <<entries, answer>>
    PROVE  SearchInv'
<1>. USE DEF SearchInv
<1>0. <<>> \in Seq(1..N) /\ Len(<<>>) = 0
  BY EmptySeq
<1>1. CASE op # "paging"
  <2>1. TypeOK'
    <3>1. /\ pc' = "idle" /\ ret'.entries \in Seq(1..N) /\ ret'.err \in BOOLEAN
          /\ UNCHANGED <<acc, paging>>
      <4>1. CASE op = "search" /\ Return(Returned(es, e)) /\ UNCHANGED <<acc, paging, known>>
        BY <4>1 DEF Return, Returned
      <4>2. CASE op = "dirsync" /\ Return(Returned(IF e THEN <<>> ELSE es, e))
                 /\ UNCHANGED <<acc, paging>>
        <5>1. (IF e THEN <<>> ELSE es) \in Seq(1..N)
          BY <1>0
        <5>. QED  BY <4>2, <5>1 DEF Return, Returned
      <4>. QED  BY <1>1, <4>1, <4>2 DEF SearchReturns
    <3>2. known' \in 0..N
      BY <1>1 DEF TypeOK, SearchReturns
    <3>. QED  BY <3>1, <3>2 DEF TypeOK, SearchReturns, callVars
  <2>2. SizeLimitHard'
    BY <1>0, <1>1 DEF TypeOK, SizeLimitHard, SearchReturns, Return, Returned, callVars,
                      SearchAssumption
  <2>. QED  BY <1>1, <2>1, <2>2 DEF SearchReturns, Return, callVars, PagingInv, ReadInv,
                                    PagingComplete
<1>2. CASE op = "paging"
  <2>. DEFINE all == acc \o es
  <2>1. /\ all \in Seq(1..N) /\ Len(all) = Len(acc) + Len(es)
        /\ \A i \in 1..Len(all) :
              all[i] = IF i <= Len(acc) THEN acc[i] ELSE es[i - Len(acc)]
    BY ConcatProperties DEF TypeOK
  <2>2. arg = 0 => Len(acc) = paging.cookie /\ \A i \in 1..Len(all) : all[i] = i
    <3>. SUFFICES ASSUME arg = 0 PROVE Len(acc) = paging.cookie /\ \A i \in 1..Len(all) : all[i] = i
      OBVIOUS
    <3>1. Len(acc) = paging.cookie /\ \A i \in 1..Len(acc) : acc[i] = i
      BY <1>2 DEF PagingInv
    <3>2. Len(acc) \in Nat /\ Len(es) \in Nat
      BY DEF TypeOK
    <3>3. ASSUME NEW i \in 1..Len(all) PROVE all[i] = i
      <4>1. CASE i <= Len(acc)  BY <2>1, <3>1, <3>2, <4>1
      <4>2. CASE ~(i <= Len(acc))
        <5>1. i - Len(acc) \in 1..Len(es)  BY <2>1, <3>2, <4>2
        <5>2. es[i - Len(acc)] = paging.cookie + (i - Len(acc))  BY <1>2, <5>1
        <5>. QED  BY <2>1, <3>1, <3>2, <4>2, <5>2
      <4>. QED  BY <4>1, <4>2
    <3>. QED  BY <3>1, <3>3
  <2>3. acc' = all /\ UNCHANGED <<known, sizeLimit, dirsync, op, arg, calls, empty, entries, answer>>
    BY <1>2 DEF SearchReturns, PageReturns, callVars
  <2>4. CASE e \/ answer.is = "absent" \/ answer.cookie = 0
    <3>1. pc' = "idle" /\ ret' = Returned(all, e) /\ paging' = paging
      BY <1>2, <2>4 DEF SearchReturns, PageReturns, Return
    <3>2. TypeOK'
      BY <2>1, <2>3, <3>1 DEF TypeOK, Returned
    <3>3. PagingComplete'
      <4>1. arg = 0 /\ ~e => Len(all) = N
        BY <1>2, <2>1, <2>2, <2>4
      <4>. QED  BY <2>1, <2>2, <2>3, <3>1, <4>1, LenProperties DEF PagingComplete, Returned
    <3>4. SizeLimitHard'
      BY <1>2, <2>3, <3>1 DEF SizeLimitHard
    <3>. QED  BY <3>1, <3>2, <3>3, <3>4 DEF PagingInv, ReadInv
  <2>5. CASE ~(e \/ answer.is = "absent" \/ answer.cookie = 0)
    <3>1. pc' = "request" /\ ret' = ret /\ paging' = [paging EXCEPT !.cookie = answer.cookie]
      BY <1>2, <2>5 DEF SearchReturns, PageReturns, SetCookie
    <3>2. paging \in Controls /\ dirsync \in Controls /\ answer.cookie \in 0..N
      BY DEF TypeOK
    <3>3. paging' \in Controls /\ paging'.cookie = answer.cookie /\ paging'.is = paging.is
      BY <3>1, <3>2 DEF Controls
    <3>4. TypeOK'
      BY <2>1, <2>3, <3>1, <3>2, <3>3 DEF TypeOK
    <3>5. PagingInv'
      <4>1. arg = 0 => Len(all) = answer.cookie
        BY <1>2, <2>1, <2>2, <2>5
      <4>. QED  BY <1>2, <2>2, <2>3, <3>1, <3>3, <4>1 DEF PagingInv
    <3>. QED  BY <1>2, <2>3, <3>1, <3>4, <3>5 DEF ReadInv, PagingComplete, SizeLimitHard
  <2>. QED  BY <2>4, <2>5
<1>. QED  BY <1>1, <1>2

-----------------------------------------------------------------------------
LEMMA CallSearchInv ==
    ASSUME SearchAssumption, SearchInv, CallSearch
    PROVE  SearchInv'
<1>1. {paging', dirsync'} \subseteq Controls /\ arg' \in 0..N
  BY DEF CallSearch, SearchInv, TypeOK
<1>. QED  BY <1>1, CallInv DEF CallSearch

LEMMA CallPagingInv ==
    ASSUME SearchAssumption, SearchInv, NEW s \in Sizes, CallPaging(s)
    PROVE  SearchInv'
<1>1. paging \in Controls /\ dirsync' \in Controls /\ arg \in 0..N
  BY DEF CallPaging, SearchInv, TypeOK
<1>2. paging' \in Controls /\ arg' \in 0..N
  BY <1>1 DEF CallPaging, Controls, Control, SearchAssumption
<1>3. pc' # "idle" => paging'.is = "control" /\ arg' = paging'.cookie
  <2>1. CASE paging' = Control(s, 0) /\ arg' = 0
    BY <2>1 DEF Control
  <2>2. CASE paging.is = "control" /\ arg' = paging.cookie /\ paging' = paging
    BY <2>2
  <2>3. CASE Refuse
    BY <2>3 DEF Refuse
  <2>. QED  BY <2>1, <2>2, <2>3 DEF CallPaging
<1>4. Call("paging") /\ (Begin \/ Refuse)
  BY DEF CallPaging
<1>. QED  BY <1>1, <1>2, <1>3, <1>4, CallInv

LEMMA CallDirSyncInv ==
    ASSUME SearchAssumption, SearchInv, NEW f \in Sizes, NEW k \in {0, known},
           CallDirSync(f, k)
    PROVE  SearchInv'
<1>1. paging' \in Controls /\ dirsync \in Controls /\ known \in 0..N
  BY DEF CallDirSync, SearchInv, TypeOK
<1>2. dirsync' \in Controls /\ arg' \in 0..N
  BY <1>1 DEF CallDirSync, Controls, Control, SearchAssumption
<1>3. Call("dirsync") /\ (Begin \/ Refuse)
  BY DEF CallDirSync
<1>. QED  BY <1>1, <1>2, <1>3, CallInv

LEMMA RequestFailsInv ==
    ASSUME SearchAssumption, SearchInv, RequestFails
    PROVE  SearchInv'
<1>1. <<>> \in Seq(1..N) /\ Len(<<>>) = 0
  BY EmptySeq
<1>2. sizeLimit > 0 => Len(<<>>) <= sizeLimit
  BY <1>1 DEF SearchInv, TypeOK, SearchAssumption
<1>3. pc # "idle" /\ SearchReturns(<<>>, TRUE) /\ UNCHANGED <<entries, answer>>
  BY DEF RequestFails
<1>4. \A i \in 1..Len(<<>>) : op = "paging" => <<>>[i] = paging.cookie + i
  BY <1>1
<1>. QED  BY <1>1, <1>2, <1>3, <1>4, ReturnInv, Zenon

LEMMA RequestSentInv ==
    ASSUME SearchAssumption, SearchInv, RequestSent
    PROVE  SearchInv'
<1>. USE DEF SearchInv
<1>0. <<>> \in Seq(1..N) /\ Len(<<>>) = 0
  BY EmptySeq
<1>. DEFINE a == answer'
<1>1. /\ pc = "request" /\ pc' = "read" /\ entries' = <<>> /\ a \in Answers
      /\ UNCHANGED <<reqVars, callVars, known, acc, ret>>
  BY DEF RequestSent
<1>2. empty' \in 0..MaxEmpty
  BY DEF RequestSent, TypeOK, SearchAssumption
<1>3. /\ a \in [asked : 0..N, next : 1..(N + 1), upto : 0..N,
                is : {"absent", "control"}, cookie : 0..N]
      /\ a.next = a.asked + 1 /\ a.next <= a.upto + 1
      /\ op = "paging" /\ paging.is = "control" =>
            /\ a.asked = paging.cookie
            /\ a.cookie # 0 => a.cookie = a.upto
            /\ a.cookie = 0 => a.upto = N
            /\ a.is = "absent" => a.cookie = 0
  <2>. HIDE DEF a
  <2>. QED  BY <1>1, AnswersType
<1>4. TypeOK'
  BY <1>0, <1>1, <1>2, <1>3 DEF TypeOK, reqVars, callVars
<1>5. PagingInv'
  BY <1>1 DEF PagingInv, reqVars, callVars
<1>6. ReadInv'
  BY <1>0, <1>1, <1>3 DEF ReadInv, PagingInv, reqVars, callVars
<1>7. SizeLimitHard'
  BY <1>0, <1>1 DEF SizeLimitHard, TypeOK, SearchAssumption, reqVars, callVars
<1>. QED  BY <1>1, <1>4, <1>5, <1>6, <1>7 DEF PagingComplete

(* What SearchReturns is given by the steps that read an answer. *)
LEMMA ReadReturns ==
    ASSUME SearchAssumption, SearchInv, pc = "read", NEW e \in BOOLEAN,
           ~e => answer.next > answer.upto,
           SearchReturns(entries, e), UNCHANGED <<entries, answer>>
    PROVE  SearchInv'
<1>1. entries \in Seq(1..N) /\ Len(entries) \in Nat /\ paging.cookie \in 0..N
  BY DEF SearchInv, TypeOK, Controls
<1>2. answer.next \in Nat /\ answer.upto \in Nat /\ answer.asked \in Nat
  BY DEF SearchInv, TypeOK, SearchAssumption
<1>3. sizeLimit > 0 => Len(entries) <= sizeLimit
  BY DEF SearchInv, SizeLimitHard
<1>4. \A i \in 1..Len(entries) : op = "paging" => entries[i] = paging.cookie + i
  BY DEF SearchInv, ReadInv
<1>5. op = "paging" /\ ~e => paging.cookie + Len(entries) = answer.upto
  BY <1>1, <1>2 DEF SearchInv, ReadInv
<1>6. op = "paging" => /\ answer.cookie # 0 => answer.cookie = answer.upto
                       /\ answer.cookie = 0 => answer.upto = N
                       /\ answer.is = "absent" => answer.cookie = 0
  BY DEF SearchInv, ReadInv
<1>. QED  BY <1>1, <1>3, <1>4, <1>5, <1>6, ReturnInv

LEMMA ReadEntryInv ==
    ASSUME SearchAssumption, SearchInv, ReadEntry
    PROVE  SearchInv'
<1>1. CASE SearchReturns(entries, TRUE) /\ UNCHANGED <<entries, answer>>
  BY <1>1, ReadReturns DEF ReadEntry
<1>2. CASE /\ ~LimitReached
           /\ entries' = Append(entries, answer.next)
           /\ answer' = [answer EXCEPT !.next = @ + 1]
           /\ UNCHANGED <<pc, reqVars, callVars, known, acc, ret, empty>>
  <2>. USE DEF SearchInv
  <2>. DEFINE read == Append(entries, answer.next)
  <2>1. pc = "read" /\ answer.next <= answer.upto
    BY DEF ReadEntry
  <2>2. answer \in [asked : 0..N, next : 1..(N + 1), upto : 0..N,
                    is : {"absent", "control"}, cookie : 0..N] /\ N \in Nat
    BY DEF TypeOK, SearchAssumption
  <2>3. /\ answer'.next = answer.next + 1 /\ answer'.asked = answer.asked
        /\ answer'.upto = answer.upto /\ answer'.is = answer.is /\ answer'.cookie = answer.cookie
        /\ answer' \in [asked : 0..N, next : 1..(N + 1), upto : 0..N,
                        is : {"absent", "control"}, cookie : 0..N]
    <3>1. answer'.next = answer.next + 1 /\ answer.next + 1 \in 1..(N + 1)
      BY <1>2, <2>1, <2>2
    <3>. QED  BY <1>2, <2>2, <3>1
  <2>4. /\ read \in Seq(1..N) /\ Len(read) = Len(entries) + 1 /\ Len(entries) \in Nat
        /\ \A i \in 1..Len(entries) : read[i] = entries[i]
        /\ read[Len(entries) + 1] = answer.next
    BY <2>1, <2>2, AppendProperties DEF TypeOK
  <2>5. TypeOK'
    BY <1>2, <2>3, <2>4 DEF TypeOK, reqVars, callVars
  <2>6. ReadInv'
    <3>1. \A i \in 1..Len(read) : read[i] = answer.asked + i
      <4>1. \A i \in 1..Len(entries) : entries[i] = answer.asked + i
        BY <2>1 DEF ReadInv
      <4>2. answer.next = answer.asked + (Len(entries) + 1)
        BY <2>1, <2>2, <2>4 DEF ReadInv
      <4>. QED  BY <2>4, <4>1, <4>2
    <3>2. answer'.next = answer'.asked + Len(read) + 1 /\ answer'.next <= answer'.upto + 1
      BY <2>1, <2>2, <2>3, <2>4 DEF ReadInv
    <3>. QED  BY <1>2, <2>1, <2>3, <3>1, <3>2 DEF ReadInv, reqVars, callVars
  <2>7. SizeLimitHard'
    BY <1>2, <2>1, <2>4 DEF SizeLimitHard, LimitReached, TypeOK, SearchAssumption, reqVars, callVars
  <2>. QED  BY <1>2, <2>1, <2>5, <2>6, <2>7 DEF PagingInv, PagingComplete, reqVars, callVars
<1>. QED  BY <1>1, <1>2 DEF ReadEntry

-----------------------------------------------------------------------------
LEMMA NextInv ==
    ASSUME SearchAssumption, SearchInv, [Next]_vars
    PROVE  SearchInv'
<1>1. CASE CallSearch  BY <1>1, CallSearchInv
<1>2. ASSUME NEW s \in Sizes, CallPaging(s) PROVE SearchInv'  BY <1>2, CallPagingInv
<1>3. ASSUME NEW f \in Sizes, NEW k \in {0, known}, CallDirSync(f, k) PROVE SearchInv'
  BY <1>3, CallDirSyncInv
<1>4. CASE RequestFails  BY <1>4, RequestFailsInv
<1>5. CASE RequestSent  BY <1>5, RequestSentInv
<1>6. CASE ReadEntry  BY <1>6, ReadEntryInv
<1>7. CASE ReadDone  BY <1>7, ReadReturns DEF ReadDone
<1>8. CASE ReadFails  BY <1>8, ReadReturns DEF ReadFails
<1>9. CASE UNCHANGED vars
  BY <1>9 DEF vars, reqVars, callVars, SearchInv, TypeOK, PagingInv, ReadInv, PagingComplete,
              SizeLimitHard
<1>. QED  BY <1>1, <1>2, <1>3, <1>4, <1>5, <1>6, <1>7, <1>8, <1>9 DEF Next

(* The inductive invariant: in every reachable state the cookie in the request
   counts the entries collected, and an answer is read from where it was asked. *)
THEOREM SearchInvariant == Spec => []SearchInv
<1>1. Init => SearchInv  BY InitInv, SearchAssumption
<1>2. SearchInv /\ [Next]_vars => SearchInv'  BY NextInv, SearchAssumption
<1>. QED  BY <1>1, <1>2, PTL DEF Spec

(* The request, the results and the answer keep their types, for any number of
   entries, sizes and calls. *)
THEOREM SearchTypeCorrect == Spec => []TypeOK
<1>1. SearchInv => TypeOK  BY DEF SearchInv
<1>. QED  BY <1>1, SearchInvariant, PTL

(* SearchWithPaging returns every entry once and in order when it succeeds, and
   an initial segment of them when it fails, whatever pages the server makes. *)
THEOREM SearchPagingComplete == Spec => []PagingComplete
<1>1. SearchInv => PagingComplete  BY DEF SearchInv
<1>. QED  BY <1>1, SearchInvariant, PTL

(* No call returns more entries than an enforced SizeLimit, and no page of
   SearchWithPaging holds more. *)
THEOREM SearchSizeLimit == Spec => []SizeLimitHard
<1>1. SearchInv => SizeLimitHard  BY DEF SearchInv
<1>. QED  BY <1>1, SearchInvariant, PTL
=============================================================================
