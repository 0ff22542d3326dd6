------------------------------- MODULE Search -------------------------------
(***************************************************************************)
(* Synchronous searches with one SearchRequest (v3/search.go): Search,     *)
(* SearchWithPaging and DirSync, the control each leaves in the request,   *)
(* and a server (external) that answers page by page.                      *)
(*                                                                         *)
(* The entries that match are 1..N.  A cookie is the number of entries the *)
(* server has returned so far; 0 is the empty cookie.                      *)
(***************************************************************************)
EXTENDS Integers, Sequences, FiniteSetsExt

CONSTANTS
    Ops,            \* the calls made, a subset of {"search", "paging", "dirsync"}
    N,              \* number of matching entries
    Sizes,          \* values of pagingSize; 0 is no limit
    SizeLimits,     \* values of SizeLimit when EnforceSizeLimit is set; 0 is none
    MaxCalls,       \* bound: calls made with the request
    MaxEmpty        \* bound: pages without entries the server returns

Absent == [is |-> "absent", size |-> 0, cookie |-> 0]
Foreign == [is |-> "foreign", size |-> 0, cookie |-> 0]
Control(size, cookie) == [is |-> "control", size |-> size, cookie |-> cookie]

ASSUME SearchAssumption ==
    /\ Ops \subseteq {"search", "paging", "dirsync"}
    /\ N \in Nat /\ Sizes \subseteq Nat /\ SizeLimits \subseteq Nat
    /\ MaxCalls \in Nat /\ MaxEmpty \in Nat

VARIABLES
    sizeLimit,  \* SizeLimit of the request with EnforceSizeLimit, or 0
    pc,         \* "idle", about to send a request ("request") or reading ("read")
    op,         \* the call
    paging,     \* the control of type ControlTypePaging in the request
    dirsync,    \* the control of type ControlTypeDirSync in the request
    arg,        \* the cookie given to DirSync, or with which paging began
    known,      \* the cookie the last DirSync returned to the caller
    entries,    \* result.Entries of the Search under way
    acc,        \* searchResult.Entries of SearchWithPaging
    ret,        \* what the last call returned
    calls,      \* calls made (bound)
    answer,     \* the answer the server is giving
    empty       \* pages without entries (bound)

reqVars == <<sizeLimit, paging, dirsync>>
callVars == <<op, arg, calls>>
vars == <<pc, reqVars, callVars, known, entries, acc, ret, answer, empty>>

NoAnswer == [asked |-> 0, next |-> 1, upto |-> 0, is |-> "absent", cookie |-> 0]
Returned(es, e) == [entries |-> es, err |-> e]

Init ==
    /\ pc = "idle" /\ op = "search"
    /\ paging \in {Absent, Foreign} \cup {Control(s, 0) : s \in Sizes}
    /\ dirsync = Absent /\ sizeLimit \in SizeLimits
    /\ arg = 0 /\ known = 0
    /\ entries = <<>> /\ acc = <<>> /\ ret = Returned(<<>>, FALSE)
    /\ calls = 0 /\ answer = NoAnswer /\ empty = 0

-----------------------------------------------------------------------------
Call(o) ==
    /\ pc = "idle" /\ calls < MaxCalls /\ o \in Ops
    /\ op' = o /\ calls' = calls + 1
    /\ UNCHANGED <<sizeLimit, known, entries, answer, empty>>

(* A call that fails before it sends anything. *)
Refuse == pc' = "idle" /\ ret' = Returned(<<>>, TRUE) /\ UNCHANGED acc

Begin == pc' = "request" /\ acc' = <<>> /\ UNCHANGED ret

CallSearch ==
    /\ Call("search")
    /\ Begin
    /\ UNCHANGED <<paging, dirsync, arg>>

CallPaging(size) ==
    /\ Call("paging")
    /\ \/ /\ paging.is = "absent"
          /\ paging' = Control(size, 0) /\ arg' = 0 /\ Begin
       \/ /\ paging.is = "control" /\ paging.size = size
          /\ arg' = paging.cookie /\ Begin /\ UNCHANGED paging
       \/ /\ paging.is = "foreign" \/ (paging.is = "control" /\ paging.size # size)
          /\ Refuse /\ UNCHANGED <<paging, arg>>
    /\ UNCHANGED dirsync

(* A control already in the request is kept as it is.  flags stands for the
   flags and the attribute count, both compared in the same way. *)
CallDirSync(flags, cookie) ==
    /\ Call("dirsync")
    /\ \/ dirsync.is = "absent" /\ dirsync' = Control(flags, cookie) /\ Begin
       \/ dirsync.is = "control" /\ dirsync.size = flags /\ Begin
          /\ UNCHANGED dirsync
       \/ dirsync.is = "control" /\ dirsync.size # flags /\ Refuse
          /\ UNCHANGED dirsync
    /\ arg' = cookie
    /\ UNCHANGED paging

-----------------------------------------------------------------------------
(* What the call does when Search returns result.Entries = es, the control in
   its result and an error or none. *)

Return(r) == pc' = "idle" /\ ret' = r

SetCookie(cookie) == paging' = [paging EXCEPT !.cookie = cookie]

(* Faulty: only the last page is returned. *)
PageReturnsLast(es, e) ==
    /\ acc' = es
    /\ IF e \/ answer.is = "absent" \/ answer.cookie = 0
         THEN Return(Returned(acc', e)) /\ UNCHANGED paging
         ELSE SetCookie(answer.cookie) /\ pc' = "request" /\ UNCHANGED ret

(* The loop of SearchWithPaging ends with an error, without a paging control
   and with an empty cookie, and otherwise asks for the next page. *)
PageReturns(es, e) ==
    /\ acc' = acc \o es
    /\ IF e \/ answer.is = "absent" \/ answer.cookie = 0
         THEN Return(Returned(acc', e)) /\ UNCHANGED paging
         ELSE SetCookie(answer.cookie) /\ pc' = "request" /\ UNCHANGED ret

SearchReturns(es, e) ==
    /\ \/ op = "paging" /\ PageReturns(es, e) /\ UNCHANGED known
       \/ op = "search" /\ Return(Returned(es, e)) /\ UNCHANGED <<acc, paging, known>>
       \/ /\ op = "dirsync"
          /\ Return(Returned(IF e THEN <<>> ELSE es, e))
          /\ known' = IF e THEN known ELSE answer.cookie
          /\ UNCHANGED <<acc, paging>>
    /\ UNCHANGED <<sizeLimit, dirsync, callVars, empty>>

-----------------------------------------------------------------------------
(* Search *)

(* doRequest fails. *)
RequestFails ==
    /\ pc = "request"
    /\ SearchReturns(<<>>, TRUE)
    /\ UNCHANGED <<entries, answer>>

(* The server (external) chooses its answer to the request it gets: entries up
   to some position, and the control to return. *)
Answers ==
    LET c == IF op = "dirsync" THEN dirsync ELSE paging
        size == IF op = "dirsync" \/ c.size = 0 THEN N ELSE c.size
        last == Min({N, c.cookie + size})
        A(u, k) == [asked |-> c.cookie, next |-> c.cookie + 1, upto |-> u,
                    is |-> "control", cookie |-> k]
    IN  IF c.is # "control" THEN {[NoAnswer EXCEPT !.upto = N]}
        ELSE {A(u, IF op # "dirsync" /\ u = N THEN 0 ELSE u) :
                  u \in {v \in c.cookie..last : v > 0 \/ N = 0}}
             \cup IF op = "paging" /\ c.cookie = 0 THEN {[NoAnswer EXCEPT !.upto = N]}
                  ELSE {}

RequestSent ==
    /\ pc = "request"
    /\ pc' = "read"
    /\ entries' = <<>>
    /\ answer' \in Answers
    /\ IF op = "paging" /\ answer'.upto < answer'.next /\ answer'.cookie # 0
         THEN empty < MaxEmpty /\ empty' = empty + 1
         ELSE UNCHANGED empty
    /\ UNCHANGED <<reqVars, callVars, known, acc, ret>>

(* Faulty: the limit is tested after the entry is appended. *)
LimitReachedLate == sizeLimit > 0 /\ Len(entries) > sizeLimit

LimitReached == sizeLimit > 0 /\ Len(entries) >= sizeLimit

(* SearchResultEntry: over the limit, with undecodable attributes, or kept. *)
ReadEntry ==
    /\ pc = "read" /\ answer.next <= answer.upto
    /\ \/ /\ ~LimitReached
          /\ entries' = Append(entries, answer.next)
          /\ answer' = [answer EXCEPT !.next = @ + 1]
          /\ UNCHANGED <<pc, reqVars, callVars, known, acc, ret, empty>>
       \/ SearchReturns(entries, TRUE) /\ UNCHANGED <<entries, answer>>

(* Faulty: the loop is only left by a SearchResultDone with controls. *)
ReadDoneControlled ==
    /\ pc = "read" /\ answer.next > answer.upto
    /\ answer.is = "control"
    /\ SearchReturns(entries, FALSE)
    /\ UNCHANGED <<entries, answer>>

(* SearchResultDone with a success. *)
ReadDone ==
    /\ pc = "read" /\ answer.next > answer.upto
    /\ SearchReturns(entries, FALSE)
    /\ UNCHANGED <<entries, answer>>

(* readPacket fails, or SearchResultDone carries another result code or a
   control that cannot be decoded. *)
ReadFails ==
    /\ pc = "read"
    /\ SearchReturns(entries, TRUE)
    /\ UNCHANGED <<entries, answer>>

-----------------------------------------------------------------------------
Next ==
    \/ CallSearch
    \/ \E s \in Sizes : CallPaging(s)
    \/ \E f \in Sizes, k \in {0, known} : CallDirSync(f, k)
    \/ RequestFails \/ RequestSent \/ ReadEntry \/ ReadDone \/ ReadFails

Spec == Init /\ [][Next]_vars

(* The server answers: requests are sent and their answers read to the end. *)
FairSpec == Spec /\ WF_vars(RequestSent) /\ WF_vars(ReadEntry \/ ReadDone)

-----------------------------------------------------------------------------
(* Properties *)

Controls == [is : {"absent", "foreign", "control"}, size : Sizes \cup {0}, cookie : 0..N]

(* The request, the results and the answer have their types. *)
TypeOK ==
    /\ pc \in {"idle", "request", "read"}
    /\ op \in {"search", "paging", "dirsync"}
    /\ {paging, dirsync} \subseteq Controls
    /\ arg \in 0..N /\ known \in 0..N
    /\ entries \in Seq(1..N) /\ acc \in Seq(1..N)
    /\ sizeLimit \in SizeLimits /\ ret.entries \in Seq(1..N) /\ ret.err \in BOOLEAN
    /\ calls \in 0..MaxCalls /\ empty \in 0..MaxEmpty
    /\ answer \in [asked : 0..N, next : 1..(N + 1), upto : 0..N,
                   is : {"absent", "control"}, cookie : 0..N]

(* SearchWithPaging, begun with an empty cookie, returns the entries in order,
   none twice and none left out: all of them when it succeeds, and those
   received so far when it fails ("all results that have been received so far
   will be returned", search.go:534). *)
PagingComplete ==
    LET es == ret.entries IN
    pc = "idle" /\ op = "paging" /\ arg = 0 =>
        /\ \A i \in DOMAIN es : es[i] = i
        /\ ~ret.err => Len(es) = N

(* EnforceSizeLimit (search.go:437-439) is a hard limit on the entries Search
   and DirSync return, and on each page of SearchWithPaging, whatever the
   server sends. *)
SizeLimitHard ==
    sizeLimit > 0 => /\ Len(entries) <= sizeLimit
                     /\ pc = "idle" /\ op # "paging" => Len(ret.entries) <= sizeLimit

(* Search, DirSync and the loop of SearchWithPaging return when the server
   answers what it is asked, whatever controls its answers carry. *)
CallReturns == pc # "idle" ~> pc = "idle"

(* ExampleConn_DirSync (examples_test.go:438-454): the request is sent with
   the cookie given to the call, so that each call goes on from the last. *)
DirSyncSendsCookie == pc = "read" /\ op = "dirsync" => answer.asked = arg
=============================================================================
