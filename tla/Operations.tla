----------------------------- MODULE Operations -----------------------------
(***************************************************************************)
(* What the operations of the library make of the packet that answers their *)
(* request: v3/error.go, request.go, add.go, del.go, modify.go, moddn.go,   *)
(* compare.go, passwdmodify.go, extended.go, whoami.go.                     *)
(*                                                                         *)
(* An outcome is Ok of a result, an Error with its ResultCode (Plain when   *)
(* it is no *Error), or a Panic of the calling goroutine.                   *)
(***************************************************************************)
EXTENDS Controls

Error(code) == [ok |-> FALSE, val |-> <<>>, code |-> code]
Plain == -1
ErrorNetwork == 200
ErrorUnexpectedResponse == 205
ErrorEmptyPassword == 206
LDAPResultCompareFalse == 5
LDAPResultCompareTrue == 6
LDAPResultReferral == 10

ApplicationBindResponse == 1
ApplicationModifyResponse == 7
ApplicationAddResponse == 9
ApplicationDelResponse == 11
ApplicationModifyDNResponse == 13
ApplicationCompareResponse == 15
ApplicationExtendedResponse == 24

TagEOC == 0
TagBitString == 3
TagObjectDescriptor == 7
TagEmbeddedPDV == 11
TagPrintableString == 19

(* ber.Type and uint16, which keep 8 and 16 bits. *)
Type(tag) == tag % 256
Uint16(n) == n % 65536

IsResult(response) ==
    /\ response.cls = "application" /\ response.cons /\ Len(response.kids) >= 3
    /\ Type(response.kids[1].tag) \in {TagInteger, TagEnumerated}

GetLDAPError(packet) ==
    LET response == packet.kids[2]
        kids == response.kids
        code == Uint16(kids[1].val.v)
    IN  IF Len(packet.kids) < 2 THEN Error(ErrorNetwork)
        ELSE IF ~IsResult(response) THEN Error(ErrorNetwork)
        ELSE IF kids[1].val.k = "nil" THEN Error(ErrorNetwork)
        ELSE IF code = 0 THEN Ok(<<>>)
        ELSE IF {Type(kids[2].tag), Type(kids[3].tag)} # {TagOctetString}
          THEN Error(ErrorNetwork)
        ELSE IF kids[2].val.k = "nil" THEN Error(ErrorNetwork)
        ELSE Error(code)

(* The tags of the requests, and of the two responses whose descriptions go
   further than their own. *)
RequestTags == {0, 2, 3, 6, 8, 10, 12, 14, 16, 23}
ApplicationSearchResultEntry == 4
ApplicationSearchResultDone == 5

(* Before the reader passes a packet on it describes it, and with that decodes
   controls in place.  A packet whose members cannot all be described is passed
   on as far as that got: the panic is recovered and the error is logged. *)
addRequestDescriptions(packet) ==
    IF Len(packet.kids) = 3 THEN [packet EXCEPT !.kids[3].kids = addControlDescriptions(@)]
    ELSE packet

addDefaultLDAPResponseDescriptions(packet) ==
    IF Len(packet.kids[2].kids) < 3 THEN packet ELSE addRequestDescriptions(packet)

addLDAPDescriptions(packet) ==
    LET op == packet.kids[2]
        attributes == op.kids[2].kids
    IN  CASE Len(packet.kids) > 1 /\ Type(op.tag) \in RequestTags ->
                addRequestDescriptions(packet)
          [] /\ Len(packet.kids) > 1
             /\ Type(op.tag) \in {ApplicationBindResponse, ApplicationSearchResultDone} ->
                addDefaultLDAPResponseDescriptions(packet)
          [] /\ Len(packet.kids) > 1 /\ Type(op.tag) = ApplicationSearchResultEntry
             /\ Len(op.kids) > 1 /\ \A i \in DOMAIN attributes : Len(attributes[i].kids) > 1 ->
                addRequestDescriptions(packet)
          [] OTHER -> packet

IsErrorWithCode(err, code) == ~err.ok /\ err.code = code

(* Faulty: only the tag of the standard is looked for. *)
getReferralOne(err, packet) ==
    LET response == packet.kids[2]
        IsURIs(p) == /\ p.tag = TagBitString /\ p.cons /\ p.cls = "context"
                     /\ p.kids # <<>> /\ IsString(Head(p.kids).val)
        i == SelectInSeq(response.kids, IsURIs)
    IN  IF ~IsErrorWithCode(err, LDAPResultReferral) \/ i = 0 THEN ""
        ELSE Head(response.kids[i].kids).val.v

(* The first referral, or "". *)
getReferral(err, packet) ==
    LET response == packet.kids[2]
        IsURIs(p) == /\ p.tag \in {TagBitString, TagPrintableString}
                     /\ p.cons /\ p.cls = "context"
                     /\ p.kids # <<>> /\ IsString(Head(p.kids).val)
        i == SelectInSeq(response.kids, IsURIs)
    IN  IF ~IsErrorWithCode(err, LDAPResultReferral) \/ Len(packet.kids) < 2 THEN ""
        ELSE IF ~response.cons \/ response.cls # "application" \/ i = 0 THEN ""
        ELSE Head(response.kids[i].kids).val.v

-----------------------------------------------------------------------------
(* Add, Del, Modify and ModifyDN want a response of their own tag. *)

Result(packet, tag) ==
    IF Len(packet.kids) < 2 \/ packet.kids[2].tag # tag THEN Error(Plain)
    ELSE GetLDAPError(packet)

Add(packet) == Result(packet, ApplicationAddResponse)

Del(packet) == Result(packet, ApplicationDelResponse)

Modify(packet) == Result(packet, ApplicationModifyResponse)

ModifyDN(packet) == Result(packet, ApplicationModifyDNResponse)

(* Faulty: the two answers of the server are errors like any other. *)
CompareUnmatched(packet) ==
    LET err == Result(packet, ApplicationCompareResponse) IN
    IF err.ok THEN Ok(FALSE) ELSE err

Compare(packet) ==
    LET err == Result(packet, ApplicationCompareResponse) IN
    IF IsErrorWithCode(err, LDAPResultCompareTrue) THEN Ok(TRUE)
    ELSE IF IsErrorWithCode(err, LDAPResultCompareFalse) THEN Ok(FALSE)
    ELSE IF err.ok THEN Ok(FALSE) ELSE err

-----------------------------------------------------------------------------
(* Operations with controls and values in their results *)

(* The controls of the message, when it has three parts: the first that cannot
   be decoded is what counts. *)
Decoded(packet, outcome) ==
    LET kids == packet.kids[3].kids
        i == SelectInSeq(kids, LAMBDA p : ~DecodeControl(p).ok)
    IN  IF Len(packet.kids) # 3 \/ i = 0 THEN outcome
        ELSE IF Panicked(DecodeControl(kids[i])) THEN Panic ELSE Error(Plain)

(* A response of another tag is no error here. *)
ModifyWithResult(packet) ==
    LET err == GetLDAPError(packet)
    IN  IF Len(packet.kids) < 2 THEN Error(Plain)
        ELSE IF packet.kids[2].tag # ApplicationModifyResponse THEN Ok("")
        ELSE IF ~err.ok THEN err @@ [referral |-> getReferral(err, packet)]
        ELSE Decoded(packet, Ok(""))

(* The generated password: the last value with a single member of tag 0. *)
PasswordModify(packet) ==
    LET err == GetLDAPError(packet)
        kids == packet.kids[2].kids
        values == SelectSeq(kids, LAMBDA p : p.tag = TagEmbeddedPDV)
        Value(p) == DecodePacketErr(p.data)
        given == SelectLastInSeq(values, LAMBDA p : /\ Len(Value(p).val.kids) = 1
                                                   /\ Head(Value(p).val.kids).tag = TagEOC)
    IN  IF Len(packet.kids) < 2 THEN Error(Plain)
        ELSE IF packet.kids[2].tag # ApplicationExtendedResponse
          THEN Error(ErrorUnexpectedResponse)
        ELSE IF ~err.ok THEN err @@ [referral |-> getReferral(err, packet)]
        ELSE IF \E i \in DOMAIN values : ~Value(values[i]).ok THEN Error(Plain)
        ELSE IF given = 0 THEN Ok("")
        ELSE Ok(Head(Value(values[given]).val.kids).data.v)

(* Any tag will do; the name and the value are told from the result code, which
   has the tag of the name, by their class. *)
Extended(packet) ==
    LET err == GetLDAPError(packet)
        kids == packet.kids[2].kids
        Find(tag) == SelectLastInSeq(kids, LAMBDA p : p.cls = "context" /\ p.tag = tag)
        Data(i) == IF i = 0 THEN None ELSE kids[i].data
    IN  IF ~err.ok THEN err
        ELSE Decoded(packet, Ok([name |-> Data(Find(TagEnumerated)),
                                 value |-> Data(Find(TagEmbeddedPDV))]))

WhoAmI(packet) ==
    LET resp == Extended(packet)
    IN  IF resp.ok THEN Ok(resp.val.value) ELSE resp
=============================================================================
