------------------------------ MODULE Controls ------------------------------
(***************************************************************************)
(* Controls, v3/control.go, and the descriptions that v3/ldap.go adds to    *)
(* every packet the reader receives, which decode the values of some        *)
(* controls in place.                                                       *)
(*                                                                         *)
(* A control is a record with its type (a name for its OID) and the fields  *)
(* of its Go type.  Encode gives the packet as the other side reads it.     *)
(***************************************************************************)
EXTENDS Packet, SequencesExt, TLC

CONSTANT
    Word    \* the numbers of a uint32: 2^32 in the code, smaller in instances

(* int32(n) and uint32(n) of any integer. *)
Unsigned(n) == n % Word
Signed(n) == IF Unsigned(n) < Word \div 2 THEN Unsigned(n) ELSE Unsigned(n) - Word

(* BeheraPasswordPolicyErrorMap has the errors 0..8. *)
BeheraErrors == 0..8

SortCodes == {0, 1, 2, 8, 11, 16, 18, 50, 51, 53, 80}

-----------------------------------------------------------------------------
(* Encode *)

When(cond, kid) == IF cond THEN <<kid>> ELSE <<>>

EncodePaging(c) ==
    <<OctetString(Pkt(Sequence(<<Integer(c.size), OctetString(c.cookie)>>)))>>

EncodeSDFlags(c) == <<OctetString(Pkt(Sequence(<<Integer(c.flags)>>)))>>

(* The flags are four octets, which are read back as a signed number. *)
EncodeDirSync(c) ==
    <<OctetString(Pkt(Sequence(<<Integer(Signed(c.flags)), Integer(c.max),
                                 OctetString(c.cookie)>>)))>>

EncodeServerSideSorting(c) ==
    LET key(k) == Sequence(<<OctetString(Str(k.attr))>>
                           \o When(k.rule # "", Context(0, Str(k.rule)))
                           \o When(k.reverse, Context(1, Num(1))))
    IN  <<OctetString(Pkt(Sequence([i \in DOMAIN c.keys |-> key(c.keys[i])])))>>

EncodeSyncRequest(c) ==
    <<OctetString(Pkt(Sequence(<<Enumerated(c.mode)>>
                               \o When(c.cookie.v # "", OctetString(c.cookie))
                               \o <<Boolean(c.hint)>>)))>>

(* The criticality is left out when FALSE, except by the two that always
   write it. *)
Encode(c) ==
    LET type == OctetString(Str(c.type))
        crit == CASE c.type \in {"dirsync", "syncRequest"} -> <<Boolean(c.crit)>>
                  [] c.type \in {"manageDsaIT", "sdflags", "other"} ->
                        When(c.crit, Boolean(TRUE))
                  [] OTHER -> <<>>
        value == CASE c.type = "paging" -> EncodePaging(c)
                   [] c.type = "sdflags" -> EncodeSDFlags(c)
                   [] c.type = "dirsync" -> EncodeDirSync(c)
                   [] c.type = "sorting" -> EncodeServerSideSorting(c)
                   [] c.type = "syncRequest" -> EncodeSyncRequest(c)
                   [] c.type = "other" -> When(c.value.v # "", OctetString(c.value))
                   [] OTHER -> <<>>
    IN  Sequence(<<type>> \o crit \o value)

encodeControls(controls) ==
    Constructed("context", 0, [i \in DOMAIN controls |-> Encode(controls[i])])

FindControl(controls, type) ==
    LET i == SelectInSeq(controls, LAMBDA c : c.type = type)
    IN  IF i = 0 THEN Err ELSE Ok(controls[i])

-----------------------------------------------------------------------------
(* The values of single controls *)

(* Decoding a value in place: its packet becomes its child, once. *)
Opened(value) ==
    LET inner == DecodePacketErr(value.data) IN
    IF value.val.k = "nil" THEN Ok(value)
    ELSE IF inner.ok THEN Ok([value EXCEPT !.val = None, !.kids = Append(@, inner.val)])
    ELSE Err

(* Faulty: the number of members is not checked. *)
DecodePagingUnchecked(value) ==
    LET opened == Opened(value)
        seq == Head(opened.val.kids)
    IN  IF value = NoPacket \/ ~opened.ok THEN Err
        ELSE IF opened.val.kids = <<>> \/ Len(seq.kids) < 2 THEN Panic
        ELSE IF seq.kids[1].val.k # "int" THEN Err
        ELSE Ok([type |-> "paging", size |-> Unsigned(seq.kids[1].val.v),
                 cookie |-> seq.kids[2].data])

DecodePaging(value) ==
    LET opened == Opened(value)
        seq == Head(opened.val.kids)
    IN  IF value = NoPacket \/ ~opened.ok THEN Err
        ELSE IF opened.val.kids = <<>> \/ Len(seq.kids) < 2 THEN Err
        ELSE IF seq.kids[1].val.k # "int" THEN Err
        ELSE Ok([type |-> "paging", size |-> Unsigned(seq.kids[1].val.v),
                 cookie |-> seq.kids[2].data])

BeheraMember(result, child) ==
    LET warning == Head(child.kids)
        val == ParseInt64(warning.data)
    IN  IF ~result.ok THEN result
        ELSE CASE child.tag = 0 ->
                    IF child.kids = <<>> THEN Panic
                    ELSE IF ~val.ok THEN Err
                    ELSE IF warning.tag = 0 THEN [result EXCEPT !.val.expire = val.val]
                    ELSE IF warning.tag = 1 THEN [result EXCEPT !.val.grace = val.val]
                    ELSE result
               [] child.tag = 1 ->
                    IF child.data.k = "int" /\ child.data.v \in BeheraErrors
                      THEN [result EXCEPT !.val.error = child.data.v]
                    ELSE Err
               [] OTHER -> result

NewControlBeheraPasswordPolicy ==
    [type |-> "behera", expire |-> -1, grace |-> -1, error |-> -1]

DecodeBehera(value) ==
    LET opened == Opened(value) IN
    IF value = NoPacket THEN Panic
    ELSE IF ~opened.ok THEN Err
    ELSE IF opened.val.kids = <<>> THEN Panic
    ELSE FoldLeft(BeheraMember, Ok(NewControlBeheraPasswordPolicy),
                  Head(opened.val.kids).kids)

(* strconv.ParseInt of the text of the value. *)
DecodeVChuWarning(value) ==
    IF value = NoPacket \/ value.data.k # "string" THEN Err
    ELSE IF value.data.v = "30" THEN Ok([type |-> "vchuWarning", expire |-> 30]) ELSE Err

NewResponseControlDirSync(value) ==
    LET opened == Opened(value)
        seq == Head(opened.val.kids)
    IN  IF value = NoPacket THEN Panic
        ELSE IF ~opened.ok THEN Err
        ELSE IF opened.val.kids = <<>> THEN Panic
        ELSE IF Len(seq.kids) # 3 THEN Err
        ELSE IF seq.kids[1].val.k # "int" \/ seq.kids[2].val.k # "int" THEN Panic
        ELSE Ok([type |-> "dirsync", crit |-> TRUE, flags |-> seq.kids[1].val.v,
                 max |-> seq.kids[2].val.v, cookie |-> seq.kids[3].data])

(* Faulty: the reverse flag is taken for a universal boolean. *)
SortKeyMemberUniversal(key, child) ==
    CASE child.cls = "universal" /\ child.tag = TagOctetString ->
            IF IsString(child.val) THEN [key EXCEPT !.attr = child.val.v] ELSE key
      [] child.cls = "context" /\ child.tag = 0 -> [key EXCEPT !.rule = child.data.v]
      [] child.cls = "universal" /\ child.tag = TagBoolean -> [key EXCEPT !.reverse = TRUE]
      [] OTHER -> key

SortKeyMember(key, child) ==
    CASE child.cls = "universal" /\ child.tag = TagOctetString ->
            IF IsString(child.val) THEN [key EXCEPT !.attr = child.val.v] ELSE key
      [] child.cls = "context" /\ child.tag = 0 -> [key EXCEPT !.rule = child.data.v]
      [] child.cls = "context" /\ child.tag = 1 ->
            [key EXCEPT !.reverse = child.data.k = "int" /\ child.data.v # 0]
      [] OTHER -> key

NewControlServerSideSorting(value) ==
    LET list == DecodePacketErr(value.data)
        Key(seq) == FoldLeft(SortKeyMember, [attr |-> "", rule |-> "", reverse |-> FALSE],
                             seq.kids)
        seqs == list.val.kids
    IN  IF value = NoPacket THEN Panic
        ELSE IF ~list.ok THEN Err
        ELSE IF seqs = <<>> \/ \E i \in DOMAIN seqs : \/ Len(seqs[i].kids) \notin 1..3
                                                      \/ Key(seqs[i]).attr = "" THEN Err
        ELSE Ok([type |-> "sorting", keys |-> [i \in DOMAIN seqs |-> Key(seqs[i])]])

NewControlServerSideSortingResult(pkt) ==
    LET code == ParseInt64(Head(pkt.kids).data) IN
    IF pkt = NoPacket \/ pkt.kids = <<>> THEN Ok([type |-> "sortResult", result |-> 0])
    ELSE IF ~code.ok \/ code.val \notin SortCodes THEN Err
    ELSE Ok([type |-> "sortResult", result |-> code.val])

-----------------------------------------------------------------------------
(* The controls of content synchronization *)

(* uuid.FromBytes (external). *)
IsUUID(data) == data.k = "string" /\ data.v = "uuid"

NewControlSyncState(pkt) ==
    LET n == Len(pkt.kids) IN
    IF n < 2 THEN Err
    ELSE IF n > 3 THEN Ok([type |-> "syncState", state |-> 0, uuid |-> None, cookie |-> None])
    ELSE IF pkt.kids[1].val.k # "int" THEN Panic
    ELSE IF ~IsUUID(ByteValue(pkt.kids[2])) THEN Err
    ELSE Ok([type |-> "syncState", state |-> pkt.kids[1].val.v,
             uuid |-> ByteValue(pkt.kids[2]),
             cookie |-> IF n = 3 THEN ByteValue(pkt.kids[3]) ELSE None])

(* Faulty: a cookie is expected to come first and a flag second. *)
parseSyncMembersByPosition(kids) ==
    [cookie |-> IF Len(kids) > 0 THEN ByteValue(kids[1]) ELSE None,
     flag |-> IF Len(kids) > 1 THEN kids[2].val ELSE None,
     set |-> IF Len(kids) > 2 THEN kids[3] ELSE NoPacket]

(* The last member of each tag; a flag that is not a bool does not count. *)
parseSyncMembers(kids) ==
    LET cookie == SelectLastInSeq(kids, LAMBDA p : p.tag = TagOctetString)
        flag == SelectLastInSeq(kids, LAMBDA p : p.tag = TagBoolean /\ p.val.k = "bool")
        set == SelectLastInSeq(kids, LAMBDA p : p.tag = TagSet)
    IN  [cookie |-> IF cookie = 0 THEN None ELSE ByteValue(kids[cookie]),
         flag |-> IF flag = 0 THEN None ELSE kids[flag].val,
         set |-> IF set = 0 THEN NoPacket ELSE kids[set]]

Default(flag, val) == IF flag.k = "nil" THEN val ELSE flag.v

NewControlSyncDone(pkt) ==
    LET m == parseSyncMembers(pkt.kids)
    IN  Ok([type |-> "syncDone", cookie |-> m.cookie,
            refreshDeletes |-> Default(m.flag, FALSE)])

NewControlSyncInfo(pkt) ==
    LET m == parseSyncMembers(pkt.kids)
        uuids == IF m.set = NoPacket THEN <<>> ELSE m.set.kids
        Refresh(value) == Ok([type |-> "syncInfo", value |-> value, cookie |-> m.cookie,
                              refreshDone |-> Default(m.flag, TRUE)])
    IN  CASE pkt.tag = 0 -> Ok([type |-> "syncInfo", value |-> "newCookie",
                                cookie |-> ByteValue(pkt)])
          [] pkt.tag = 1 -> Refresh("refreshDelete")
          [] pkt.tag = 2 -> Refresh("refreshPresent")
          [] pkt.tag = 3 ->
                IF \A i \in DOMAIN uuids : IsUUID(ByteValue(uuids[i]))
                  THEN Ok([type |-> "syncInfo", value |-> "syncIdSet", cookie |-> m.cookie,
                           refreshDeletes |-> Default(m.flag, FALSE), n |-> Len(uuids)])
                ELSE Err
          [] OTHER -> Err

(* The value of such a control is a packet of its own. *)
SyncValue(type, value) ==
    LET pkt == DecodePacketErr(value.data)
    IN  CASE value = NoPacket -> Panic
          [] value # NoPacket /\ ~pkt.ok -> Err
          [] value # NoPacket /\ pkt.ok ->
                IF type = "syncState" THEN NewControlSyncState(pkt.val)
                ELSE IF type = "syncDone" THEN NewControlSyncDone(pkt.val)
                ELSE NewControlSyncInfo(pkt.val)

-----------------------------------------------------------------------------
(* DecodeControl *)

(* The type, the criticality and the value among the children: the second of
   two is the criticality if it is a bool, and else the value. *)
ControlHeader(packet) ==
    LET kids == packet.kids
        n == Len(kids)
        type == IF kids[1].val.k = "nil" THEN kids[1].data ELSE kids[1].val
        hasBool == n > 1 /\ kids[2].val.k = "bool"
    IN  IF n \notin 1..3 THEN Err
        ELSE IF n # 2 /\ ~IsString(kids[1].val) THEN Err
        ELSE IF n = 2 /\ kids[1].val.k \notin {"nil", "string", "pkt"} THEN Err
        ELSE IF n = 3 /\ ~hasBool THEN Err
        ELSE Ok([type |-> type.v, crit |-> hasBool /\ kids[2].val.v,
                 value |-> IF n = 1 \/ (n = 2 /\ hasBool) THEN NoPacket ELSE kids[n]])

DecodeControl(packet) ==
    LET header == ControlHeader(packet)
        type == header.val.type
        value == header.val.value
    IN  IF ~header.ok THEN Err
        ELSE CASE type = "manageDsaIT" -> Ok([type |-> type, crit |-> header.val.crit])
               [] type = "paging" -> DecodePaging(value)
               [] type = "behera" -> DecodeBehera(value)
               [] type = "vchuWarning" -> DecodeVChuWarning(value)
               [] type \in {"vchuMustChange", "notification", "showDeleted", "linkTTL",
                            "subtreeDelete"} -> Ok([type |-> type])
               [] type = "sorting" -> NewControlServerSideSorting(value)
               [] type = "sortResult" -> NewControlServerSideSortingResult(value)
               [] type = "dirsync" -> NewResponseControlDirSync(value)
               [] type \in {"syncState", "syncDone", "syncInfo"} -> SyncValue(type, value)
               [] OTHER -> Ok([type |-> type, crit |-> header.val.crit,
                               value |-> IF value = NoPacket THEN Str("") ELSE value.data])

-----------------------------------------------------------------------------
(* addControlDescriptions.  What matters of it are the values it leaves
   decoded in place, and where it stops. *)

(* Faulty: the decoded packet is not attached to the value. *)
DescribePagingDetached(value) ==
    LET inner == DecodePacketErr(value.data)
    IN  IF value.val.k = "nil"
          THEN [pkt |-> value, stop |-> value.kids = <<>> \/ Len(Head(value.kids).kids) < 2]
        ELSE IF ~inner.ok THEN [pkt |-> value, stop |-> TRUE]
        ELSE [pkt |-> [value EXCEPT !.val = None, !.data = None], stop |-> FALSE]

(* A value with a single member has lost its Value and its Data when indexing
   the second member panics. *)
DescribePaging(value) ==
    LET inner == DecodePacketErr(value.data)
        emptied == [value EXCEPT !.val = None, !.data = None]
    IN  IF value.val.k = "nil"
          THEN [pkt |-> value, stop |-> value.kids = <<>> \/ Len(Head(value.kids).kids) < 2]
        ELSE IF ~inner.ok THEN [pkt |-> value, stop |-> TRUE]
        ELSE IF Len(inner.val.kids) < 2 THEN [pkt |-> emptied, stop |-> TRUE]
        ELSE [pkt |-> [value EXCEPT !.val = None, !.kids = Append(@, inner.val)],
              stop |-> FALSE]

DescribeBehera(value) ==
    LET opened == Opened(value) IN
    IF ~opened.ok THEN [pkt |-> value, stop |-> TRUE]
    ELSE [pkt |-> opened.val, stop |-> ~DecodeBehera(value).ok]

(* One control: the header must be as expected, or the whole walk stops. *)
DescribeControl(packet) ==
    LET n == Len(packet.kids)
        hasValue == n = 3 \/ (n = 2 /\ packet.kids[2].val.k # "bool")
        type == packet.kids[1].val.v
        d == IF type = "paging" THEN DescribePaging(packet.kids[n])
             ELSE DescribeBehera(packet.kids[n])
    IN  IF n \notin 1..3 THEN [pkt |-> packet, stop |-> TRUE]
        ELSE IF ~IsString(packet.kids[1].val) THEN [pkt |-> packet, stop |-> TRUE]
        ELSE IF ~hasValue \/ type \notin {"paging", "behera"}
          THEN [pkt |-> packet, stop |-> FALSE]
        ELSE [pkt |-> [packet EXCEPT !.kids[n] = d.pkt], stop |-> d.stop]

addControlDescriptions(controls) ==
    LET stops == {i \in DOMAIN controls : DescribeControl(controls[i]).stop}
    IN  [i \in DOMAIN controls |->
            IF \E j \in stops : j < i THEN controls[i] ELSE DescribeControl(controls[i]).pkt]
=============================================================================
