------------------------------- MODULE Packet -------------------------------
(***************************************************************************)
(* BER packets as the client reads them (github.com/go-asn1-ber/asn1-ber,   *)
(* external).  A packet is [cls, cons, tag, val, data, kids]: its class and  *)
(* form, its Value, its Data and its Children.  Only a universal primitive   *)
(* has a Value: a bool, an int64 or a string, by its tag.  Values and data   *)
(* are [k, v], a kind and a value of that kind; data of kind "pkt" are the   *)
(* encoding of the packet v, and no other data decode to a packet.           *)
(***************************************************************************)
EXTENDS Integers, Sequences, Outcome

None == [k |-> "nil", v |-> ""]
Bool(b) == [k |-> "bool", v |-> b]
Num(n) == [k |-> "int", v |-> n]
Str(s) == [k |-> "string", v |-> s]
Pkt(p) == [k |-> "pkt", v |-> p]

(* No packet: a nil pointer. *)
NoPacket == [cls |-> "nil"]

Universal(tag, data) ==
    [cls |-> "universal", cons |-> FALSE, tag |-> tag, val |-> data, data |-> data,
     kids |-> <<>>]

Context(tag, data) ==
    [cls |-> "context", cons |-> FALSE, tag |-> tag, val |-> None, data |-> data,
     kids |-> <<>>]

Constructed(cls, tag, kids) ==
    [cls |-> cls, cons |-> TRUE, tag |-> tag, val |-> None, data |-> None,
     kids |-> kids]

TagBoolean == 1
TagInteger == 2
TagOctetString == 4
TagEnumerated == 10
TagSequence == 16
TagSet == 17

OctetString(data) == Universal(TagOctetString, data)
Integer(n) == Universal(TagInteger, Num(n))
Enumerated(n) == Universal(TagEnumerated, Num(n))
Boolean(b) == Universal(TagBoolean, Bool(b))
Sequence(kids) == Constructed("universal", TagSequence, kids)

IsString(val) == val.k \in {"string", "pkt"}

(* DecodePacketErr and ParseInt64. *)
DecodePacketErr(data) == IF data.k = "pkt" THEN Ok(data.v) ELSE Err

ParseInt64(data) == IF data.k = "int" THEN Ok(data.v) ELSE Err

(* ByteValue, which only universal primitives have. *)
ByteValue(p) == IF p.cls = "universal" /\ ~p.cons THEN p.data ELSE None
=============================================================================
