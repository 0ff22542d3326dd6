--------------------------------- MODULE DN ---------------------------------
(***************************************************************************)
(* Distinguished names, v3/dn.go, and EscapeDN of v3/ldap.go.               *)
(*                                                                         *)
(* An AttributeTypeAndValue is a record of two texts, a RelativeDN a        *)
(* sequence of those and a DN a sequence of RelativeDNs.                    *)
(***************************************************************************)
EXTENDS Text

-----------------------------------------------------------------------------
(* Case folding *)

(* unicode.SimpleFold (external): the runes that differ only in case, by code
   point.  "longs" is U+017F, the only one here that is not ASCII. *)
Orbits == {<<"S", "s", "longs">>, <<"X", "x">>}

OrbitOf(r) ==
    IF \E o \in Orbits : r \in ToSet(o) THEN CHOOSE o \in Orbits : r \in ToSet(o)
    ELSE <<r>>

SimpleFold(r) ==
    LET o == OrbitOf(r)
        i == SelectInSeq(o, LAMBDA s : s = r)
    IN  o[(i % Len(o)) + 1]

(* strings.EqualFold (external) *)
EqualFoldText(s, t) ==
    Len(s) = Len(t) /\ \A i \in DOMAIN s : OrbitOf(s[i]) = OrbitOf(t[i])

RECURSIVE foldRune(_)
foldRune(r) ==
    LET r2 == SimpleFold(r)
        At(x) == SelectInSeq(OrbitOf(r), LAMBDA s : s = x)
    IN  IF At(r2) <= At(r) THEN r ELSE foldRune(r2)

Lower == ("S" :> "s") @@ ("X" :> "x")

foldString(s) ==
    [i \in DOMAIN s |-> IF s[i] = "longs" THEN foldRune(s[i])
                        ELSE IF s[i] \in DOMAIN Lower THEN Lower[s[i]] ELSE s[i]]

-----------------------------------------------------------------------------
(* Decoding and encoding one type or value *)

Trim(s) ==
    LET first == SelectInSeq(s, LAMBDA c : c # " ")
    IN  IF first = 0 THEN <<>>
        ELSE SubSeq(s, first, SelectLastInSeq(s, LAMBDA c : c # " "))

(* Faulty: a space after any backslash is kept. *)
stripLastBackslash(inVal) ==
    LET noSpaces == Trim(inVal) IN
    IF /\ noSpaces # <<>> /\ Last(inVal) = " " /\ Last(noSpaces) = "\\"
      THEN Append(noSpaces, " ") ELSE noSpaces

stripLeadingAndTrailingSpaces(inVal) ==
    LET noSpaces == Trim(inVal)
        backslashes == Len(noSpaces) - SelectLastInSeq(noSpaces, LAMBDA c : c # "\\")
    IN  IF noSpaces # <<>> /\ Last(inVal) = " " /\ backslashes % 2 = 1
          THEN Append(noSpaces, " ") ELSE noSpaces

Special == {" ", "\"", "#", "+", ",", ";", "<", "=", ">", "\\"}

RECURSIVE Unescape(_)
Unescape(s) ==
    CASE s = <<>> -> Ok(<<>>)
      [] s # <<>> /\ Head(s) # "\\" ->
            IF Head(s) \in {"\"", ";", "<", ">", "nul"} THEN Err
            ELSE Then(Head(s), Unescape(Tail(s)))
      [] Len(s) > 1 /\ Head(s) = "\\" /\ s[2] \in Special ->
            Then(s[2], Unescape(Drop(s, 2)))
      [] Len(s) > 2 /\ Head(s) = "\\" /\ s[2] \notin Special
                    /\ IsHex(<<s[2], s[3]>>) ->
            Then(Unhex(<<s[2], s[3]>>), Unescape(Drop(s, 3)))
      [] OTHER -> Err

decodeString(str) == Unescape(stripLeadingAndTrailingSpaces(str))

(* Faulty: a space at the end is written as it is. *)
encodeStringLeading(value, isValue) ==
    FlattenSeq([i \in DOMAIN value |->
        LET char == value[i] IN
        IF \/ i = 1 /\ char \in {" ", "#"}
           \/ char \in {"\"", "+", ",", ";", "<", ">", "\\"}
           \/ ~isValue /\ char = "="
          THEN <<"\\", char>>
        ELSE IF char \in {"nul", "stx"} THEN <<"\\">> \o Hex[char]
        ELSE <<char>>])

encodeString(value, isValue) ==
    FlattenSeq([i \in DOMAIN value |->
        LET char == value[i] IN
        IF \/ i = 1 /\ char \in {" ", "#"}
           \/ i = Len(value) /\ char = " "
           \/ char \in {"\"", "+", ",", ";", "<", ">", "\\"}
           \/ ~isValue /\ char = "="
          THEN <<"\\", char>>
        ELSE IF char \in {"nul", "stx"} THEN <<"\\">> \o Hex[char]
        ELSE <<char>>])

(* Faulty: only the end that comes first in the text is looked at. *)
EscapeDNLeading(dn) ==
    FlattenSeq([i \in DOMAIN dn |->
        IF \/ i = 1 /\ dn[i] \in {" ", "#"}
           \/ dn[i] \in {"\"", "+", ",", ";", "<", ">", "\\"}
          THEN <<"\\", dn[i]>>
        ELSE IF dn[i] = "nul" THEN <<"\\", "0", "0">> ELSE <<dn[i]>>])

EscapeDN(dn) ==
    FlattenSeq([i \in DOMAIN dn |->
        IF \/ i \in {1, Len(dn)} /\ dn[i] = " "
           \/ i = 1 /\ dn[i] = "#"
           \/ dn[i] \in {"\"", "+", ",", ";", "<", ">", "\\"}
          THEN <<"\\", dn[i]>>
        ELSE IF dn[i] = "nul" THEN <<"\\", "0", "0">> ELSE <<dn[i]>>])

(* ber.ReadPacket (external) on octets: a tag, a length, and the contents. *)
ContentLen == [nul |-> 0, stx |-> 2]

RECURSIVE HexOctets(_)
HexOctets(s) ==
    IF s = <<>> THEN Ok(<<>>)
    ELSE IF Len(s) > 1 /\ IsHex(SubSeq(s, 1, 2))
      THEN Then(Unhex(SubSeq(s, 1, 2)), HexOctets(Drop(s, 2)))
    ELSE Err

(* Exactly one element: no octets are left after it. *)
decodeEncodedString(str) ==
    LET decoded == HexOctets(str)
        octets == decoded.val
    IN  IF /\ decoded.ok /\ Len(octets) > 1
           /\ octets[2] \in DOMAIN ContentLen
           /\ Len(octets) = 2 + ContentLen[octets[2]]
          THEN Ok(Drop(octets, 2)) ELSE Err

setValue(s) ==
    IF s # <<>> /\ Head(s) = "#" THEN decodeEncodedString(Tail(s))
    ELSE decodeString(s)

-----------------------------------------------------------------------------
(* ParseDN *)

(* Where the loop over the characters is: what it has built, the type of the
   attribute being read (empty until its "=") and the start of what follows. *)
Start0 == [ok |-> TRUE, rdns |-> <<>>, attrs |-> <<>>, type |-> <<>>,
           escaping |-> FALSE, startPos |-> 1]

Failed(st) == [st EXCEPT !.ok = FALSE]

setType(st, s, next) ==
    LET result == decodeString(s) IN
    [st EXCEPT !.ok = result.ok, !.type = result.val, !.startPos = next]

(* The attribute is complete; the relative name too when end is set. *)
appendAttributesToRDN(st, s, end, next) ==
    LET value == setValue(s)
        attrs == Append(st.attrs, [type |-> st.type, value |-> value.val])
    IN  IF ~value.ok THEN Failed(st)
        ELSE [st EXCEPT !.rdns = IF end THEN Append(@, attrs) ELSE @,
                        !.attrs = IF end THEN <<>> ELSE attrs,
                        !.type = <<>>, !.startPos = next]

ParseStep(str, st, i) ==
    LET char == str[i]
        read == SubSeq(str, st.startPos, i - 1)
    IN  IF ~st.ok THEN st
        ELSE IF st.escaping THEN [st EXCEPT !.escaping = FALSE]
        ELSE IF char = "\\" THEN [st EXCEPT !.escaping = TRUE]
        ELSE IF char = "=" /\ st.type = <<>> THEN setType(st, read, i + 1)
        ELSE IF char \notin {",", "+", ";"} THEN st
        ELSE IF st.type = <<>> THEN Failed(st)
        ELSE appendAttributesToRDN(st, read, char # "+", i + 1)

(* After the loop: the last attribute ends with the text. *)
ParseEnd(str, st) ==
    LET end == appendAttributesToRDN(st, SubSeq(str, st.startPos, Len(str)), TRUE, 0)
    IN  IF st.ok /\ st.type # <<>> /\ end.ok THEN Ok(end.rdns) ELSE Err

ParseDN(str) ==
    IF Trim(str) = <<>> THEN Ok(<<>>)
    ELSE ParseEnd(str, FoldLeftDomain(LAMBDA s, i : ParseStep(str, s, i), Start0, str))

-----------------------------------------------------------------------------
(* The normalized strings *)

AttrString(a) ==
    encodeString(foldString(a.type), FALSE) \o <<"=">> \o encodeString(a.value, TRUE)

(* The order of octets, which sort.Strings compares. *)
Octets == <<" ", "\"", "#", "+", ",", "0", "2", ";", "=", "S", "X", "\\", "s",
            "x", "longs">>

Less(s, t) ==
    LET At(c) == SelectInSeq(Octets, LAMBDA o : o = c) IN
    \/ IsStrictPrefix(s, t)
    \/ \E i \in DOMAIN s \cap DOMAIN t :
          /\ SubSeq(s, 1, i - 1) = SubSeq(t, 1, i - 1)
          /\ At(s[i]) < At(t[i])

RDNString(r) == Join(SortSeq([i \in DOMAIN r |-> AttrString(r[i])], Less), "+")

DNString(d) == Join([i \in DOMAIN d |-> RDNString(d[i])], ",")

-----------------------------------------------------------------------------
(* Comparisons, with and without the case of the values *)

AttrEqual(a, b) == EqualFoldText(a.type, b.type) /\ a.value = b.value

AttrEqualFold(a, b) == EqualFoldText(a.type, b.type) /\ EqualFoldText(a.value, b.value)

(* Every attribute has a match of its own: the first of the attributes equal
   to it that is still unmatched. *)
HasAll(equals) ==
    LET Match(acc, equal) ==
            LET free == equal \ acc.matched IN
            IF free = {} THEN [acc EXCEPT !.found = FALSE]
            ELSE [acc EXCEPT !.matched = @ \cup {CHOOSE i \in free : \A j \in free : i <= j}]
    IN  FoldLeft(Match, [found |-> TRUE, matched |-> {}], equals).found

(* Faulty: matches are not consumed. *)
hasAllAttributesSet(r, attrs) ==
    \A i \in DOMAIN attrs : \E j \in DOMAIN r : AttrEqual(r[j], attrs[i])

hasAllAttributes(r, attrs) ==
    HasAll([i \in DOMAIN attrs |-> {j \in DOMAIN r : AttrEqual(r[j], attrs[i])}])

hasAllAttributesFold(r, attrs) ==
    HasAll([i \in DOMAIN attrs |-> {j \in DOMAIN r : AttrEqualFold(r[j], attrs[i])}])

RDNEqual(r, other) ==
    Len(r) = Len(other) /\ hasAllAttributes(r, other) /\ hasAllAttributes(other, r)

RDNEqualFold(r, other) ==
    /\ Len(r) = Len(other)
    /\ hasAllAttributesFold(r, other) /\ hasAllAttributesFold(other, r)

DNEqual(d, other) ==
    Len(d) = Len(other) /\ \A i \in DOMAIN d : RDNEqual(d[i], other[i])

DNEqualFold(d, other) ==
    Len(d) = Len(other) /\ \A i \in DOMAIN d : RDNEqualFold(d[i], other[i])

AncestorOf(d, other) ==
    /\ Len(d) < Len(other)
    /\ \A i \in DOMAIN d : RDNEqual(d[i], other[Len(other) - Len(d) + i])

AncestorOfFold(d, other) ==
    /\ Len(d) < Len(other)
    /\ \A i \in DOMAIN d : RDNEqualFold(d[i], other[Len(other) - Len(d) + i])

=============================================================================
