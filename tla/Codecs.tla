------------------------------- MODULE Codecs -------------------------------
(***************************************************************************)
(* The codecs of the library over every input of bounded size.  A behaviour *)
(* builds one input, an item at a time, for one of the codecs:              *)
(*                                                                         *)
(*   dn, filter, postal, digest   texts; an item is a piece of text         *)
(*   names                        distinguished names; an item is a         *)
(*                                RelativeDN                                *)
(*   requests                     lists of the controls of a request        *)
(*   controls                     lists of controls as a server sends them  *)
(*   sync                         members of a content synchronization value *)
(***************************************************************************)
EXTENDS DN, Filter, PostalAddress, Challenge, Controls

CONSTANTS
    Codecs,     \* the codecs to explore
    Items,      \* the items of the inputs of each codec
    MaxItems,   \* bound: items of an input of each codec
    Values      \* the values of the controls of a server, a sequence of packets

VARIABLES
    codec,      \* whose input this is
    input       \* its items so far

vars == <<codec, input>>

Init == codec \in Codecs /\ input = <<>>

Extend ==
    /\ Len(input) < MaxItems[codec]
    /\ \E item \in Items[codec] : input' = Append(input, item)
    /\ UNCHANGED codec

Next == Extend

Spec == Init /\ [][Next]_vars

text == FlattenSeq(input)

(* The ways to see a sequence of relative names as a pair of names. *)
Pairs == {<<SubSeq(input, 1, i), Drop(input, i)>> : i \in 0..Len(input)}

(* A control as a server sends it: a type, possibly of the wrong class, with
   or without a criticality, which may not be a bool, and a value. *)
ControlOf(item) ==
    Sequence(<<IF item.form = "context" THEN Context(0, Str(item.type))
                                        ELSE OctetString(Str(item.type))>>
             \o When(item.crit # "none",
                     IF item.crit = "bool" THEN Boolean(TRUE) ELSE OctetString(Str("yes")))
             \o When(item.value > 0, Values[item.value]))

received == [i \in DOMAIN input |-> ControlOf(input[i])]

(* A member of a syncInfoValue. *)
Member == [cookie |-> OctetString(Str("ck")), set |-> Constructed("universal", TagSet, <<>>),
           yes |-> Boolean(TRUE), no |-> Boolean(FALSE)]

-----------------------------------------------------------------------------
(* Properties *)

(* What ParseDN accepts is what String writes, up to the case of types and the
   order of attributes, and String is a normal form: parsing it again gives a
   name that is Equal to the first and has the same string. *)
DNRoundTrip ==
    codec = "dn" => \A parsed \in {ParseDN(text)} : parsed.ok =>
        \A again \in {ParseDN(DNString(parsed.val))} :
            /\ again.ok /\ DNEqual(parsed.val, again.val)
            /\ DNString(again.val) = DNString(parsed.val)

(* Blanks around a name mean nothing, also after an escaped blank and after an
   escaped backslash.  (After a value in the "#" form they are an error.) *)
DNBlanks ==
    codec = "dn" /\ ~Contains(text, "#") => \A parsed \in {ParseDN(text)} : parsed.ok =>
        ParseDN(<<" ">> \o text) = parsed /\ ParseDN(text \o <<" ">>) = parsed

(* A text escaped with EscapeDN and put behind "x=" is one attribute with that
   value, whatever separators, spaces, signs and escapes the text contains. *)
EscapeDNInert ==
    codec = "dn" =>
        ParseDN(<<"x", "=">> \o EscapeDN(text))
            = Ok(<< <<[type |-> <<"x">>, value |-> text]>> >>)

(* Two relative names match when a bijection pairs their attributes. *)
Matches(r, other, Eq(_, _)) ==
    \E f \in Bijection(DOMAIN r, DOMAIN other) : \A i \in DOMAIN r : Eq(r[i], other[f[i]])

(* The comparisons of names are the matching of RFC 4517, which counts equal
   attributes, and their strings say the same as Equal does. *)
DNComparisons ==
    codec = "names" => \A pair \in Pairs :
        LET d == pair[1]
            e == pair[2]
            Same(Eq(_, _), x, y) ==
                Len(x) = Len(y) /\ \A i \in DOMAIN x : Matches(x[i], y[i], Eq)
            Below(Eq(_, _)) == \E i \in 1..Len(e) : Same(Eq, d, Drop(e, i))
        IN  /\ DNEqual(d, e) <=> Same(AttrEqual, d, e)
            /\ DNEqualFold(d, e) <=> Same(AttrEqualFold, d, e)
            /\ DNEqual(d, e) <=> DNString(d) = DNString(e)
            /\ AncestorOf(d, e) <=> Below(AttrEqual)
            /\ AncestorOfFold(d, e) <=> Below(AttrEqualFold)

(* Attributes and rules that DecompileFilter can write as they are, and
   substrings that have a part ("=**" has none).  A rule "dn" comes from ":dn"
   without ":=", which CompileFilter accepts and which reads as the dn flag
   once ":=" is written after it. *)
RECURSIVE Plain(_)
Plain(p) ==
    CASE p.op \in {"and", "or", "not"} -> \A i \in DOMAIN p.kids : Plain(p.kids[i])
      [] p.op = "ext" -> /\ (ToSet(p.attr) \cup ToSet(p.rule)) \cap MustEscape = {}
                         /\ p.rule = <<"d", "n">> => p.dn
      [] p.op = "substr" -> p.parts # <<>> /\ ToSet(p.attr) \cap MustEscape = {}
      [] p.op = "nil" -> FALSE
      [] OTHER -> ToSet(p.attr) \cap MustEscape = {}

(* What CompileFilter accepts, DecompileFilter writes as a filter with the
   same packet, and a substring filter is open at the ends at which it was. *)
FilterRoundTrip ==
    codec = "filter" => \A compiled \in {CompileFilter(text)} :
        compiled.ok /\ Plain(compiled.val) =>
            \A written \in {DecompileFilter(compiled.val)} :
                /\ CompileFilter(written) = compiled
                /\ compiled.val.op = "substr" /\ IsPrefix(<<"(", "x", "=">>, text) =>
                     /\ written[4] = "*" <=> text[4] = "*"
                     /\ written[Len(written) - 1] = "*" <=> text[Len(text) - 1] = "*"

(* compileFilter turns a panic into a nil packet without an error, and no
   such packet is ever returned by CompileFilter. *)
RECURSIVE Whole(_)
Whole(p) ==
    /\ p.op \notin {"nil", "unfinished"}
    /\ p.op \in {"and", "or", "not"} => \A i \in DOMAIN p.kids : Whole(p.kids[i])

FilterWhole ==
    codec = "filter" =>
        \A compiled \in {CompileFilter(text)} : compiled.ok => Whole(compiled.val)

(* A text escaped with EscapeFilter stays the value it was written for. *)
EscapeFilterInert ==
    codec = "filter" =>
        CompileFilter(<<"(", "x", "=">> \o EscapeFilter(text) \o <<")">>)
            = Ok([op |-> "eq", attr |-> <<"x">>, val |-> text])

(* An address survives Escape and ParsePostalAddress line by line, also when
   its lines contain the separator and the escape character, and parsing an
   escaped address and escaping it again changes nothing more. *)
PostalRoundTrip ==
    codec = "postal" =>
        /\ LET a == NewPostalAddress(Split(text, "nl")) IN
           a.ok => ParsePostalAddress(EscapeAddress(a.val)) = a
        /\ LET a == ParsePostalAddress(text) IN
           a.ok => ParsePostalAddress(EscapeAddress(a.val)) = a

(* Client and server compute the digest from the same values: what the server
   quotes in its challenge is what parseParams returns, whatever blanks are
   around the directives, and what it reads in the response is what was
   hashed. *)
DigestAgrees ==
    codec = "digest" /\ ToSet(text) \cap {"b82", "b88"} = {} =>
        LET challenge == <<" ">> \o Quoted(<<"realm">>, text) \o <<" ", ",", "tab">>
                             \o Quoted(<<"nonce">>, <<"n">>)
            params == parseParams(challenge)
            sent == computeResponse(params.val, <<"u">>, text, <<"p">>)
            read == parseParams(sent.text)
        IN  /\ params = Ok(<<"realm">> :> text @@ <<"nonce">> :> <<"n">>)
            /\ read.ok
            /\ Digest(read.val[<<"user">>], read.val[<<"realm">>], <<"p">>,
                      read.val[<<"nonce">>], <<>>, read.val[<<"uri">>])
                 = sent.response

(* What DecodeControl makes of the controls of a request is what was encoded,
   in their order, with the criticality and the optional members that are not
   written when they have their default.  The flags of DirSync come back as a
   signed number.  The controls that only a client sends come back as generic
   controls, and that of Behera, which has no value then, is the one that
   cannot be decoded. *)
ControlsRoundTrip ==
    codec = "requests" =>
        LET packet == encodeControls(input) IN
        \A i \in DOMAIN input :
            LET c == input[i]
                d == DecodeControl(packet.kids[i])
            IN  CASE c.type = "behera" -> Panicked(d)
                  [] c.type \in {"sdflags", "syncRequest"} ->
                        d.ok /\ d.val.type = c.type /\ d.val.crit = c.crit
                  [] c.type = "dirsync" -> d = Ok([c EXCEPT !.flags = Signed(@)])
                  [] OTHER -> d = Ok(c)

(* The reader describes every packet before anyone decodes its controls, and
   that decodes values in place, completely or not, for some of the controls
   or all: DecodeControl does not notice. *)
DescribedAlike ==
    codec = "controls" =>
        \A described \in {addControlDescriptions(received)} : \A i \in DOMAIN input :
            DecodeControl(described[i]) = DecodeControl(received[i])

(* Whatever the children of a control are, DecodeControl returns, for the
   types whose value it checks before it looks inside. *)
DecodeReturns ==
    codec = "controls" => \A i \in DOMAIN input :
        input[i].type \notin {"behera", "dirsync", "sorting", "syncState", "syncDone",
                              "syncInfo"}
            => ~Panicked(DecodeControl(received[i]))

(* The members of a syncInfoValue are found whichever of them are present and
   wherever they are, and an absent one has its default. *)
SyncMembersFound ==
    codec = "sync" /\ IsInjective(input) /\ ~(Contains(input, "yes") /\ Contains(input, "no")) =>
        LET kids == [i \in DOMAIN input |-> Member[input[i]]]
            Info(tag) == NewControlSyncInfo(Constructed("context", tag, kids))
            kind == IF Contains(input, "cookie") THEN "string" ELSE "nil"
        IN  /\ \A tag \in 1..3 : Info(tag).ok /\ Info(tag).val.cookie.k = kind
            /\ \A tag \in 1..2 : Info(tag).val.refreshDone = ~Contains(input, "no")
            /\ Info(3).val.refreshDeletes = Contains(input, "yes")
            /\ NewControlSyncDone(Sequence(kids)).val.cookie.k = kind
            /\ NewControlSyncDone(Sequence(kids)).val.refreshDeletes = Contains(input, "yes")
=============================================================================
