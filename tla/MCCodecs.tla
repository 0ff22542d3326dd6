------------------------------ MODULE MCCodecs ------------------------------
(* The pieces the bounded inputs of Codecs are made of. *)
EXTENDS Codecs

Chars(S) == {<<c>> : c \in S}

Attr(t, v) == [type |-> <<t>>, value |-> <<v>>]

ControlTypes == {"paging", "behera", "vchuWarning", "vchuMustChange", "manageDsaIT",
                 "sorting", "sortResult", "dirsync", "syncState", "syncDone", "syncInfo",
                 "other"}

Value(p) == OctetString(Pkt(p))

(* Complete values, values with too few or wrong members, a text, a value of
   the wrong class, one that is constructed, and a bool. *)
MCValues == <<
    Value(Sequence(<<Integer(7), OctetString(Str("ck"))>>)),
    Value(Sequence(<<Integer(7)>>)),
    Value(Sequence(<<OctetString(Str("x")), OctetString(Str("ck"))>>)),
    Value(Sequence(<<Constructed("context", 0, <<Context(0, Num(9))>>), Context(1, Num(2))>>)),
    Value(Sequence(<<Constructed("context", 0, <<Context(1, Num(3))>>), Context(1, Num(9))>>)),
    Value(Sequence(<<Constructed("context", 0, <<>>)>>)),
    Value(Sequence(<<>>)),
    Value(Sequence(<<Integer(1), Integer(2), OctetString(Str("ck"))>>)),
    Value(Sequence(<<Enumerated(1), OctetString(Str("uuid")), OctetString(Str("ck"))>>)),
    Value(Sequence(<<Sequence(<<OctetString(Str("cn")), Context(1, Num(1))>>)>>)),
    Value(Constructed("context", 3, <<OctetString(Str("ck"))>>)),
    OctetString(Str("30")),
    Context(0, Str("30")),
    Constructed("universal", TagOctetString, <<Sequence(<<Integer(7), OctetString(Str("ck"))>>)>>),
    Boolean(TRUE)>>

Key(attr, rule, reverse) == [attr |-> attr, rule |-> rule, reverse |-> reverse]

MCRequests ==
    [type : {"other"}, crit : BOOLEAN, value : {Str(""), Str("v")}]
    \cup [type : {"paging"}, size : {0, 255}, cookie : {Str(""), Str("ck")}]
    \cup [type : {"behera", "notification", "showDeleted", "linkTTL", "subtreeDelete"}]
    \cup [type : {"manageDsaIT"}, crit : BOOLEAN]
    \cup [type : {"sdflags"}, crit : BOOLEAN, flags : {7}]
    \cup [type : {"dirsync"}, crit : {TRUE}, flags : {0, 127, 128, 255}, max : {3},
          cookie : {Str(""), Str("ck")}]
    \cup [type : {"sorting"}, keys : {<<Key("cn", "", FALSE)>>,
                                      <<Key("cn", "r", TRUE), Key("sn", "", TRUE)>>}]
    \cup [type : {"syncRequest"}, crit : {TRUE}, mode : {1, 3}, cookie : {Str(""), Str("ck")},
          hint : BOOLEAN]

MCItems == [
    requests |-> MCRequests,
    controls |-> [type : ControlTypes, form : {"string"}, crit : {"none", "bool"},
                  value : 0..Len(MCValues)]
                 \cup [type : ControlTypes, form : {"string"}, crit : {"text"}, value : {1}]
                 \cup [type : ControlTypes, form : {"context"}, crit : {"none"},
                       value : {0, 1, 12}],
    sync |-> {"cookie", "yes", "no", "set"},
    dn |-> Chars({"=", ",", "+", ";", "\\", " ", "#", "\"", "nul", "stx", "0", "2"})
           \cup {<<"x", "=">>, <<"X">>, <<"\\", "2">>, <<"0", "2">>},
    names |-> {<<Attr("x", "s")>>, <<Attr("X", "s")>>, <<Attr("x", "S")>>,
               <<Attr("x", "s"), Attr("s", "s")>>, <<Attr("s", "s"), Attr("X", "s")>>,
               <<Attr("x", "s"), Attr("x", "s"), Attr("s", "s")>>,
               <<Attr("x", "s"), Attr("s", "s"), Attr("s", "s")>>,
               <<Attr("s", "s"), Attr("x", "s"), Attr("x", "S")>>},
    filter |-> Chars({"(", ")", "|", "!", "*", "\\", ":", "=", "2"})
               \cup {<<"(", "x", "=">>, <<"(", "x", "=", "2", ")">>, <<"(", "&">>, <<"(", "!">>,
                     <<"(", "x", ":", "d", "n">>, <<">", "=">>,
                     <<"\\", "2", "8">>, <<"\\", "8", "2">>},
    postal |-> Chars({"x", "\\", "$", "nl", "5", "C", "2", "4"}),
    digest |-> Chars({"r", "=", ",", "\"", "\\", " ", "tab", "b82"})]

MCMaxItems == [dn |-> 4, names |-> 4, filter |-> 4, postal |-> 5, digest |-> 4,
               requests |-> 2, controls |-> 2, sync |-> 3]
=============================================================================
