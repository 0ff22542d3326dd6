------------------------------ MODULE Challenge ------------------------------
(***************************************************************************)
(* The texts of a DIGEST-MD5 bind, v3/bind.go: the challenge of the server  *)
(* is a list of directives, and so is the response.                         *)
(***************************************************************************)
EXTENDS Text

(* string(b) of one octet is the UTF-8 form of the code point b: an octet
   above 0x7f becomes two. *)
StringOf(c) == IF c \in {"b82", "b88"} THEN <<"bc2", c>> ELSE <<c>>

(* Where the scanner is. *)
ScanStart == [ok |-> TRUE, m |-> <<>>, key |-> <<>>, value |-> <<>>,
              state |-> "key", escaped |-> FALSE]

Directive(st) == [st EXCEPT !.m = (st.key :> st.value) @@ @]

ScanKey(st, c) ==
    IF c \in {" ", "tab"} THEN st
    ELSE IF c = "=" THEN [st EXCEPT !.state = "value"]
    ELSE [st EXCEPT !.key = @ \o StringOf(c)]

ScanValue(st, c) ==
    CASE c \in {" ", "tab"} -> st
      [] c = "," -> [Directive(st) EXCEPT !.state = "key", !.key = <<>>, !.value = <<>>]
      [] c = "\"" -> IF st.value # <<>> THEN [st EXCEPT !.ok = FALSE]
                     ELSE [st EXCEPT !.state = "quoted"]
      [] OTHER -> [st EXCEPT !.value = @ \o StringOf(c)]

ScanQuoted(st, c) ==
    IF st.escaped THEN [st EXCEPT !.value = @ \o StringOf(c), !.escaped = FALSE]
    ELSE IF c = "\\" THEN [st EXCEPT !.escaped = TRUE]
    ELSE IF c = "\"" THEN [st EXCEPT !.state = "value"]
    ELSE [st EXCEPT !.value = @ \o StringOf(c)]

Scan(st, c) ==
    IF ~st.ok THEN st
    ELSE CASE st.state = "key" -> ScanKey(st, c)
           [] st.state = "value" -> ScanValue(st, c)
           [] st.state = "quoted" -> ScanQuoted(st, c)

(* The directives as a function of their names; the text must end in or after
   a value. *)
parseParams(str) ==
    LET st == FoldLeft(Scan, ScanStart, str) IN
    IF st.ok /\ st.state = "value" THEN Ok(Directive(st).m) ELSE Err

-----------------------------------------------------------------------------
(* The response *)

Replace(s, c) == FlattenSeq([i \in DOMAIN s |-> IF s[i] = c THEN <<"\\", c>> ELSE <<s[i]>>])

(* Faulty: the quotes are escaped first. *)
quotedStringEscapeSwapped(s) == Replace(Replace(s, "\""), "\\")

quotedStringEscape(s) == Replace(Replace(s, "\\"), "\"")

(* The hash of the fields of an exchange. *)
Digest(username, realm, password, nonce, authzid, uri) ==
    <<username, realm, password, nonce, authzid, uri>>

Get(params, key) == IF key \in DOMAIN params THEN params[key] ELSE <<>>

Quoted(key, value) == key \o <<"=", "\"">> \o quotedStringEscape(value) \o <<"\"">>

(* The fields the server reads back, and the digest sent with them. *)
computeResponse(params, uri, username, password) ==
    [text |-> Join(<<Quoted(<<"user">>, username),
                     Quoted(<<"realm">>, Get(params, <<"realm">>)),
                     Quoted(<<"nonce">>, Get(params, <<"nonce">>)),
                     Quoted(<<"uri">>, uri)>>, ","),
     response |-> Digest(username, Get(params, <<"realm">>), password,
                         Get(params, <<"nonce">>), Get(params, <<"authzid">>), uri)]
=============================================================================
