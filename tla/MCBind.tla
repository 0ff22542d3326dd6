------------------------------- MODULE MCBind -------------------------------
(* Every kind of call, and a server that answers with any of these. *)
EXTENDS Bind

MCCalls ==
    [kind : {"simple", "ntlm", "digest"}, secret : {"given", "allowed", "none"}]
    \cup [kind : {"external", "gssapi", "add", "del", "modify", "modifyDN", "compare",
                  "modifyWithResult", "passwordModify", "extended", "whoAmI"},
          secret : {"none"}]

Token(type, key, subkey) ==
    [type |-> type, key |-> key, subkey |-> subkey, len |-> 16, header |-> TRUE,
     checksumL |-> 0, acceptorSubkey |-> FALSE]

Wrap(key, acceptorSubkey, len, checksumL) ==
    [Token("wrap", key, "none") EXCEPT !.acceptorSubkey = acceptorSubkey, !.len = len,
                                       !.checksumL = checksumL]

(* Wrap tokens with the right payload under either key, with a checksum of
   nearly 2^16 octets, with a payload that is too long, and cut short. *)
MCTokens ==
    [t \in {"nil", "", "challenge"} |-> Token("bad", "none", "none")]
    @@ "aprep" :> Token("aprep", "ticket", "sub")
    @@ "aprepNoSubkey" :> Token("aprep", "ticket", "none")
    @@ "aprepForeign" :> Token("aprep", "foreign", "sub")
    @@ "krberror" :> Token("krberror", "none", "none")
    @@ "apreq" :> Token("other", "none", "none")
    @@ "wrapSub" :> Wrap("sub", TRUE, 32, 12)
    @@ "wrapTicket" :> Wrap("ticket", FALSE, 32, 12)
    @@ "wrapLarge" :> Wrap("sub", TRUE, 65550, 65530)
    @@ "wrapLong" :> Wrap("sub", TRUE, 33, 12)
    @@ "wrapCut" :> Wrap("sub", TRUE, 20, 12)

(* The members of a response after its code. *)
Members(shape) ==
    LET text == OctetString(Str("")) IN
    CASE shape = "none" -> <<>>
      [] shape = "short" -> <<text>>
      [] shape = "full" -> <<text, text>>
      [] shape = "ntlm" -> <<OctetString(Str("NTLMSSP")), text>>
      [] shape = "noValue" -> <<Context(TagOctetString, Str("")), text>>
      [] shape = "wrongTag" -> <<text, Integer(1)>>
      [] shape = "referral" ->
            <<text, text, Constructed("context", TagBitString, <<OctetString(Str("uri"))>>)>>
      [] shape = "referralAD" ->
            <<text, text, Constructed("context", TagPrintableString, <<OctetString(Str("uri"))>>)>>
      [] shape = "password" ->
            <<text, text, Context(TagEmbeddedPDV, Pkt(Sequence(<<Context(TagEOC, Str("new"))>>)))>>
      [] shape = "badValue" -> <<text, text, Context(TagEmbeddedPDV, Str("id"))>>
      [] OTHER -> <<text, text, Context(TagObjectDescriptor, Str(shape))>>

Shapes == {"none", "short", "full", "ntlm", "noValue", "wrongTag", "referral", "referralAD",
           "password", "badValue"} \cup (DOMAIN MCTokens \ {"nil"})

Controls3 == [none |-> <<>>,
              good |-> <<Sequence(<<OctetString(Str("other"))>>)>>,
              policy |-> <<Sequence(<<OctetString(Str("behera")),
                                      OctetString(Pkt(Sequence(<<Context(1, Num(2))>>)))>>)>>,
              bad |-> <<Sequence(<<>>)>>,
              empty |-> <<Sequence(<<OctetString(Str("behera"))>>)>>]

Reply(n, cls, tag, codeTag, code, shape, controls) ==
    [n : n, cls : cls, tag : tag, codeTag : codeTag, code : code, shape : shape,
     controls : controls]

App == {"application"}
Codes == {0, 5, 6, 10, 14, 49, 65536, 65550}

(* Every code in every response; every shape of a bind response and of the
   responses with values; the controls; and the responses that are none. *)
MCReplies ==
    Reply({2}, App, {1, 5, 7, 9, 11, 13, 15, 24, 257}, {10}, Codes, {"full"}, {"none"})
    \cup Reply({2}, App, {1, 7, 24}, {10}, {0, 10, 14}, Shapes, {"none"})
    \cup Reply({3}, App, {1, 7, 24}, {10}, {0, 49}, {"full"}, DOMAIN Controls3)
    \cup Reply({1, 2}, {"application", "context"}, {1, 15}, {2, 4, 10}, {-1, 0, 14},
               {"none", "full", "challenge"}, {"none"})

(* The code -1 is one of a class without a Value. *)
MCPacketOf(r) ==
    LET code == IF r.code = -1 THEN Context(r.codeTag, Num(0))
                ELSE IF r.codeTag = TagOctetString THEN OctetString(Str(""))
                ELSE Universal(r.codeTag, Num(r.code))
        op == Constructed(r.cls, r.tag,
                           (IF r.shape = "none" /\ r.code = 0 THEN <<>> ELSE <<code>>)
                               \o Members(r.shape))
    IN  Sequence(SubSeq(<<Integer(1), op, Constructed("context", 0, Controls3[r.controls])>>,
                        1, r.n))
=============================================================================
