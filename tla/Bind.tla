-------------------------------- MODULE Bind --------------------------------
(***************************************************************************)
(* One caller of the library: the binds of v3/bind.go, which may take       *)
(* several exchanges with the server, and the operations of Operations,     *)
(* which take one.  The client of a GSSAPI bind is that of                  *)
(* v3/gssapi/client.go, kept between the binds.                             *)
(*                                                                         *)
(* The connection is what Conn promises: a request is sent or refused, and  *)
(* its context delivers a packet or an error.  The server answers with the  *)
(* packet of any of Replies.  A token in a packet is a name; Tokens says    *)
(* what is in it.                                                           *)
(***************************************************************************)
EXTENDS Operations

CONSTANTS
    Calls,          \* the calls: [kind, secret], secret is "given", "allowed" or "none"
    Replies,        \* the answers of the server
    PacketOf(_),    \* the packet of an answer
    Tokens          \* the contents of the tokens by name

VARIABLES
    call,           \* the call, or the last one
    pc,             \* "idle", "token" before a GSSAPI token, "send" before a
                    \* request, "wait" for its answer
    round,          \* which request of the call that is
    contexts,       \* the rounds whose message context is not finished
    reply,          \* the answer the last call returned with, if any: a set
    ret,            \* what the last call returned, an error while it runs
    needInit,       \* GSSAPI: the security context is not complete
    recvToken,      \* GSSAPI: the token of the server, "nil" before any
    ekey, Subkey,   \* the keys of the GSSAPI client
    confirmed       \* history: an AP-REP was decrypted in this call

gssVars == <<needInit, recvToken, ekey, Subkey, confirmed>>
vars == <<call, pc, round, contexts, reply, ret, gssVars>>

(* What the caller sees of an outcome: how the call ended, the code of the
   error, the answer of Compare, the generated password and the referral. *)
Seen(kind, o) ==
    [end |-> IF o.ok THEN "nil" ELSE IF Panicked(o) THEN "panic" ELSE "error",
     code |-> IF o.ok \/ Panicked(o) THEN 0 ELSE o.code,
     matched |-> kind = "compare" /\ o.ok /\ o.val,
     password |-> IF kind = "passwordModify" /\ o.ok THEN o.val ELSE "",
     referral |-> IF "referral" \in DOMAIN o THEN o.referral ELSE ""]

Init ==
    /\ call = [kind |-> "none", secret |-> "none"] /\ pc = "idle" /\ round = 0
    /\ contexts = {} /\ reply = {} /\ ret = Seen("none", Error(Plain))
    /\ needInit = TRUE /\ recvToken = "nil"
    /\ ekey = "none" /\ Subkey = "none" /\ confirmed = FALSE

-----------------------------------------------------------------------------
(* Returning runs the deferred calls: finishMessage of every context that was
   opened and, for GSSAPI, DeleteSecContext. *)

DeleteSecContext == ekey' = "none" /\ Subkey' = "none"

(* Faulty: the deferred calls see the last context only. *)
FinishMessagesLast == contexts' = contexts \ {round}

FinishMessages == contexts' = {}

Return(outcome) ==
    /\ pc' = "idle" /\ ret' = Seen(call.kind, outcome)
    /\ FinishMessages
    /\ IF call.kind = "gssapi" THEN DeleteSecContext ELSE UNCHANGED <<ekey, Subkey>>

(* Faulty: the exchange starts over. *)
SendNextAgain == pc' = "send" /\ round' = 1 /\ UNCHANGED <<contexts, ret, ekey, Subkey>>

(* The next request of the call. *)
SendNext == pc' = "send" /\ round' = round + 1 /\ UNCHANGED <<contexts, ret, ekey, Subkey>>

-----------------------------------------------------------------------------
(* What a bind makes of an answer: it returns, or goes on to the next request *)

Finished(outcome) == [done |-> TRUE, outcome |-> outcome]
Continue == [done |-> FALSE, outcome |-> Error(Plain)]

SimpleBind(p) == Finished(IF Decoded(p, Ok(<<>>)).ok THEN GetLDAPError(p)
                          ELSE Decoded(p, Ok(<<>>)))

ExternalBind(p) == Finished(GetLDAPError(p))

(* Faulty: the answer to the response is not looked at. *)
DigestMD5BindTwice(p, n) ==
    IF n = 1 THEN Continue ELSE Finished(Ok(<<>>))

(* The challenge is in the credentials of a response with four members.  After
   the answer saslBindInProgress to its response the whole request is sent
   again, and what answers that is the result. *)
DigestMD5Bind(p, n) ==
    LET op == p.kids[2]
        code == op.kids[1]
        challenge == op.kids[4]
    IN  CASE n = 1 /\ Len(p.kids) = 2 /\ Len(op.kids) = 4 ->
                IF code.tag # TagEnumerated THEN Finished(GetLDAPError(p))
                ELSE IF code.val.k # "int" THEN Finished(Panic)
                ELSE IF code.val.v # 14 \/ challenge.tag # TagObjectDescriptor
                  THEN Finished(GetLDAPError(p))
                ELSE IF challenge.data.v # "challenge" THEN Finished(Error(Plain))
                ELSE Continue
          [] n = 2 /\ Len(p.kids) = 2 /\ IsResult(op) ->
                IF code.val.k # "int" THEN Finished(Panic)
                ELSE IF Uint16(code.val.v) = 14 THEN Continue
                ELSE Finished(GetLDAPError(p))
          [] OTHER -> Finished(GetLDAPError(p))

(* The challenge is in the place of the matched DN of a response with three
   members. *)
NTLMChallengeBind(p, n) ==
    LET op == p.kids[2]
        challenge == ByteValue(op.kids[2])
    IN  IF n = 1 /\ Len(p.kids) = 2 /\ Len(op.kids) = 3 /\ challenge.k = "string"
           /\ challenge.v = "NTLMSSP"
          THEN Continue ELSE Finished(GetLDAPError(p))

Handle(p, n) ==
    CASE call.kind = "simple" -> SimpleBind(p)
      [] call.kind = "external" -> ExternalBind(p)
      [] call.kind = "digest" -> DigestMD5Bind(p, n)
      [] call.kind = "ntlm" -> NTLMChallengeBind(p, n)
      [] call.kind = "add" -> Finished(Add(p))
      [] call.kind = "del" -> Finished(Del(p))
      [] call.kind = "modify" -> Finished(Modify(p))
      [] call.kind = "modifyDN" -> Finished(ModifyDN(p))
      [] call.kind = "compare" -> Finished(Compare(p))
      [] call.kind = "modifyWithResult" -> Finished(ModifyWithResult(p))
      [] call.kind = "passwordModify" -> Finished(PasswordModify(p))
      [] call.kind = "extended" -> Finished(Extended(p))
      [] call.kind = "whoAmI" -> Finished(WhoAmI(p))

-----------------------------------------------------------------------------
(* The GSSAPI exchange and the client *)

(* The token of the server, "nil" after success, or an error.  The reader has
   labelled a bind response and, if there is one, its fourth member. *)
saslBindTokenExchange(p) ==
    LET op == p.kids[2]
        code == op.kids[1]
        creds == op.kids[4]
        other == IF GetLDAPError(p).ok THEN Ok("nil") ELSE GetLDAPError(p)
    IN  IF Len(p.kids) # 2 THEN Error(Plain)
        ELSE IF Type(op.tag) # ApplicationBindResponse THEN other
        ELSE IF op.kids = <<>> THEN Panic
        ELSE IF code.tag # TagEnumerated THEN other
        ELSE IF code.val.k # "int" THEN Panic
        ELSE IF code.val.v = 0 THEN Ok("nil")
        ELSE IF code.val.v # 14 \/ Len(op.kids) < 3 THEN other
        ELSE IF Len(op.kids) = 3 THEN Panic
        ELSE IF creds.cls # "context" \/ creds.tag # TagObjectDescriptor THEN other
        ELSE Ok(creds.data.v)

(* Faulty: the offset is computed in 16 bits. *)
UnmarshalWrapToken16(t) ==
    LET payloadStart == Uint16(16 + t.checksumL) IN
    IF t.len < 16 \/ ~t.header \/ t.checksumL > t.len - 16 THEN Err
    ELSE IF payloadStart < 16 THEN Panic
    ELSE Ok(t.len - payloadStart)

(* The length of the payload; header says that the token ID, the acceptor flag
   and the filler are right. *)
UnmarshalWrapToken(t) ==
    LET payloadStart == 16 + t.checksumL IN
    IF t.len < 16 \/ ~t.header \/ t.checksumL > t.len - 16 THEN Err
    ELSE IF payloadStart < 16 THEN Panic
    ELSE Ok(t.len - payloadStart)

(* NegotiateSaslAuth: the last token must be signed with the key it names. *)
NegotiateSaslAuth(token) ==
    LET t == Tokens[token]
        payload == UnmarshalWrapToken(t)
        key == IF t.acceptorSubkey THEN Subkey ELSE ekey
    IN  IF t.type # "wrap" THEN Err
        ELSE IF ~payload.ok THEN payload
        ELSE IF key = "none" \/ t.key # key \/ payload.val # 4 THEN Err
        ELSE Ok(<<>>)

(* InitSecContextWithOptions without a token asks for a ticket, which may fail. *)
InitSecContextStart ==
    /\ ekey' = "ticket" /\ needInit' = TRUE /\ UNCHANGED <<Subkey, confirmed>>

(* Faulty: any token of the server completes the context. *)
InitSecContextReplyAny(t) ==
    /\ t.type \in {"aprep", "other"} /\ (t.type = "aprep" => t.key = ekey)
    /\ needInit' = FALSE
    /\ Subkey' = IF t.type = "aprep" THEN t.subkey ELSE Subkey
    /\ confirmed' = (confirmed \/ t.type = "aprep")
    /\ UNCHANGED ekey

(* With a token: an AP-REP that the key of the ticket decrypts completes the
   context; another kind of token but an error leaves it as it is. *)
InitSecContextReply(t) ==
    /\ t.type \in {"aprep", "other"} /\ (t.type = "aprep" => t.key = ekey)
    /\ needInit' = (t.type # "aprep")
    /\ Subkey' = IF t.type = "aprep" THEN t.subkey ELSE Subkey
    /\ confirmed' = (confirmed \/ t.type = "aprep")
    /\ UNCHANGED ekey

(* The head of the loop of GSSAPIBindRequestWithAPOptions: the next token, and
   the request that carries it.  A token that is not accepted ends the bind. *)
GSSAPIToken ==
    /\ pc = "token"
    /\ \/ /\ needInit /\ recvToken = "nil"
          /\ InitSecContextStart
          /\ pc' = "send" /\ UNCHANGED <<round, contexts, ret>>
       \/ /\ needInit /\ recvToken # "nil"
          /\ InitSecContextReply(Tokens[recvToken])
          /\ pc' = "send" /\ UNCHANGED <<round, contexts, ret>>
       \/ /\ ~needInit /\ NegotiateSaslAuth(recvToken).ok
          /\ pc' = "send" /\ UNCHANGED <<round, contexts, ret, needInit, ekey, Subkey, confirmed>>
    /\ UNCHANGED <<call, reply, recvToken>>

GSSAPITokenFails ==
    /\ pc = "token"
    /\ LET t == Tokens[recvToken] IN
       \/ needInit /\ recvToken = "nil" /\ Return(Error(Plain))
       \/ /\ needInit /\ recvToken # "nil"
          /\ t.type \notin {"aprep", "other"} \/ (t.type = "aprep" /\ t.key # ekey)
          /\ Return(Error(Plain))
       \/ /\ ~needInit /\ ~NegotiateSaslAuth(recvToken).ok
          /\ Return(IF Panicked(NegotiateSaslAuth(recvToken)) THEN Panic ELSE Error(Plain))
    /\ UNCHANGED <<call, round, reply, needInit, recvToken, confirmed>>

-----------------------------------------------------------------------------
(* The caller *)

(* A bind without a secret is refused before anything is sent. *)
Begin(c) ==
    /\ pc = "idle"
    /\ call' = c /\ reply' = {} /\ round' = 1
    /\ needInit' = TRUE /\ recvToken' = "nil" /\ confirmed' = FALSE
    /\ IF \/ c.kind \in {"simple", "ntlm"} /\ c.secret = "none"
          \/ c.kind = "digest" /\ c.secret # "given"
         THEN pc' = "idle" /\ ret' = Seen(c.kind, Error(ErrorEmptyPassword))
       ELSE /\ pc' = IF c.kind = "gssapi" THEN "token" ELSE "send"
            /\ ret' = Seen(c.kind, Error(Plain))
    /\ UNCHANGED <<contexts, ekey, Subkey>>

(* doRequest and sendMessage. *)
Send ==
    /\ pc = "send"
    /\ pc' = "wait" /\ contexts' = contexts \cup {round}
    /\ UNCHANGED <<call, round, reply, ret, gssVars>>

(* The request is refused or, where a response has to be computed first, that
   fails. *)
SendFails ==
    /\ pc = "send"
    /\ \E code \in {ErrorNetwork, Plain} : Return(Error(code))
    /\ UNCHANGED <<call, round, reply, needInit, recvToken, confirmed>>

(* The context is closed without an answer, or delivers an error. *)
ReadFails ==
    /\ pc = "wait"
    /\ \E code \in {ErrorNetwork, Plain} : Return(Error(code))
    /\ UNCHANGED <<call, round, reply, needInit, recvToken, confirmed>>

Answer(r) ==
    /\ pc = "wait" /\ call.kind # "gssapi"
    /\ \E h \in {Handle(addLDAPDescriptions(PacketOf(r)), round)} :
       IF h.done THEN Return(h.outcome) /\ reply' = {r} /\ UNCHANGED round
       ELSE SendNext /\ UNCHANGED reply
    /\ UNCHANGED <<call, needInit, recvToken, confirmed>>

(* The exchange returns, and with it its context is finished; the loop ends
   once the context is complete and the server sends no token. *)
GSSAPIAnswer(r) ==
    /\ pc = "wait" /\ call.kind = "gssapi"
    /\ \E token \in {saslBindTokenExchange(addLDAPDescriptions(PacketOf(r)))} :
       IF ~token.ok THEN Return(token) /\ reply' = {r} /\ UNCHANGED recvToken
       ELSE /\ recvToken' = token.val
            /\ IF ~needInit /\ token.val \in {"nil", ""}
                 THEN Return(Ok(<<>>)) /\ reply' = {r}
               ELSE pc' = "token" /\ FinishMessages /\ UNCHANGED <<reply, ret, ekey, Subkey>>
    /\ UNCHANGED <<call, round, needInit, confirmed>>

(* The caller runs, and each context delivers something (CallsReturn of Conn). *)
Step ==
    \/ Send \/ SendFails \/ ReadFails
    \/ pc = "wait" /\ \E r \in Replies : Answer(r) \/ GSSAPIAnswer(r)
    \/ GSSAPIToken \/ GSSAPITokenFails

Next == Step \/ \E c \in Calls : Begin(c)

Spec == Init /\ [][Next]_vars

FairSpec == Spec /\ WF_vars(Step)

-----------------------------------------------------------------------------
(* Properties *)

Returned == pc = "idle" /\ reply # {}

Answered(kinds) == Returned /\ call.kind \in kinds

packet == PacketOf(CHOOSE r \in reply : TRUE)
protocolOp == packet.kids[2]
Code == Uint16(protocolOp.kids[1].val.v)

(* A response as RFC 4511 defines it: a result code, a matched DN and a message. *)
WellFormed ==
    /\ Len(packet.kids) >= 2
    /\ protocolOp.cls = "application" /\ protocolOp.cons /\ Len(protocolOp.kids) >= 3
    /\ protocolOp.kids[1].tag = TagEnumerated /\ protocolOp.kids[1].val.k = "int"
    /\ \A i \in 2..3 : protocolOp.kids[i].tag = TagOctetString /\ protocolOp.kids[i].val.k = "string"

ResponseTag == [add |-> ApplicationAddResponse, del |-> ApplicationDelResponse,
                modify |-> ApplicationModifyResponse,
                modifyDN |-> ApplicationModifyDNResponse,
                compare |-> ApplicationCompareResponse,
                passwordModify |-> ApplicationExtendedResponse]

(* A call that returns no error got a result of success from the server, in
   the last packet of the call and, for the operations that look at it, in a
   response of their own kind.  There are three more ways: Compare, whose
   answers are compareTrue and compareFalse; ModifyWithResult, when the
   response is of another kind; and a GSSAPI bind whose context is complete
   when the server asks to go on without credentials. *)
NilMeansAccepted ==
    Returned /\ ret.end = "nil" =>
        \/ /\ Len(packet.kids) >= 2 /\ (IsResult(protocolOp) \/ call.kind = "gssapi")
           /\ protocolOp.kids[1].val.k = "int"
           /\ Code = 0 \/ (call.kind = "compare" /\ Code \in {5, 6})
           /\ call.kind \in DOMAIN ResponseTag => protocolOp.tag = ResponseTag[call.kind]
        \/ call.kind = "modifyWithResult" /\ protocolOp.tag # ApplicationModifyResponse
        \/ call.kind = "gssapi" /\ ~needInit /\ Code = 14 /\ protocolOp.kids[4].data.v = ""

(* The controls of the packet can be decoded as they were sent. *)
Decodable ==
    Len(packet.kids) = 3 =>
        \A i \in DOMAIN packet.kids[3].kids : DecodeControl(packet.kids[3].kids[i]).ok

(* A well-formed response of the right kind is reported as what it says, also
   after the reader has described it: its result code is the code of the error,
   compareTrue and compareFalse are the values of Compare, and a generated
   password is the one that was sent.  A challenge of DigestMD5Bind and a
   generated password may be beyond reading, and a GSSAPI bind takes no controls
   and may be asked to go on without credentials. *)
ResultReported ==
    /\ Returned /\ WellFormed /\ Decodable
    /\ call.kind \in DOMAIN ResponseTag => protocolOp.tag = ResponseTag[call.kind]
    /\ call.kind = "modifyWithResult" => protocolOp.tag = ApplicationModifyResponse
    => \/ /\ ret.end = "nil"
          /\ call.kind = "compare" => ret.matched = (Code = 6)
          /\ call.kind = "passwordModify" /\ Len(protocolOp.kids) = 4
             /\ protocolOp.kids[4].tag = TagEmbeddedPDV
             => ret.password = Head(protocolOp.kids[4].data.v.kids).data.v
       \/ ret.end = "error" /\ Code # 0 /\ ret.code = Code
          /\ (call.kind = "compare" => Code \notin {5, 6})
       \/ call.kind = "digest" /\ Code = 14 /\ ret.code = Plain
       \/ call.kind = "passwordModify" /\ Code = 0 /\ ret.code = Plain
       \/ call.kind = "gssapi" /\ (Code = 14 \/ Len(packet.kids) = 3)

(* The caller of ModifyWithResult or PasswordModify that is referred elsewhere
   is given the first URI, whichever of the two tags the server uses. *)
ReferralReported ==
    /\ Answered({"modifyWithResult", "passwordModify"}) /\ WellFormed /\ Len(protocolOp.kids) = 4
    /\ ret.end = "error" /\ ret.code = LDAPResultReferral
    /\ protocolOp.kids[4].cls = "context" /\ protocolOp.kids[4].tag \in {TagBitString, TagPrintableString}
    => ret.referral = Head(protocolOp.kids[4].kids).val.v

(* No call leaves a message context in the connection, however many requests it
   sent, or holds more than three at once, and no GSSAPI bind leaves a key for
   the next one. *)
CallLeavesNothing ==
    /\ pc = "idle" => contexts = {} /\ ekey = "none" /\ Subkey = "none"
    /\ contexts \subseteq 1..3

(* A GSSAPI bind returns no error only when the server proved, in this bind,
   that it has the key of the ticket. *)
MutualAuthentication == Answered({"gssapi"}) /\ ret.end = "nil" => confirmed

(* No token and no response makes a call panic, but for controls that
   DecodeControl cannot take (DecodeReturns of Codecs), a result code without a
   value given to the binds that read it themselves, and a GSSAPI bind that is
   asked to go on by a response without credentials. *)
NoPanic ==
    pc = "idle" /\ ret.end = "panic" =>
        /\ Returned
        /\ \/ Len(packet.kids) = 3
           \/ call.kind \in {"digest", "gssapi"} /\ ~WellFormed
           \/ call.kind = "gssapi" /\ Code = 14 /\ Len(protocolOp.kids) = 3

(* Every call but a GSSAPI bind, which goes on as long as the server does,
   returns: it sends at most three requests. *)
CallReturns == (pc # "idle" /\ call.kind # "gssapi") ~> (pc = "idle")
=============================================================================
