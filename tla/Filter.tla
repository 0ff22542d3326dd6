------------------------------- MODULE Filter -------------------------------
(***************************************************************************)
(* Search filters, v3/filter.go, and EscapeFilter of v3/ldap.go.            *)
(*                                                                         *)
(* A compiled filter is the tree its packet encodes: [op, kids] for and, or *)
(* and not; [op, attr, val] for a comparison; the attribute alone for       *)
(* present; [tag, val] parts for substrings.  Nil is the nil packet.        *)
(* Positions count from 0, as in the code.                                  *)
(***************************************************************************)
EXTENDS Text

Nil == [op |-> "nil"]

MustEscape == {"(", ")", "\\", "*", "nul", "b82", "b88"}

(* Faulty: the escape character itself is written as it is. *)
EscapeFilterNoBackslash(filter) ==
    FlattenSeq([i \in DOMAIN filter |->
        IF filter[i] \in MustEscape \ {"\\"} THEN <<"\\">> \o Hex[filter[i]]
                                             ELSE <<filter[i]>>])

EscapeFilter(filter) ==
    FlattenSeq([i \in DOMAIN filter |->
        IF filter[i] \in MustEscape THEN <<"\\">> \o Hex[filter[i]]
                                    ELSE <<filter[i]>>])

RECURSIVE decodeEscapedSymbols(_)
decodeEscapedSymbols(src) ==
    IF src = <<>> THEN Ok(<<>>)
    ELSE IF Head(src) # "\\" THEN Then(Head(src), decodeEscapedSymbols(Tail(src)))
    ELSE IF Len(src) > 2 /\ IsHex(SubSeq(src, 2, 3))
      THEN Then(Unhex(SubSeq(src, 2, 3)), decodeEscapedSymbols(Drop(src, 3)))
    ELSE Err

-----------------------------------------------------------------------------
(* compileFilter *)

(* What compileFilter returns.  Its deferred function assigns to a variable
   that is no result, so that after a panic it returns zero values. *)
Compiled(packet, pos) == [packet |-> packet, pos |-> pos, err |-> FALSE]
CompileError(packet) == [packet |-> packet, pos |-> 0, err |-> TRUE]
Recovered == Compiled(Nil, 0)

(* A packet that an error leaves unfinished. *)
Unfinished == [op |-> "unfinished"]

Operators == {<<":">>, <<"=">>, <<">", "=">>, <<"<", "=">>, <<"~", "=">>}

(* The operator of an item, which ends its attribute, or Err. *)
FindOperator(item) ==
    LET starts == {i \in DOMAIN item : \E o \in Operators : IsPrefix(o, Drop(item, i - 1))}
        i == CHOOSE x \in starts : \A y \in starts : x <= y
    IN  IF starts = {} THEN Err ELSE Ok(i)

(* Reading the rule of an extensible match until ":=". *)
ReadRule(attr, rest, dn) ==
    LET ends == {i \in DOMAIN rest : IsPrefix(<<":", "=">>, Drop(rest, i - 1))}
        i == IF ends = {} THEN Len(rest) + 1
             ELSE CHOOSE x \in ends : \A y \in ends : x <= y
    IN  [op |-> "ext", attr |-> attr, dn |-> dn,
         rule |-> SubSeq(rest, 1, i - 1), val |-> Drop(rest, i + 1)]

(* The item split into its parts, the condition still escaped.  rest is the
   item from its operator on. *)
SplitItem(attr, rest) ==
    LET Ext(dn, n) == [op |-> "ext", attr |-> attr, dn |-> dn, rule |-> <<>>,
                       val |-> Drop(rest, n)]
        Cmp(op, n) == [op |-> op, attr |-> attr, val |-> Drop(rest, n)]
    IN  CASE IsPrefix(<<":", "d", "n", ":", "=">>, rest) -> Ext(TRUE, 5)
          [] /\ IsPrefix(<<":", "d", "n", ":">>, rest)
             /\ ~IsPrefix(<<":", "d", "n", ":", "=">>, rest) ->
                   ReadRule(attr, Drop(rest, 4), TRUE)
          [] IsPrefix(<<":", "=">>, rest) -> Ext(FALSE, 2)
          [] Head(rest) = "=" -> Cmp("eq", 1)
          [] Head(rest) = ">" -> Cmp("ge", 2)
          [] Head(rest) = "<" -> Cmp("le", 2)
          [] Head(rest) = "~" -> Cmp("approx", 2)
          [] OTHER -> ReadRule(attr, Drop(rest, 1), FALSE)

(* Faulty: an empty first part does not count. *)
SubstringsShifted(attr, parts) ==
    LET used == SelectSeq(parts, LAMBDA s : s # <<>>)
    IN  [op |-> "substr", attr |-> attr,
         parts |-> [i \in DOMAIN used |->
             [tag |-> IF i = 1 THEN "initial"
                      ELSE IF i = Len(used) THEN "final" ELSE "any",
              val |-> decodeEscapedSymbols(used[i])]]]

(* The parts between the "*", empty ones left out. *)
Substrings(attr, parts) ==
    LET used == SelectSeq([i \in DOMAIN parts |-> i], LAMBDA i : parts[i] # <<>>)
    IN  [op |-> "substr", attr |-> attr,
         parts |-> [i \in DOMAIN used |->
             [tag |-> IF used[i] = 1 THEN "initial"
                      ELSE IF used[i] = Len(parts) THEN "final" ELSE "any",
              val |-> decodeEscapedSymbols(parts[used[i]])]]]

(* The packet of an item whose operator has been found. *)
ItemPacket(item) ==
    LET val == decodeEscapedSymbols(item.val)
        sub == Substrings(item.attr, Split(item.val, "*"))
    IN  IF item.op = "eq" /\ item.val = <<"*">>
          THEN Ok([op |-> "present", attr |-> item.attr])
        ELSE IF item.op = "eq" /\ Contains(item.val, "*")
          THEN IF \A i \in DOMAIN sub.parts : sub.parts[i].val.ok
                 THEN Ok([sub EXCEPT !.parts = [i \in DOMAIN sub.parts |->
                             [sub.parts[i] EXCEPT !.val = @.val]]])
               ELSE Err
        ELSE IF val.ok THEN Ok([item EXCEPT !.val = val.val]) ELSE Err

(* An item ends at the first ")"; its operator must come before that. *)
CompileItem(filter, pos) ==
    LET close == SelectInSubSeq(filter, pos + 1, Len(filter), LAMBDA c : c = ")")
        item == SubSeq(filter, pos + 1, IF close = 0 THEN Len(filter) ELSE close - 1)
        at == FindOperator(item)
        packet == ItemPacket(SplitItem(SubSeq(item, 1, at.val - 1), Drop(item, at.val - 1)))
    IN  IF ~at.ok THEN CompileError(Nil)
        ELSE IF close = 0 \/ ~packet.ok THEN CompileError(Unfinished)
        ELSE Compiled(packet.val, close)

(* AppendChild (external) panics on a nil child. *)
RECURSIVE compileFilter(_, _), compileFilterSet(_, _, _)
compileFilterSet(filter, pos, parent) ==
    LET child == compileFilter(filter, pos + 1) IN
    IF pos < Len(filter) /\ filter[pos + 1] = "("
      THEN IF child.err THEN CompileError(Unfinished)
           ELSE IF child.packet = Nil THEN Recovered
           ELSE compileFilterSet(filter, child.pos,
                                 [parent EXCEPT !.kids = Append(@, child.packet)])
    ELSE IF pos = Len(filter) THEN CompileError(Unfinished)
    ELSE Compiled(parent, pos + 1)

compileFilter(filter, pos) ==
    LET char == filter[pos + 1]
        child == compileFilter(filter, pos + 1)
    IN  CASE pos > Len(filter) -> Recovered
          [] pos = Len(filter) -> CompileError(Nil)
          [] pos < Len(filter) /\ char = "(" -> [child EXCEPT !.pos = @ + 1]
          [] pos < Len(filter) /\ char = "&" ->
                compileFilterSet(filter, pos + 1, [op |-> "and", kids |-> <<>>])
          [] pos < Len(filter) /\ char = "|" ->
                compileFilterSet(filter, pos + 1, [op |-> "or", kids |-> <<>>])
          [] pos < Len(filter) /\ char = "!" ->
                IF child.packet = Nil THEN Recovered
                ELSE [child EXCEPT !.packet = [op |-> "not", kids |-> <<child.packet>>]]
          [] OTHER -> CompileItem(filter, pos)

(* Faulty: what follows the filter is not looked at. *)
CompileFilterExtra(filter) ==
    LET result == compileFilter(filter, 1) IN
    IF filter = <<>> \/ Head(filter) # "(" \/ result.err THEN Err ELSE Ok(result.packet)

CompileFilter(filter) ==
    LET result == compileFilter(filter, 1) IN
    IF filter = <<>> \/ Head(filter) # "(" THEN Err
    ELSE IF result.err \/ result.pos # Len(filter) THEN Err
    ELSE Ok(result.packet)

-----------------------------------------------------------------------------
(* DecompileFilter *)

PartsText(parts) ==
    FlattenSeq([i \in DOMAIN parts |->
        (IF i = 1 /\ parts[i].tag # "initial" THEN <<"*">> ELSE <<>>)
        \o EscapeFilter(parts[i].val)
        \o (IF parts[i].tag # "final" THEN <<"*">> ELSE <<>>)])

Symbol == [and |-> <<"&">>, or |-> <<"|">>, not |-> <<"!">>, eq |-> <<"=">>,
           ge |-> <<">", "=">>, le |-> <<"<", "=">>, approx |-> <<"~", "=">>]

RECURSIVE DecompileFilter(_)
DecompileFilter(p) ==
    <<"(">> \o
    (CASE p.op \in {"and", "or", "not"} ->
            Symbol[p.op]
            \o FlattenSeq([i \in DOMAIN p.kids |-> DecompileFilter(p.kids[i])])
       [] p.op = "substr" -> EscapeFilter(p.attr) \o <<"=">> \o PartsText(p.parts)
       [] p.op = "present" -> EscapeFilter(p.attr) \o <<"=", "*">>
       [] p.op = "ext" ->
            EscapeFilter(p.attr)
            \o (IF p.dn THEN <<":", "d", "n">> ELSE <<>>)
            \o (IF p.rule # <<>> THEN <<":">> \o EscapeFilter(p.rule) ELSE <<>>)
            \o <<":", "=">> \o EscapeFilter(p.val)
       [] OTHER -> EscapeFilter(p.attr) \o Symbol[p.op] \o EscapeFilter(p.val))
    \o <<")">>
=============================================================================
