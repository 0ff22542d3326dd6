---------------------------- MODULE PostalAddress ----------------------------
(***************************************************************************)
(* Postal addresses, v3/postaladdress.go: an address is a non-empty         *)
(* sequence of non-empty lines.                                             *)
(***************************************************************************)
EXTENDS Text

NonEmpty(lines) == SelectSeq(lines, LAMBDA line : line # <<>>)

(* Of lines, or Err (ErrEmptyPostalAddress) when nothing is left of them. *)
NewPostalAddress(lines) ==
    IF NonEmpty(lines) = <<>> THEN Err ELSE Ok(NonEmpty(lines))

(* Faulty: only the separator is escaped. *)
EscapeAddressDollar(lines) ==
    FlattenSeq([i \in DOMAIN lines |->
        Append(FlattenSeq([j \in DOMAIN lines[i] |->
                   IF lines[i][j] = "$" THEN <<"\\", "2", "4">> ELSE <<lines[i][j]>>]),
               "$")])

EscapeAddress(lines) ==
    FlattenSeq([i \in DOMAIN lines |->
        Append(FlattenSeq([j \in DOMAIN lines[i] |->
                   CASE lines[i][j] = "\\" -> <<"\\", "5", "C">>
                     [] lines[i][j] = "$" -> <<"\\", "2", "4">>
                     [] OTHER -> <<lines[i][j]>>]),
               "$")])

RECURSIVE ParseLine(_)
ParseLine(line) ==
    IF line = <<>> THEN Ok(<<>>)
    ELSE IF Head(line) # "\\" THEN Then(Head(line), ParseLine(Tail(line)))
    ELSE IF Len(line) < 3 THEN Err
    ELSE CASE SubSeq(line, 2, 3) \in {<<"5", "C">>, <<"5", "c">>} ->
                 Then("\\", ParseLine(Drop(line, 3)))
           [] SubSeq(line, 2, 3) = <<"2", "4">> ->
                 Then("$", ParseLine(Drop(line, 3)))
           [] OTHER -> Err

ParsePostalAddress(escaped) ==
    LET lines == NonEmpty(Split(escaped, "$"))
        parsed == [i \in DOMAIN lines |-> ParseLine(lines[i])]
    IN  IF lines # <<>> /\ \A i \in DOMAIN parsed : parsed[i].ok
          THEN Ok([i \in DOMAIN parsed |-> parsed[i].val])
        ELSE Err
=============================================================================
