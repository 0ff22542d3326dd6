-------------------------------- MODULE Text --------------------------------
(***************************************************************************)
(* Text as the codecs of the library see it: a sequence of characters, each *)
(* a short string.  "nul" and "stx" stand for control characters, "b82" and *)
(* "b88" for octets above 0x7f.  A conversion that can fail returns Ok of   *)
(* its result, or Err.                                                      *)
(***************************************************************************)
EXTENDS Integers, Sequences, SequencesExt, TLC, Outcome

(* What follows a decoded character, if that can be decoded. *)
Then(c, rest) == IF rest.ok THEN Ok(<<c>> \o rest.val) ELSE Err

(* The part of s after its first n characters. *)
Drop(s, n) == SubSeq(s, n + 1, Len(s))

(* encoding/hex on the octets that the texts of the instances can spell. *)
Hex == ("nul" :> <<"0", "0">>) @@ ("stx" :> <<"0", "2">>)
    @@ (" " :> <<"2", "0">>) @@ ("\"" :> <<"2", "2">>)
    @@ ("(" :> <<"2", "8">>) @@ (")" :> <<"2", "9">>) @@ ("*" :> <<"2", "a">>)
    @@ ("\\" :> <<"5", "c">>)
    @@ ("b82" :> <<"8", "2">>) @@ ("b88" :> <<"8", "8">>)

IsHex(s) == \E c \in DOMAIN Hex : Hex[c] = s

Unhex(s) == CHOOSE c \in DOMAIN Hex : Hex[c] = s

(* strings.Split and strings.Join with a separator of one character. *)
RECURSIVE Split(_, _)
Split(s, sep) ==
    LET i == SelectInSeq(s, LAMBDA c : c = sep) IN
    IF i = 0 THEN <<s>>
    ELSE <<SubSeq(s, 1, i - 1)>> \o Split(Drop(s, i), sep)

Join(parts, sep) ==
    FlattenSeq([i \in DOMAIN parts |->
                   IF i = 1 THEN parts[i] ELSE <<sep>> \o parts[i]])
=============================================================================
