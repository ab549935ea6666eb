------------------------------ MODULE Parameters ------------------------------
(***************************************************************************)
(* The options of an encoder and of a placeholder (Parameters): a map from *)
(* names to typed values, and its text form, in which the profiles store   *)
(* it and the user writes it.                                              *)
(*                                                                         *)
(* Text is a sequence of characters.  A letter or an underscore is "a", a  *)
(* digit "0" or, for all others, "1", and "T" stands for the word true;    *)
(* the others are themselves.  A number has no sign and no exponent.       *)
(* The parser reads a character in one of five modes, its four flags.      *)
(***************************************************************************)
EXTENDS Integers, Sequences, SequencesExt, FiniteSets

CONSTANTS Keys,         \* names of parameters, sequences of word characters
          Texts,        \* the values of parameters, sequences of characters
          MaxParameters, \* bound on the parameters of one map
          IntDigits     \* an integer of more digits is too large for an int

Digits == {"0", "1"}
NumberChars == Digits \cup {"."}
WordChars == {"a", "T"} \cup Digits
SpaceChars == {" "}

(* A name is a word, and a text is of characters. *)
ASSUME TextsAssumption ==
    /\ IntDigits \in Nat
    /\ Keys \subseteq Seq(WordChars) \ {<<>>}
    /\ Texts \subseteq Seq(STRING)

(* What toDouble() accepts: digits, and one decimal point at most. *)
IsNumber(text) ==
    /\ ToSet(text) \subseteq NumberChars /\ ToSet(text) \cap Digits # {}
    /\ \A i, j \in DOMAIN text : text[i] = "." /\ text[j] = "." => i = j

(* The text of a number: no zero before or after it that does not count. *)
Shortest(text) ==
    LET padded == <<"0">> \o text
        whole == {i \in DOMAIN padded : \A j \in 1..i : padded[j] # "."}
        first == Max({i \in whole : \A j \in 1..(i - 1) : padded[j] = "0"})
        last == Min({i \in Max(whole)..Len(padded) :
                        \A j \in (i + 1)..Len(padded) : padded[j] \in {"0", "."}})
    IN  SubSeq(padded, first, last)

(* What toInt() accepts: digits only, of a number that is not too large. *)
IsInt(text) ==
    /\ text # <<>> /\ ToSet(text) \subseteq Digits
    /\ Len(Shortest(text)) <= IntDigits

(* p_insert_value(): the value that is made of what is written. *)
Typed(text, quoted) ==
    IF quoted THEN [text |-> text, kind |-> "string"]
    ELSE IF IsInt(text) THEN [text |-> Shortest(text), kind |-> "int"]
    ELSE IF IsNumber(text) THEN [text |-> Shortest(text), kind |-> "double"]
    ELSE IF text = <<"T">> THEN [text |-> text, kind |-> "bool"]
    ELSE [text |-> text, kind |-> "string"]

(* The values that the program holds, under the text that toString() has for *)
(* them; a spin box's double may be a whole number.                          *)
IsValue(v) ==
    /\ v = [text |-> v.text, kind |-> v.kind]
    /\ \/ v.kind = "string"
       \/ v.kind = "bool" /\ v.text = <<"T">>
       \/ v.kind = "int" /\ IsInt(v.text) /\ v.text = Shortest(v.text)
       \/ v.kind = "double" /\ IsNumber(v.text) /\ v.text = Shortest(v.text)

ParameterMaps ==
    LET Values == {v \in [text : Texts, kind : {"string", "bool", "int", "double"}] :
                     IsValue(v)}
        Bounded(K) == IsFiniteSet(K) /\ Cardinality(K) <= MaxParameters
    IN  UNION {[keys -> Values] : keys \in {K \in SUBSET Keys : Bounded(K)}}

-----------------------------------------------------------------------------
(* A mutant of Escaped: only quotes are escaped. *)
Escaped_QuotesOnly(text) ==
    FlattenSeq([i \in DOMAIN text |->
                  IF text[i] = "'" THEN <<"\\", text[i]>> ELSE <<text[i]>>])

(* The two replacements of toString(): backslashes, then quotes. *)
Escaped(text) ==
    FlattenSeq([i \in DOMAIN text |->
                  IF text[i] \in {"\\", "'"} THEN <<"\\", text[i]>> ELSE <<text[i]>>])

(* toString(): only strings are quoted.  The keys come in the map's order, of *)
(* which nothing here depends.                                                *)
ToText(parameters, sep) ==
    LET keys == SetToSeq(DOMAIN parameters)
        Entry(k) == LET value == parameters[k]
                    IN  k \o <<"=">> \o (IF value.kind = "string"
                                         THEN <<"'">> \o Escaped(value.text) \o <<"'">>
                                         ELSE value.text)
    IN  FlattenSeq([i \in DOMAIN keys |->
                      IF i = 1 THEN Entry(keys[i]) ELSE <<sep>> \o Entry(keys[i])])

-----------------------------------------------------------------------------
(* The parser between two characters: what it has read of an entry, and what *)
(* it has inserted.                                                          *)
ParserStart == [mode |-> "between", key |-> <<>>, value |-> <<>>, quoted |-> FALSE,
                parameters |-> <<>>, error |-> FALSE]

(* p_insert_value(): a nameless entry is dropped, a later one of the same name *)
(* replaces an earlier one.                                                    *)
InsertValue(p) ==
    IF p.key = <<>> THEN p
    ELSE [p EXCEPT !.parameters =
            [k \in DOMAIN p.parameters \cup {p.key} |->
                IF k = p.key THEN Typed(p.value, p.quoted) ELSE p.parameters[k]]]

Failed(p) == [p EXCEPT !.error = TRUE]

Between(p, c, sep) ==
    IF c = sep
    THEN [InsertValue(p) EXCEPT !.mode = "between", !.key = <<>>, !.value = <<>>,
                                !.quoted = FALSE]
    ELSE IF c \in WordChars /\ p.value = <<>>
    THEN [p EXCEPT !.mode = "key", !.key = Append(@, c)]
    ELSE Failed(p)

InKey(p, c) ==
    IF c \in WordChars THEN [p EXCEPT !.key = Append(@, c)]
    ELSE IF c = "=" THEN [p EXCEPT !.mode = "value"]
    ELSE Failed(p)

InValue(p, c, sep) ==
    IF c = "'" THEN IF p.value = <<>> THEN [p EXCEPT !.mode = "quote", !.quoted = TRUE]
                    ELSE Failed(p)
    ELSE IF c = sep THEN Between(p, c, sep)
    ELSE IF c \in SpaceChars THEN Failed(p)
    ELSE [p EXCEPT !.value = Append(@, c)]

InQuote(p, c) ==
    IF c = "'" THEN [p EXCEPT !.mode = "between"]
    ELSE IF c = "\\" THEN [p EXCEPT !.mode = "escape"]
    ELSE [p EXCEPT !.value = Append(@, c)]

ReadChar(p, c, sep) ==
    CASE p.error -> p
      [] ~p.error /\ p.mode = "between" -> Between(p, c, sep)
      [] ~p.error /\ p.mode = "key" -> InKey(p, c)
      [] ~p.error /\ p.mode = "value" -> InValue(p, c, sep)
      [] ~p.error /\ p.mode = "quote" -> InQuote(p, c)
      [] ~p.error /\ p.mode = "escape" ->
            [p EXCEPT !.mode = "quote", !.value = Append(@, c)]

(* fromString(). *)
FromText(text, sep) ==
    LET p == FoldLeft(LAMBDA q, c : ReadChar(q, c, sep), ParserStart, text)
    IN  IF p.mode \in {"quote", "escape"} THEN Failed(p)
        ELSE IF p.error THEN p ELSE InsertValue(p)

(* A whole number is an int when it is read, whatever it was before. *)
AsRead(v) ==
    IF v.kind = "double" /\ IsInt(v.text) THEN [text |-> v.text, kind |-> "int"] ELSE v

(* What the program writes it reads again, but for the type of whole numbers. *)
ReadsBack(parameters, sep) ==
    LET read == FromText(ToText(parameters, sep), sep)
    IN  /\ ~read.error
        /\ read.parameters = [k \in DOMAIN parameters |-> AsRead(parameters[k])]
=============================================================================
