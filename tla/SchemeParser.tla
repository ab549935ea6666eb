----------------------------- MODULE SchemeParser -----------------------------
(***************************************************************************)
(* The schemes of file names, commands and info files (SchemeParser): text *)
(* with placeholders, $name, ${name} and ${name key=value ...}, of which   *)
(* parseScheme() makes the text with their values.                         *)
(*                                                                         *)
(* The result is a sequence of items: a character of the scheme, or the    *)
(* value of a placeholder under its parameters, which the program renders. *)
(***************************************************************************)
EXTENDS Parameters

CONSTANTS Placeholders,  \* the placeholders with a value here
          OtherNames,    \* names that are none
          Literals,      \* the characters a scheme has besides placeholders
          Arguments,     \* the parameters a scheme gives its placeholders
          ArgumentTexts, \* what its author has written in their place, else
          MaxPieces      \* bound on the pieces of a scheme

(* A literal character is none that begins a placeholder or an escape, a name *)
(* is a word, and the parameters of a placeholder are such as are read from   *)
(* text, which has no brace that ends them.                                   *)
ASSUME SchemeAssumption ==
    /\ MaxPieces \in Nat
    /\ Literals \subseteq STRING \ {"$", "\\"}
    /\ Placeholders \cup OtherNames \subseteq Seq(WordChars) \ {<<>>}
    /\ \A p \in Arguments :
          /\ IsFiniteSet(DOMAIN p) /\ DOMAIN p \subseteq Seq(WordChars) \ {<<>>}
          /\ p = [k \in DOMAIN p |-> p[k]]
          /\ \A k \in DOMAIN p :
                /\ p[k].text \in Seq(STRING) /\ "}" \notin ToSet(p[k].text)
                /\ IsValue(p[k]) /\ AsRead(p[k]) = p[k]
    /\ \A text \in ArgumentTexts : text \in Seq(STRING) /\ "}" \notin ToSet(text)

Literal(c) == <<"char", c>>
ValueOf(name, parameters) == <<"value", name, parameters>>

-----------------------------------------------------------------------------
(* The parser between two characters.  "escape" is a backslash of the text   *)
(* that has been read and whose next character has not.                      *)
SchemeStart == [mode |-> "text", name |-> <<>>, arguments |-> <<>>, result |-> <<>>,
                used |-> {}, error |-> FALSE]

Expansion(name, parameters) ==
    IF name \in Placeholders THEN <<ValueOf(name, parameters)>> ELSE <<>>

(* A placeholder without parameters ends. *)
EndName(s) ==
    [s EXCEPT !.mode = "text", !.name = <<>>,
              !.result = @ \o Expansion(s.name, <<>>),
              !.used = @ \cup {s.name}]

(* A backslash before a dollar stands for the dollar; any other disappears. *)
InText(s, c) ==
    IF c = "$" THEN IF s.mode = "escape"
                    THEN [s EXCEPT !.mode = "text", !.result = Append(@, Literal(c))]
                    ELSE [s EXCEPT !.mode = "name"]
    ELSE IF c = "\\" THEN [s EXCEPT !.mode = "escape"]
    ELSE [s EXCEPT !.mode = "text", !.result = Append(@, Literal(c))]

(* The character that ends the name is copied, whatever it is. *)
InBareName(s, c) ==
    IF c = "{" /\ s.name = <<>> THEN [s EXCEPT !.mode = "brace"]
    ELSE IF c \in WordChars THEN [s EXCEPT !.name = Append(@, c)]
    ELSE [EndName(s) EXCEPT !.result = Append(@, Literal(c))]

InBraces(s, c) ==
    IF c \in WordChars THEN [s EXCEPT !.name = Append(@, c)]
    ELSE IF c = "}" THEN EndName(s)
    ELSE IF c \in SpaceChars
    THEN IF s.name = <<>> THEN s ELSE [s EXCEPT !.mode = "arguments"]
    ELSE [s EXCEPT !.error = TRUE]

(* A mutant of InArguments: the text of the parameters is kept for the next. *)
InArguments_Kept(s, c) ==
    LET read == FromText(s.arguments, " ")
    IN  IF c # "}" THEN [s EXCEPT !.arguments = Append(@, c)]
        ELSE IF read.error THEN [s EXCEPT !.error = TRUE]
        ELSE IF s.name \in Placeholders
        THEN [s EXCEPT !.mode = "text", !.name = <<>>,
                       !.result = @ \o Expansion(s.name, read.parameters),
                       !.used = @ \cup {s.name}]
        ELSE [s EXCEPT !.used = @ \cup {s.name}]

(* The end of the parameters: only a placeholder that is known is left. *)
InArguments(s, c) ==
    LET read == FromText(s.arguments, " ")
    IN  IF c # "}" THEN [s EXCEPT !.arguments = Append(@, c)]
        ELSE IF read.error THEN [s EXCEPT !.error = TRUE]
        ELSE IF s.name \in Placeholders
        THEN [s EXCEPT !.mode = "text", !.name = <<>>, !.arguments = <<>>,
                       !.result = @ \o Expansion(s.name, read.parameters),
                       !.used = @ \cup {s.name}]
        ELSE [s EXCEPT !.used = @ \cup {s.name}]

ReadSchemeChar(s, c) ==
    CASE s.error -> s
      [] ~s.error /\ s.mode \in {"text", "escape"} -> InText(s, c)
      [] ~s.error /\ s.mode = "name" -> InBareName(s, c)
      [] ~s.error /\ s.mode = "brace" -> InBraces(s, c)
      [] ~s.error /\ s.mode = "arguments" -> InArguments(s, c)

(* parseScheme(): a name that the scheme ends with is a placeholder, and an *)
(* error, a brace left open included, leaves nothing of the result.         *)
ParseScheme(scheme) ==
    LET s == FoldLeft(ReadSchemeChar, SchemeStart, scheme)
        ended == IF s.error \/ s.name = <<>> THEN s ELSE EndName(s)
    IN  IF s.error \/ s.mode \in {"brace", "arguments"}
        THEN [ended EXCEPT !.result = <<>>, !.error = TRUE]
        ELSE ended

-----------------------------------------------------------------------------
(* Schemes in pieces, each with its text, its value, the placeholder of which *)
(* the caller is told, and whether the scheme fails with it.                  *)

Char(c) == [text |-> <<c>>, value |-> <<Literal(c)>>, used |-> {}, fails |-> FALSE]

Dollar == [text |-> <<"\\", "$">>, value |-> <<Literal("$")>>, used |-> {}, fails |-> FALSE]

Bare(name) ==
    [text |-> <<"$">> \o name, value |-> Expansion(name, <<>>), used |-> {name},
     fails |-> FALSE]

Braced(name) ==
    [text |-> <<"$", "{">> \o name \o <<"}">>, value |-> Expansion(name, <<>>),
     used |-> {name}, fails |-> FALSE]

(* Parameters are good only for a placeholder that has a value; that of the *)
(* cover has none before the cover is saved, nor without a cover.           *)
WithArguments(name, parameters) ==
    [text |-> <<"$", "{">> \o name \o <<" ">> \o ToText(parameters, " ") \o <<"}">>,
     value |-> Expansion(name, parameters), used |-> {name},
     fails |-> name \notin Placeholders]

(* Parameters in other words, such as in double quotes. *)
AsWritten(name, text) ==
    LET read == FromText(text, " ")
    IN  [text |-> <<"$", "{">> \o name \o <<" ">> \o text \o <<"}">>,
         value |-> Expansion(name, read.parameters),
         used |-> IF read.error THEN {} ELSE {name},
         fails |-> read.error \/ name \notin Placeholders]

Pieces ==
    LET names == Placeholders \cup OtherNames
    IN  {Char(c) : c \in Literals} \cup {Dollar}
        \cup {Bare(name) : name \in names} \cup {Braced(name) : name \in names}
        \cup {WithArguments(name, parameters) : name \in names, parameters \in Arguments}
        \cup {AsWritten(name, text) : name \in names, text \in ArgumentTexts}

(* A bare placeholder ends where a character that is no part of a name, and *)
(* no beginning of another placeholder or of an escape, follows.            *)
Separated(pieces) ==
    \A i \in 1..(Len(pieces) - 1) :
        pieces[i] \in {Bare(name) : name \in Placeholders \cup OtherNames} =>
            pieces[i + 1].text[1] \notin WordChars \cup {"$", "\\"}

Patterns ==
    {pieces \in UNION {[1..n -> Pieces] : n \in 0..MaxPieces} : Separated(pieces)}

(* The text of the pieces is expanded to their values, each under its own     *)
(* parameters, or to nothing if one fails; and the caller is told just the    *)
(* placeholders used, up to the one that fails: parseCommandScheme() looks    *)
(* for the cover in a first pass, which fails if the cover has parameters.    *)
Expands(pieces) ==
    LET parsed == ParseScheme(FlattenSeq([i \in DOMAIN pieces |-> pieces[i].text]))
        fails == \E i \in DOMAIN pieces : pieces[i].fails
        reached == {i \in DOMAIN pieces : \A j \in 1..(i - 1) : ~pieces[j].fails}
    IN  /\ parsed.error <=> fails
        /\ parsed.result = IF fails THEN <<>>
                           ELSE FlattenSeq([i \in DOMAIN pieces |-> pieces[i].value])
        /\ parsed.used = UNION {pieces[i].used : i \in reached}
=============================================================================
