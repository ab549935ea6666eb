--------------------------- MODULE MCProfileModel ---------------------------
EXTENDS ProfileTexts

MCBases == 1..2
MCDetected == <<2, 1>>
MCSchemes == 1..2

(* A file that is not one of profiles, and one that the program saved when the *)
(* second of its two profiles was current.                                     *)
MCFiles ==
    {[standard |-> -1, list |-> <<>>],
     [standard |-> 2,
      list |-> <<[index |-> 1, name |-> [base |-> 1, copies |-> 1], scheme |-> 1],
                 [index |-> 2, name |-> [base |-> 2, copies |-> 0], scheme |-> 2]>>]}

MCChars == {"a", "0", "1", "T", ".", "'", "\\", "=", " ", ","}

(* The text forms of what a profile holds: its parameters, with every text of *)
(* at most two characters as a value, and its schemes.                        *)
MCKeys == {<<"a">>, <<"T", "1">>}
MCTexts ==
    {<<>>, <<"0", ".", "1">>, <<"1", ".", "0">>} \cup {<<c>> : c \in MCChars}
        \cup (MCChars \X MCChars)

MCPlaceholders == {<<"a">>, <<"a", "1">>}
MCOtherNames == {<<"T">>}
MCLiterals == {"a", " ", "{", "}", "="}
MCArguments ==
    {[k \in {<<"a">>} |-> Typed(<<"1", ".", "1">>, FALSE)],
     [k \in MCKeys |-> IF k = <<"a">> THEN Typed(<<"'", "\\">>, TRUE)
                        ELSE Typed(<<" ", "$", "{">>, TRUE)]}

(* A value in double quotes, which belong to it, and one with a space, which *)
(* cannot be read.                                                           *)
MCArgumentTexts ==
    {<<"a", "=", "\"", "1", "\"">>, <<"a", "=", "\"", " ", "\"">>}
=============================================================================
