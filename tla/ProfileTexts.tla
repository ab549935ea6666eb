---------------------------- MODULE ProfileTexts ----------------------------
(***************************************************************************)
(* What the fields of a profile hold: its encoder's options and its file   *)
(* name scheme.  ProfileModel knows them as one value, "scheme"; here that *)
(* value stands for a class of contents, those of a new profile or those a *)
(* user may enter, and the properties speak of every member of the class.  *)
(***************************************************************************)
EXTENDS ProfileModel, SchemeParser

(* stdParameters() gives a new profile numbers and truth values, some of them *)
(* as text.                                                                   *)
OptionsOf ==
    [scheme \in Schemes |->
        IF scheme = DefaultScheme
        THEN {p \in ParameterMaps : \A k \in DOMAIN p : p[k].kind = "string" => p[k].text = <<"T">>}
        ELSE ParameterMaps]

(* The default schemes are of literal characters and bare placeholders. *)
PatternsOf ==
    [scheme \in Schemes |->
        IF scheme = DefaultScheme
        THEN {p \in Patterns : \A i \in DOMAIN p :
                p[i] \in {Char(c) : c \in Literals} \cup {Bare(name) : name \in Placeholders}}
        ELSE Patterns]

(* Evaluated once for each class. *)
OptionsReadBack ==
    [scheme \in Schemes |->
        \A parameters \in OptionsOf[scheme], sep \in {",", " "} :
            ReadsBack(parameters, sep)]

PatternsExpand ==
    [scheme \in Schemes |-> \A pieces \in PatternsOf[scheme] : Expands(pieces)]

-----------------------------------------------------------------------------
(* The encoder options in the settings are read by the next rip, or the next *)
(* start, as they were entered, whatever quotes, backslashes, separators and  *)
(* spaces they hold: a command line of the user's own is such an option.      *)
(* Strings of digits stay strings and numbers keep their value; only a double *)
(* that is a whole number comes back as an int.                               *)
SavedOptionsAreReadBack ==
    \A row \in DOMAIN settings.list : OptionsReadBack[settings.list[row].scheme]

(* The scheme of a profile is expanded piece by piece: every placeholder is  *)
(* replaced by its own value under its own parameters, none runs into its    *)
(* neighbours, whatever goes before or follows, for escapes, unknown names,  *)
(* and quotes, spaces and dollars in parameters.  Parameters that cannot be  *)
(* read, and any on a placeholder without a value, leave nothing of the      *)
(* text; still a caller that prepares a cover is told of every placeholder   *)
(* up to there.                                                              *)
SchemesExpand == \A row \in Rows : PatternsExpand[cache[row].scheme]
=============================================================================
