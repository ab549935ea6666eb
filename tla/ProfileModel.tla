---------------------------- MODULE ProfileModel ----------------------------
(***************************************************************************)
(* The list of profiles (ProfileModel), the page of the preferences that   *)
(* edits it (profileWidget, ProfileDataDialog), the profile the next rip   *)
(* will use (the combobox of the main window), and the settings in which   *)
(* both survive the program.                                               *)
(*                                                                         *)
(* A profile is its index, which identifies it, its name, which the user   *)
(* sees, and its scheme, which stands for the fields that setData() may    *)
(* refuse after it took the name.  A name is the name somebody gave,       *)
(* "base", behind as many underscores as copies added to it; base 0 is the *)
(* empty name.                                                             *)
(*                                                                         *)
(* The combobox picks a row only when the user does: a reset of the model  *)
(* clears it, as update_profile_action() says, and a cleared combobox      *)
(* sets nothing.                                                           *)
(***************************************************************************)
EXTENDS Integers, Sequences, SequencesExt, FiniteSets

CONSTANTS Bases,        \* the names a user gives
          Detected,     \* the names autoCreate() gives, in its order: the
                        \* encoders installed on this system
          Schemes,      \* the values of the other fields
          Files,        \* the contents of files the user may load
          MaxProfiles,  \* bound on the number of profiles
          MaxCopies     \* bound on the underscores of a name

ASSUME BoundsAssumption == MaxProfiles \in Nat \ {0} /\ MaxCopies \in Nat

(* A name that was given is not empty, and only names that fit are detected. *)
ASSUME NamesAssumption ==
    /\ Bases \subseteq Nat \ {0}
    /\ Detected \in Seq(Bases) /\ Len(Detected) <= MaxProfiles

VARIABLES cache,        \* p_cache
          current,      \* p_current_profile_index, -1 for none
          settings,     \* what the settings hold: "standard" and the profiles
          halfEdited    \* an edit has failed after it took the name (ghost)

vars == <<cache, current, settings, halfEdited>>

(* DEFAULT_NAME, and a scheme left empty in the dialog. *)
Unnamed == [base |-> 0, copies |-> 0]
Empty == 0

(* The profile with which a new row begins has the default scheme. *)
DefaultScheme == 1

Names == [base : Bases, copies : 0..MaxCopies]

Profiles == [index : 0..(MaxProfiles - 1), name : Names, scheme : Schemes]

(* What a user may ask of the dialog of a profile. *)
Edits == [name : Names \cup {Unnamed}, scheme : Schemes \cup {Empty}]

ASSUME SchemesAssumption == DefaultScheme \in Schemes

-----------------------------------------------------------------------------
(* The operations compose calls of the model, each a function of the list, *)
(* the current index and the settings.                                     *)

IndexesIn(list) == {list[i].index : i \in DOMAIN list}
NamesIn(list) == {list[i].name : i \in DOMAIN list}

Distinct(list) ==
    \A i, j \in DOMAIN list :
        list[i].index = list[j].index \/ list[i].name = list[j].name => i = j

(* A file is not one of profiles, or the program saved its profiles there, and *)
(* which one was current.                                                      *)
ASSUME FilesAssumption ==
    \A file \in Files :
        /\ file \in [standard : Int, list : Seq(Profiles)]
        /\ Len(file.list) <= MaxProfiles /\ Distinct(file.list)
        /\ IF file.list = <<>> THEN file.standard = -1
           ELSE file.standard \in IndexesIn(file.list)

(* A mutant of NewIndex: one more than the largest index. *)
NewIndex_Next(list) ==
    IF list = <<>> THEN 0
    ELSE 1 + CHOOSE i \in IndexesIn(list) : \A j \in IndexesIn(list) : j <= i

(* getNewIndex(): the smallest index that no profile has. *)
NewIndex(list) ==
    CHOOSE i \in 0..Len(list) :
        i \notin IndexesIn(list) /\ \A j \in 0..(i - 1) : j \in IndexesIn(list)

(* p_new_name(): underscores are added until no profile has the name. *)
CopyName(list, name) ==
    LET Prefixed(n) == [name EXCEPT !.copies = @ + n]
    IN  Prefixed(CHOOSE n \in 0..Len(list) :
                    /\ Prefixed(n) \notin NamesIn(list)
                    /\ \A k \in 0..(n - 1) : Prefixed(k) \in NamesIn(list))

(* lessThan() for the profiles of rows i and j; two of one name, which there *)
(* are not, would keep their order.                                          *)
Precedes(list, i, j) ==
    LET p == list[i].name
        q == list[j].name
    IN  \/ p.base < q.base
        \/ p.base = q.base /\ p.copies > q.copies
        \/ p = q /\ i < j

(* sortItems(): a profile moves behind all that precede it. *)
Rank(list, i) == 1 + Cardinality({j \in DOMAIN list : Precedes(list, j, i)})

Sorted(list) == [k \in DOMAIN list |-> list[CHOOSE i \in DOMAIN list : Rank(list, i) = k]]

State == [list |-> cache, current |-> current, settings |-> settings]

(* A mutant of SetCurrent: the settings are left to the next commit. *)
SetCurrent_Unsaved(s, index) ==
    [s EXCEPT !.current = IF s.list = <<>> THEN -1
                          ELSE IF index \in IndexesIn(s.list) THEN index
                          ELSE s.list[1].index]

(* setCurrentProfileIndex(): an index that is not there becomes the index of *)
(* the first profile; a change is written to the settings at once.           *)
SetCurrent(s, index) ==
    LET i == IF s.list = <<>> THEN -1
             ELSE IF index \in IndexesIn(s.list) THEN index
             ELSE s.list[1].index
    IN  IF i = s.current THEN s
        ELSE [s EXCEPT !.current = i, !.settings.standard = i]

(* commit(). *)
Commit(s) == [s EXCEPT !.settings = [standard |-> s.current, list |-> s.list]]

(* p_load(): the list and the current index as they were saved. *)
Load(s, saved) ==
    [s EXCEPT !.list = saved.list,
              !.current = IF saved.list # <<>> /\ saved.standard = -1 THEN 0
                          ELSE saved.standard]

(* insertRows() behind the last row, as the dialog calls it: the first profile *)
(* of an empty list becomes current.                                           *)
InsertRow(s, profile) ==
    LET inserted == [s EXCEPT !.list = Append(@, profile)]
    IN  IF s.list = <<>> THEN SetCurrent(inserted, profile.index) ELSE inserted

(* A mutant of RemoveRow: the current profile may be the one removed. *)
RemoveRow_Unchecked(s, row) == [s EXCEPT !.list = RemoveAt(@, row)]

(* removeRows() of one row, which then looks for the current profile. *)
RemoveRow(s, row) ==
    SetCurrent([s EXCEPT !.list = RemoveAt(@, row)], s.current)

(* A mutant of AcceptsName: the other rows are not looked at. *)
AcceptsName_Unscanned(list, row, name) == name # Unnamed

(* setData() of the name: neither empty nor another row's. *)
AcceptsName(list, row, name) ==
    /\ name # Unnamed
    /\ \A i \in DOMAIN list \ {row} : list[i].name # name

(* The chain of setData() calls in ProfileDataDialog::save(), which goes on *)
(* until one fails and takes back nothing.                                  *)
SetFields(list, row, edit) ==
    IF ~AcceptsName(list, row, edit.name) THEN list
    ELSE [list EXCEPT ![row].name = edit.name,
                      ![row].scheme = IF edit.scheme = Empty THEN @ ELSE edit.scheme]

Refused(list, row, edit) ==
    ~AcceptsName(list, row, edit.name) \/ edit.scheme = Empty

Become(s) ==
    /\ cache' = s.list
    /\ current' = s.current
    /\ settings' = s.settings

-----------------------------------------------------------------------------
(* add_profile(): the dialog inserts a row, fills it and commits, or takes the *)
(* row out again; only an accepted dialog is followed by a sort.               *)
Add(edit) ==
    LET row == Len(cache) + 1
        inserted == InsertRow(State, [index |-> NewIndex(cache), name |-> Unnamed,
                                      scheme |-> DefaultScheme])
        filled == [inserted EXCEPT !.list = SetFields(@, row, edit)]
        saved == Commit(filled)
    IN  /\ Len(cache) < MaxProfiles
        /\ \/ /\ Refused(inserted.list, row, edit)
              /\ Become(RemoveRow(filled, row))
              /\ UNCHANGED halfEdited
           \/ /\ ~Refused(inserted.list, row, edit)
              /\ Become([saved EXCEPT !.list = Sorted(@)])
              /\ halfEdited' = FALSE

(* mod_profile(): save() on a row that exists.  A refused edit leaves what it *)
(* took before the refusal, and nothing is committed.                         *)
Modify(row, edit) ==
    LET filled == [State EXCEPT !.list = SetFields(@, row, edit)]
    IN  \/ /\ Refused(cache, row, edit)
           /\ Become(filled)
           /\ halfEdited' = (halfEdited \/ filled.list # cache)
        \/ /\ ~Refused(cache, row, edit)
           /\ Become(Commit(filled))
           /\ halfEdited' = FALSE

(* rem_profile(). *)
Delete(row) ==
    /\ Become(Commit(RemoveRow(State, row)))
    /\ halfEdited' = FALSE

(* copy_profile(): copy(), commit(), sortItems(). *)
Copy(row) ==
    LET name == CopyName(cache, cache[row].name)
        copied == [State EXCEPT !.list =
                     Append(@, [cache[row] EXCEPT !.name = name,
                                                  !.index = NewIndex(cache)])]
        saved == Commit(copied)
    IN  /\ Len(cache) < MaxProfiles
        /\ name.copies <= MaxCopies
        /\ Become([saved EXCEPT !.list = Sorted(@)])
        /\ halfEdited' = FALSE

(* A detected encoder gets a profile of its name, unless there is one, with *)
(* the smallest index that is free by then.                                 *)
WithProfileFor(list, base) ==
    LET name == [base |-> base, copies |-> 0]
    IN  IF name \in NamesIn(list) THEN list
        ELSE Append(list, [index |-> NewIndex(list), name |-> name,
                           scheme |-> DefaultScheme])

WithDetected(list) == FoldLeft(WithProfileFor, list, Detected)

(* autoCreate(): by the user's codec scan, or at the first start. *)
AutoCreate ==
    LET added == WithDetected(cache)
        grown == [State EXCEPT !.list = Sorted(added)]
    IN  /\ Len(added) <= MaxProfiles
        /\ Become(Commit(IF added = cache THEN State
                         ELSE IF cache = <<>> THEN SetCurrent(grown, grown.list[1].index)
                         ELSE grown))
        /\ halfEdited' = FALSE

(* loadProfilesFromFile(): what is loaded replaces the list and is committed. *)
LoadFile(file) ==
    /\ Become(Commit(Load(State, file)))
    /\ halfEdited' = FALSE

(* current_profile_updated_from_ui(): the user picks a row of the combobox. *)
Pick(row) ==
    /\ Become(SetCurrent(State, cache[row].index))
    /\ UNCHANGED halfEdited

(* The program ends and starts again: revert(). *)
Restart ==
    /\ Become(Load(State, settings))
    /\ halfEdited' = FALSE

(* The first start: no settings, and firstRun() calls autoCreate(). *)
Init ==
    /\ cache = Sorted(WithDetected(<<>>))
    /\ current = IF cache = <<>> THEN -1 ELSE cache[1].index
    /\ settings = [standard |-> current, list |-> cache]
    /\ halfEdited = FALSE

Rows == DOMAIN cache

Next ==
    \/ \E edit \in Edits : Add(edit)
    \/ \E row \in Rows, edit \in Edits : Modify(row, edit)
    \/ \E row \in Rows : Delete(row) \/ Copy(row) \/ Pick(row)
    \/ \E file \in Files : LoadFile(file)
    \/ AutoCreate
    \/ Restart

Spec == Init /\ [][Next]_vars

-----------------------------------------------------------------------------
(* The variables keep their types: in particular no profile stays without a  *)
(* name, and an index is below the largest number of profiles there ever was, *)
(* because those of removed profiles are used again.                          *)
TypeOK ==
    /\ cache \in Seq(Profiles) /\ Len(cache) <= MaxProfiles
    /\ current \in -1..(MaxProfiles - 1)
    /\ settings \in [standard : -1..(MaxProfiles - 1), list : Seq(Profiles)]
    /\ halfEdited \in BOOLEAN

(* No two profiles have one index, by which the program tells them apart, or *)
(* one name, by which the user does, whatever is added, copied, detected,    *)
(* renamed, refused, removed or reloaded.                                    *)
ProfilesAreDistinct == Distinct(cache)

Chosen == IF current \in IndexesIn(cache)
          THEN {cache[i] : i \in {r \in Rows : cache[r].index = current}}
          ELSE {}

(* There is a current profile whenever there is a profile, and the profile the *)
(* next rip will use is replaced only by the user: by picking another one,     *)
(* removing or editing it or loading a file.  Adding, copying, detecting,      *)
(* sorting and a removal of another profile leave it alone, wherever its row   *)
(* moves, and a restart only takes back an edit that was refused.              *)
CurrentIsTheUsers ==
    [][/\ (cache' # <<>>) => (Chosen' # {})
       /\ \/ Chosen' = Chosen
          \/ Chosen = {}
          \/ \E row \in Rows : Pick(row)
          \/ \E row \in Rows : cache[row].index = current /\ Delete(row)
          \/ \E row \in Rows, edit \in Edits :
                cache[row].index = current /\ Modify(row, edit)
          \/ \E file \in Files : LoadFile(file)
          \/ Restart /\ halfEdited /\ current' = current]_vars

(* What the settings hold is what the page shows, up to the order of the rows, *)
(* and the profile chosen, so that a restart changes nothing: except after a   *)
(* refused edit, until the next commit.                                        *)
SavedIsShown ==
    /\ settings.standard = current
    /\ ~halfEdited => ToSet(settings.list) = ToSet(cache)
    /\ IndexesIn(settings.list) = IndexesIn(cache)
=============================================================================
