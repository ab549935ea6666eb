CONSTANTS
  Bases <- MCBases
  Detected <- MCDetected
  Schemes <- MCSchemes
  Files <- MCFiles
  MaxProfiles = 3
  MaxCopies = 1
  Keys <- MCKeys
  Texts <- MCTexts
  MaxParameters = 2
  IntDigits = 1
  Placeholders <- MCPlaceholders
  OtherNames <- MCOtherNames
  Literals <- MCLiterals
  Arguments <- MCArguments
  ArgumentTexts <- MCArgumentTexts
  MaxPieces = 3
SPECIFICATION Spec
INVARIANT TypeOK
INVARIANT ProfilesAreDistinct
INVARIANT SavedIsShown
INVARIANT SavedOptionsAreReadBack
INVARIANT SchemesExpand
PROPERTY CurrentIsTheUsers
