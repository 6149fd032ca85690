\* Every directory, three loads or boots, two edits between.
CONSTANTS
  none = none
  exported = exported
  fromDotenv = fromDotenv
  Exported <- exported
  Dotenv <- fromDotenv
  Keys <- Settings2
  Lists = {"logging.sinks"}
  Required <- Sections
  Words = {"local", "prod"}
  Empty = ""
  Casings = {"xx", "Xx", "XX"}
  BaseStem <- BaseName
  Local <- LocalText
  Directories <- DirectoriesHere
  DotenvFiles <- DotenvHere
  Exports <- ExportsHere
  Overrides <- OverridesHere
  None <- none
  MaxLoads = 3
  MaxEdits = 2
SPECIFICATION Spec
INVARIANTS
  TypeOK
  Precedence
  FilesFit
  ReadyIsBacked
PROPERTIES
  EnvironKept
  ReloadStable
CHECK_DEADLOCK FALSE
