\* An ENVIRONMENT set by .env.
CONSTANTS
  none = none
  exported = exported
  fromDotenv = fromDotenv
  Exported <- exported
  Dotenv <- fromDotenv
  Keys <- Settings2
  Lists = {"logging.sinks"}
  Required <- Sections
  Words = {"local", "prod"}
  Empty = ""
  Casings = {"xx", "Xx", "XX"}
  BaseStem <- BaseName
  Local <- LocalText
  Directories <- DirectoriesHere
  DotenvFiles <- DotenvHere
  Exports <- ExportsHere
  Overrides <- OverridesHere
  None <- none
  MaxLoads = 1
  MaxEdits = 0
SPECIFICATION Spec
INVARIANTS
  EnvironmentNamed
CHECK_DEADLOCK FALSE
