SPECIFICATION Spec
CONSTANTS
  Text = {"-c", "config_file", "-o", "--output", "-od", "--output-directory",
          "--", "a", "b", "r", "m", "x", "y"}
  NoText = ""
  Name = {"int", "i", "s", "u", "f", "q::r", "w"}
  Declaration = {"di", "ds", "du", "df", "dg"}
  NoDecl = "none"
  Type = {"tint", "ts"}
  NoType = "notype"
  Inputs <- MCInputs
INVARIANTS
  TypeOK
  ArgumentsAccounted
  ExitTellsOutput
  DeclarationsFollowFiles
  TypesFollowFiles
CHECK_DEADLOCK FALSE
