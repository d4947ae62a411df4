CONSTANTS
  Exprs <- MCExprs
  Replacements <- MCReplacements
  Rules <- MCRules
  MaxLen = 7
  MaxVars = 4
  Symbols = {"a", "b"}
  Stored <- MCStored
  VarNames = {"x", "y", "z"}
  Loads <- MCLoads
  Views <- MCViews
  Rows <- MCRows
  Texts <- MCTexts
  StartSpace <- MCSpace
  MaxArity = 2
  MaxVariables = 2
  MaxTokens = 4
  Strings = {"", "k", "j"}
  Literals = {"1", "true"}
  Numbers = {"1"}
  Forms = {"load_json", "json_to_paths", "load_jsonl", "jsonl_to_paths"}
  Lines <- MCLines
  DEPTH_LIMIT = 2
  LineBytes = 2
  MaxMarks = 5
  Digits = {0, 1, 9}
  U64 = 195
  MAX_PRECISION = 12
  I16 = 3
  Letters = {"a", "n"}
  MaxChars = 7
  Walked <- MCWalked
  Compared <- MCCompared
  Renaming <- MCRenaming
SPECIFICATION SSpec
INVARIANTS
  EncodingIsSound TemplatesAreInstantiated LoadsWhatIsWritten DocumentsAreRead NumbersAreClose
PROPERTIES
  InstantiationEnds
CHECK_DEADLOCK FALSE
