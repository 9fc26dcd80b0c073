SPECIFICATION RuleSpec
CONSTANTS
  Null = Null
  a = a
  s = s
  nullShown = nullShown
  aShown = aShown
  sShown = sShown
  quote = quote
  quotes = quotes
  underscore = underscore
  filterMaxDepth = 3
  Columns <- MCColumns
  ColumnType <- MCTypes
  Texts <- MCTexts
  TextOrder <- MCTextOrder
  Begins <- MCBegins
  Matches <- MCMatches
  Escaped <- MCEscaped
  Shown <- MCShown
  Table <- MCTable
  Projects <- MCProjects
  FilterSets <- MCFilterSets
INVARIANTS RuleTypeOK NeverWrongRows SupportedIsAnswered
CHECK_DEADLOCK FALSE
