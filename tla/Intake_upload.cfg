\* Limits of a few units, texts of up to six words, numbers of up to five symbols.
CONSTANTS
  Terms <- MCTerms
  Phrases <- MCPhrases
  Negative <- MCNegative
  Markers <- MCMarkers
  MinTokens = 2
  MinScore = 350
  Limit = 3
  Chunk = 2
  Overhead = 1
  MaxSize = 6
  MaxPages = 1
  Words = {"pihak", "pasal", "n", "resep", "line"}
  MaxWords = 6
  Symbols = {"+", "0", "9", "u", " ", "line"}
  MaxPhone = 5
  MinDigits = 2
  MaxDigits = 4
  None = None
SPECIFICATION Spec
INVARIANTS
  BufferBounded
  PhoneRevalidates
  StuffingBuysOnlyRelief
CHECK_DEADLOCK FALSE
