\* Two owners and three clauses, two of which fit a prompt.
CONSTANTS
  Owners = {o1, o2}
  Global = Global
  Legacy = Legacy
  NoOwner = NoOwner
  Fps = {f1, f2, f3}
  Replies <- MCReplies
  Files <- MCFiles
  NaN = NaN
  NotAnObject = NotAnObject
  Limit = 2
  MaxCount = 2
  MaxTime = 3
SPECIFICATION Spec
SYMMETRY MCSymmetry
INVARIANTS
  PatternsAreTheBest
  OwnRowIsShown
  ShownIsOwnOrCurated
PROPERTIES
  PromptsAreApart
  LearnsWhatIsSure
