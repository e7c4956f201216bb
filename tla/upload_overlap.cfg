\* A request is repeated while the first one is still running.
CONSTANTS
  Parts <- TwoParts
  Calls = {c1, c2}
  Files = {f1, f2, f3}
  NoFile = NoFile
  MaxTokens = 2
SPECIFICATION Spec
SYMMETRY Symmetry
INVARIANTS
  OpenSessionHasSpool
PROPERTIES
  StagedOutputIsFinal
  
