\* One request at a time, interrupted anywhere and repeated.
CONSTANTS
  Parts <- TwoParts
  Calls = {c1}
  Files = {f1, f2}
  NoFile = NoFile
  MaxTokens = 2
SPECIFICATION FairSpec
INVARIANTS
  FinalizedIsDeclared
PROPERTIES
  UploadFinishes
