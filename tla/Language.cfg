CONSTANTS
  MaxInt = 100
  MaxFrames = 8
  MaxDepth = 8
  Compiled <- MCCompiled
  Expected <- MCExpected
  Verified <- MCVerified
SPECIFICATION FairSpec
INVARIANTS
  TypeOK
  StackBalanced
  OwnersLive
  SameAsTreeWalker
PROPERTIES
  CallersKept
  Terminates
