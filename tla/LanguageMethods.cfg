CONSTANTS
  MaxInt = 100
  MaxFrames = 8
  MaxDepth = 8
  Compiled <- MethodCompiled
  Expected <- MethodExpected
  Verified <- MethodVerified
SPECIFICATION FairSpec
INVARIANT SameAsTreeWalker
