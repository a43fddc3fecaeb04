SPECIFICATION Spec
CONSTANTS
  FramesMax = 4
  Features = {"native", "posted", "gen", "exit"}
  MaxActs = 5
  MaxTrys = 2
  MaxDefers = 2
  MaxYields = 1
INVARIANTS CatchInOwner DefersExact CallerUntouched
