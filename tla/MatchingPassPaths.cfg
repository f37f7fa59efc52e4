CONSTANTS
  Programs <- BranchingProgram
  Builds <- BothBuilds
SPECIFICATION Spec
INVARIANTS
  PathsFollowed
