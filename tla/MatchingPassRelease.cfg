CONSTANTS
  Programs <- BesideProgram
  Builds <- ReleaseBuild
SPECIFICATION Spec
INVARIANTS
  PathsFollowed
