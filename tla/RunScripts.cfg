SPECIFICATION Spec
CONSTANTS
  Binaries <- MCBinaries
  Profiles <- MCProfiles
  MaxRuns = 2
  MaxOthers = 1
INVARIANTS TypeOK OutputsOfThisRun SessionReleased TracesMatch OthersSessionKept
CHECK_DEADLOCK FALSE
