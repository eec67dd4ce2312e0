\* One process that is killed once while it migrates a file, and tries again.
CONSTANTS
  Openers = {o1}
  OldFiles <- MCOldFiles
  NoRef = NoRef
  MaxKills = 1
  MaxRefused = 1
SPECIFICATION FileSpec
INVARIANT RerunSucceeds
CHECK_DEADLOCK FALSE
