SPECIFICATION FairSpec
CONSTANTS
  Letters = {"m", "x"}
  Known = {"m"}
  Patterns <- AllPatterns
  MaxLen = 6
INVARIANT SubstrInRange
INVARIANT NothingLost
INVARIANT ErrorJustified
PROPERTY Terminates
CHECK_DEADLOCK FALSE
