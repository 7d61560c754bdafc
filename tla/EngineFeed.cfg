CONSTANTS
  Kinds <- MCKinds
  MaxDraw = 2
  MaxMounts = 2
  MaxSockets = 2
  MaxFrames = 2
  MaxFaults = 2
SPECIFICATION FairSpec
INVARIANTS DisplayFollowsEngine NumbersBelongToDraw FeedsAreOwned
PROPERTIES FeedComesBack
CHECK_DEADLOCK FALSE
