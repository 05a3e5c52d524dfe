SPECIFICATION PrepareFairSpec
CONSTANTS
  Required <- MCRequired
  Optional <- MCOptional
  Pieces = 2
  CommandLines <- MCFlags
  FaultChoices <- MCFaults
  MaxFaults = 3
INVARIANTS BytesAreWhole
PROPERTIES StaysWhole GetsReady
