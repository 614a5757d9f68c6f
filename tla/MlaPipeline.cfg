CONSTANTS
  GroupA = {a1}
  GroupB = {b1, b2}
  MaxTiles = 3
SPECIFICATION FairSpec
INVARIANTS ReadsOwnTile NoDmaUnderRead OneGroupComputes
PROPERTY ImplementsWalk
