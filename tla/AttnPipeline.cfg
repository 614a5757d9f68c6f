CONSTANTS
  GroupA = {a1}
  GroupB = {b1, b2}
  MaxTiles = 3
SPECIFICATION FairSpec
INVARIANTS TypeOK ReadsOwnTile NoDmaUnderRead SameBarrier
PROPERTIES Terminates ImplementsWalk
