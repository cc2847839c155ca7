CONSTANT Writes = 5
SPECIFICATION FairSpec
INVARIANTS ReadNeverBlocks 
 
CHECK_DEADLOCK FALSE
