SPECIFICATION FairSpec
CONSTANTS
  NUM_IDS = 5
  SCHED_SLICE = 3
INVARIANTS RunsOnRightMap RecoveredFirst
 
