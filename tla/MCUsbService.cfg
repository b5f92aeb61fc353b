\* Two instances, one after the other, and an accessory that comes and goes.
CONSTANTS
    MaxInsts = 2
    MaxAttach = 1
SPECIFICATION FairSpec
INVARIANTS TypeOK NoFdLeft
PROPERTIES AttachedIsSeen StopsOnDetach CopiersRun
CHECK_DEADLOCK FALSE
