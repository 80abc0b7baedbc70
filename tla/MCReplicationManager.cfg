CONSTANTS
    Names = {t1, t2}
    MaxChanges = 1
SPECIFICATION FairSpec
PROPERTY CloseStops
CHECK_DEADLOCK FALSE
