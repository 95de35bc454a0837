SPECIFICATION Spec
CONSTANTS
    Notifiers = {"index", "handler"}
    MaxChanges = 2
    MaxDrops = 0
PROPERTIES ListCatchesUp
CHECK_DEADLOCK FALSE
