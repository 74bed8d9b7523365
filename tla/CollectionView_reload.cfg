SPECIFICATION Spec
CONSTANTS
    Views = {FALSE}
    Lingers = TRUE
    Names = {1, 2}
    Uids = {1, 2}
    Contexts = {1, 2}
    MaxChanges = 3
    MaxFaults = 0

PROPERTIES ReloadFollows
CHECK_DEADLOCK FALSE
