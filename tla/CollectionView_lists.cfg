SPECIFICATION Spec
CONSTANTS
    Views = {TRUE, FALSE}
    Lingers = TRUE
    Names = {1, 2}
    Uids = {1, 2}
    Contexts = {1, 2}
    MaxChanges = 3
    MaxFaults = 1
INVARIANTS TypeOK RowsAnswerTheQuestion DeletedStaysHidden FirstRunIsTrue
PROPERTIES TenantsStayApart PolledConverges
CHECK_DEADLOCK FALSE
