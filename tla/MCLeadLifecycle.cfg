\* One lead, two requests that write it at a time.
SPECIFICATION LeadSpec
CONSTANTS
    Emails = {ann}
    Visits = {v1, v2}
    LeadBound = 1
    RunBound = 3
SYMMETRY LeadSymmetry
INVARIANTS
    LeadTypeOK
    NoRunForNobody
    StampsExplainStatus
    ReopenedByStartOrStale
    OrdersKeepTheirLead
PROPERTIES
    RunStaysLinked
CHECK_DEADLOCK FALSE
