CONSTANTS
    MonthStart <- MCMonthStart
    Days = {31, 61, 62, 95}
    FirstDay = 31
    i1 = i1
    i2 = i2
    Invoices = {i1, i2}
    PlanOf <- MCPlanOf
    r1 = r1
    Sessions = {i1, i2, r1}
    NoSession = NoSession
    AmountOf <- MCAmountOf
    Callbacks = {c1}
    NoInvoice = NoInvoice
    CutBound = 0
SPECIFICATION BillingSpec
INVARIANTS
    PaymentActivates
CHECK_DEADLOCK FALSE
