CONSTANTS
    MonthStart <- MCMonthStart
    Days = {31, 61, 62, 95}
    FirstDay = 31
    i1 = i1
    i2 = i2
    Invoices = {i1, i2}
    PlanOf <- MCPlanOf
    r1 = r1
    Sessions = {i1, i2, r1}
    NoSession = NoSession
    AmountOf <- MCAmountOf
    Callbacks = {c1, c2}
    NoInvoice = NoInvoice
    CutBound = 1
SPECIFICATION BillingSpec
SYMMETRY MCSymmetry
INVARIANTS
    SubscriptionsPaidFor
    PaidMonthServed
    MoneyBuysPlanUnlessCut
PROPERTY
    ImplementsPaidPlans
CHECK_DEADLOCK FALSE
