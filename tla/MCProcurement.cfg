SPECIFICATION ProcurementSpec
CONSTANTS
    Asset = {a1}
    Unit = {u1}
    Loan = {l1}
    Ticket = {t1}
    Member = {m1, m2}
    Model = {"standard"}
    GroupOf <- MCGroupOf
    ModelOf <- MCModelOf
    Laptop = {a1}
    Temporary = {a1}
    StatusInput = {"AVAILABLE"}
    Requisition = {q1}
    Finance = {m2}
INVARIANT
    SubmittedCanBeDecided
CHECK_DEADLOCK FALSE
