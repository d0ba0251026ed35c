SPECIFICATION Spec
CONSTANTS
    Asset = {a1, a2}
    Unit = {u1, u2}
    Loan = {l1, l2}
    Ticket = {t1}
    Member = {m1, m2}
    Model = {"standard"}
    GroupOf <- MCGroupOf
    ModelOf <- MCModelOf
    Laptop = {a1, a2}
    Temporary = {a1, a2}
    StatusInput = {"AVAILABLE"}
SYMMETRY Symmetry
INVARIANTS
    TypeOK
    ViewsAgree
    ReplacementChain
    HoldersAreExplained
PROPERTIES
    HeldStayOffTheShelf
    CustodyKept
CHECK_DEADLOCK FALSE
