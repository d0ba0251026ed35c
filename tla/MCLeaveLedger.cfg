SPECIFICATION Spec
CONSTANTS
    Member = {m1}
    LeaveType = {annual}
    RequestId = {r1, r2}
    HolidayId = {h1}
    Date <- MCDate
    Weekend <- MCWeekend
    Year <- MCYear
    YearOf <- MCYearOf
    MaxUnits = 4
    Quota <- MCQuota
    DayInput <- MCDayInput
    BalanceInput <- MCBalanceInput
INVARIANTS
    TypeOK
    NoDoubleBooking
    LedgerAgrees
    NeverOverdrawn
    PagesTellTheLedger
PROPERTY
    DecisionsAreFinal
SYMMETRY RequestSymmetry
