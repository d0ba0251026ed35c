SPECIFICATION OfficeSpec
CONSTANTS
    Member = {m1}
    LeaveType = {annual}
    RequestId = {r1, r2}
    HolidayId = {h1}
    Session = {s1}
    Date <- MCDate
    Weekend <- MCWeekend
    Year <- MCYear
    YearOf <- MCYearOf
    MaxUnits = 3
    Quota <- MCQuota
    DayInput <- MCDayInputs
    BalanceInput <- MCBalanceInput
    Code = {d1, d2}
    CodeName = {"LAP"}
    Category = {a1, a2}
    CategoryName = {"Laptop", "Chair"}
    LaptopName = {"Laptop"}
    CategoryField = {b1, b2}
    FieldName = {"OS", "colour"}
    Item = {i1}
    GraphUser = {a1, a2}
    Mail = {b1, b2}
    Nobody = Nobody
    Person = {a1, a2}
    Role = {c1}
    Department = {v1}
    Festival = {f1}
    Cluster = {f1}
    ClusterDay = {"eve", "day"}
    Organization = {a1, a2}
    Sync = {b1, b2}
    MaxRows = 2
    Entrant = {a1, a2}
    AccessPoint = {p1}
    MaxEntries = 2
    Recipient = {a1, a2}
    Ask = {a1, a2}
    AskedBy <- MCAskedBy
    Decider = {b1, b2}
SYMMETRY Symmetry
INVARIANTS
    OfficeTypeOK
    OfficeRecordsAgree
PROPERTIES
    Spec
    DeactivatedStays
CHECK_DEADLOCK FALSE
