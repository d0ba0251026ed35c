SPECIFICATION WorkforceSpec
CONSTANTS
    Member = {m1}
    LeaveType = {annual}
    RequestId = {r1}
    HolidayId = {}
    Date <- MCDate
    Weekend <- MCWeekend
    Year <- MCYear
    YearOf <- MCYearOf
    MaxUnits = 4
    Quota <- MCQuota
    DayInput <- MCDayInput
    BalanceInput <- MCBalanceInput
    DayLength = 6
    Cap = 4
    CloseAt = 5
    HalfDayMax = 1
    Moment <- MCMoment
    PlanInput <- MCPlanInput
    ManualInput <- MCManualInput
    Task = {t1}
    NoTask = NoTask
    SheetDay <- MCDate
    ClockTime = {7, 9, 13}
    BulkInput <- MCBulkInput
    SpanInput <- MCSpanInput
    Project = {p1}
    TaskKey = {k1}
    Staff = {w1, w2}
    HoursInput = {2, 3}
    PlanDay = {d1}
    Place = {"OFFICE", "WFH"}
    Save = {s1, s2}
    Reader = {"head", "other", "administrator"}
    ReaderScope <- MCReaderScope
    HeadOf <- MCHeadOf
    DepartmentsOf = {"sales"}
SYMMETRY Symmetry
INVARIANTS
    WorkforceTypeOK
    SessionsAreSound
    BalancesStaySound
    TablesAgree
    WorkforcePagesAgree
PROPERTY
    TextIsReported
CHECK_DEADLOCK FALSE
