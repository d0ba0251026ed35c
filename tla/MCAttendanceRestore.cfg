SPECIFICATION MCAttendanceSpec
CONSTANTS
    Member = {m1}
    LeaveType = {annual}
    RequestId = {r1}
    HolidayId = {}
    Date <- MCDate
    Weekend <- MCWeekend
    Year <- MCYear
    YearOf <- MCYearOf
    MaxUnits = 4
    Quota <- MCQuota
    DayInput <- MCDayInput
    BalanceInput <- MCBalanceInput
    DayLength = 6
    Cap = 4
    CloseAt = 5
    HalfDayMax = 1
    Moment <- MCMoment
    PlanInput <- MCPlanInput
    ManualInput <- MCManualInput
PROPERTY RestoredOncePerDay
