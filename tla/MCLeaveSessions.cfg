SPECIFICATION SessionSpec
CONSTANTS
    Member = {m1}
    LeaveType = {annual}
    RequestId = {r1, r2}
    HolidayId = {}
    Session = {s1, s2}
    Date <- MCOneDay
    Weekend <- MCWeekend
    Year <- MCYear
    YearOf <- MCYearOfOneDay
    MaxUnits = 2
    Quota <- MCQuota
    DayInput <- MCDayInput
    BalanceInput <- MCBalanceInput
PROPERTIES
    AssignmentsSurvive
    LonelyApprovalHeals
    HandlersEnd
