SPECIFICATION SessionSpec
CONSTANTS
    Member = {m1}
    LeaveType = {annual}
    RequestId = {r1, r2}
    HolidayId = {}
    Session = {s1, s2}
    Date <- MCDate
    Weekend <- MCWeekend
    Year <- MCYear
    YearOf <- MCYearOf
    MaxUnits = 2
    Quota <- MCQuota
    DayInput <- MCDayInput
    BalanceInput <- MCBalanceInput
INVARIANT
    NeverOverdrawn
