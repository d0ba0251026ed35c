SPECIFICATION Spec
CONSTANTS
    Requisition = {r1}
    Approver = {m1, m2}
    Staff = {m1, m2, "raiser", "colleague"}
    RaisedBy <- MCRaisedBy
    DepartmentOf <- MCDepartmentOf
    Departments <- MCDepartments
    Teams <- MCTeams
    Session = {s1, s2}
    MaxEdits = 2
    Application = {c1}
    StageName = {"Applied", "Onboard", "Other"}
    TypeInput = {"DEFAULT", "HIRED", "ONBOARDING"}
    OrderInput = {0, 2}
    Record = {s1, s2}
    Caller = {s1, s2}
    FileName = {m1}
    Email = {m1, m2}
    Upload = {s1, s2}
    Candidate = {c1}
    Template = {k1, k2}
    Form = {"f1"}
    Request = {m1, m2}
    Submission = {s1, s2}
    MaxRestarts = 1
    Interviewer = {m1, m2, m3}
    SlotNumber = {n1}
    MaxEvents = 2
    ScreeningTask = {t1, t2, t3}
    Asker = {s1, s2}
    MaxRules = 2
    YearsInput = {0, 3, 25}
    SkillInput <- MCSkillInput
    CertificateInput <- MCCertificateInput
    HalfYearsInput = {0, 6, 79}
SYMMETRY Symmetry
INVARIANTS
    TypeOK
    BoardsAgree
    HistoryFollows
    InterviewsAreSound
    ScoresAreFair
PROPERTIES
    PostingsStand
    HandedInIsKept
