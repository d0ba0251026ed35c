---------------------------- MODULE MCRecruitment ----------------------------
\* Components that share no state, each explored on its own: which one runs is
\* chosen at the start; the others stay in one initial state.
EXTENDS Jobs, Onboarding, Documents, Interviews, Resumes, Scoring, TLC

VARIABLE part

recruitmentVars ==
    <<part, jobsVars, onboardingVars, documentsVars, interviewVars, resumeVars, screening>>

Idle == CHOOSE s \in Screenings : s.want.years = 0

Init ==
    /\ part \in {"jobs", "onboarding", "overlap", "documents", "panel", "rounds", "resumes", "scoring"}
    /\ JobsInit /\ OnboardingInit /\ DocumentsInit /\ InterviewInit /\ ResumesInit
    /\ part # "resumes" => ~rules.there /\ DOMAIN screenings = {CHOOSE t \in ScreeningTask : TRUE}
    /\ IF part = "scoring" THEN ScoringInit ELSE screening = Idle

\* Interviews run with every interviewer on one event, or with fewer of them on a
\* second event, with one of the two events on one row, while the stage stays open
\* and the candidate in it.
OnePanel == DOMAIN events' \subseteq {1}
TwoRounds ==
    /\ scene' = scene
    /\ \A e \in DOMAIN events' : DOMAIN events'[e].panel \subseteq Approver
    /\ DOMAIN events' = {1, 2} => \E e \in {1, 2} : Cardinality(DOMAIN events'[e].panel) <= 1

\* Onboarding runs with one submission at a time while the stages are edited and
\* requests overlap, or with handlers of every kind that overlap on one record.
OneSubmission ==
    /\ \A s \in DOMAIN working' : working'[s].op = "submit"
    /\ Cardinality(DOMAIN working') <= 1 /\ Cardinality(DOMAIN files') <= 1
    /\ edits' > 1 =>
         Cardinality(DOMAIN records' \cup DOMAIN asking') <= 1 /\ posting' = "PUBLISHED"
OneRecord ==
    /\ Cardinality(DOMAIN records' \cup DOMAIN asking') <= 1
    /\ edits' # edits =>
         DOMAIN stages' = {1, 2} /\ stages'[2].name = "Other" /\ stages'[2].type = "HIRED"
    /\ \A s \in DOMAIN working' :
         working'[s].op \in {"confirm", "retry"} => DOMAIN working' = {s}
    /\ posting' = posting
    /\ applications' # applications => applications = NoRecords \/ records' # records

\* Templates of documents change while there is at most one request.
OneRequest == templates' # templates => Cardinality(DOMAIN requests \cup DOMAIN making) <= 1

Next ==
    /\ UNCHANGED <<part, screening>>
    /\ IF part = "jobs" THEN JobsNext ELSE UNCHANGED jobsVars
    /\ IF part \in {"onboarding", "overlap"} THEN OnboardingNext ELSE UNCHANGED onboardingVars
    /\ part = "onboarding" => OneSubmission
    /\ part = "overlap" => OneRecord
    /\ IF part = "documents" THEN DocumentsNext ELSE UNCHANGED documentsVars
    /\ part = "documents" => OneRequest
    /\ IF part \in {"panel", "rounds"} THEN InterviewNext ELSE UNCHANGED interviewVars
    /\ part = "panel" => OnePanel
    /\ part = "rounds" => TwoRounds
    /\ IF part = "resumes" THEN ResumesNext ELSE UNCHANGED resumeVars

Spec == Init /\ [][Next]_recruitmentVars

\* Members and sessions are what the configuration makes of Approver and
\* Session; the keys of other tables and what callers hand in are the same values,
\* and none is told apart.
Symmetry == Permutations(Approver) \cup Permutations(Session) \cup Permutations(Template)

TypeOK ==
    /\ JobsTypeOK /\ OnboardingTypeOK /\ DocumentsTypeOK
    /\ InterviewTypeOK /\ ResumesTypeOK

\* What recruiters, approvers and candidates read of a requisition and of an
\* onboarding is so.
BoardsAgree == JobsPagesAgree /\ OnboardPagesAgree

\* Interviews hold what they promise, seen from the tables and from the pages:
\* who held one is known, the slots on offer are one proposal, and the pages
\* agree.
InterviewsAreSound == HeldInterviewsAreKnown /\ SlotsAreOneProposal /\ PagesAgree

\* A score says the same for whoever was asked for it and whenever: it is of the
\* last screening asked for, and full marks are in everybody's reach.
ScoresAreFair == ScoredAsLastAsked /\ FullMarksForAll

\* What a posting stands for stays: it was published by all its approvers, and
\* once closed nobody is moved in it.
PostingsStand == UnanimousPosting /\ ClosedIsFrozen

\* What a candidate handed in stays, documents of onboarding and collected ones.
HandedInIsKept == SubmittedIsKept /\ AnswersAreKept

\* The raiser leads no department and shares a hiring team with a colleague.
MCRaisedBy == [r \in Requisition |-> "raiser"]
MCDepartmentOf == [r \in Requisition |-> "sales"]
MCDepartments == [m \in Staff |-> IF m = "colleague" THEN {"sales"} ELSE {}]
MCTeams == [m \in Staff |-> IF m \in {"raiser", "colleague"} THEN {"panel"} ELSE {}]

MCSkillInput == {<<>>, <<"a", "b", "c">>}
MCCertificateInput == {<<>>, <<"x", "y">>}
=============================================================================
