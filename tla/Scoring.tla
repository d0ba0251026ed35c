------------------------------ MODULE Scoring ------------------------------
(***************************************************************************)
(* The score of a resume: the rules compiled from a requisition            *)
(* (app/modules/jobs/service.py) and the points the facts found in the     *)
(* resume earn by them (app/modules/ai_scoring/scorer.py).                 *)
(*                                                                         *)
(* Skills and certificates are names that either match or do not; the text *)
(* they are found in, aliases, evidence and confidence are left out.       *)
(***************************************************************************)
EXTENDS Integers, Sequences, FiniteSetsExt

CONSTANTS
    YearsInput,     \* years of experience a requisition may ask for
    SkillInput,     \* lists of skills it may ask for
    CertificateInput, \* lists of certificates
    HalfYearsInput  \* half years of experience the model may find

\* Years are not negative, and lists are sequences; asking for nothing is possible.
ASSUME ScoringInputs ==
    /\ YearsInput \subseteq Nat /\ 0 \in YearsInput
    /\ HalfYearsInput \subseteq Nat /\ HalfYearsInput # {}
    /\ SkillInput # {} /\ CertificateInput # {}
    /\ \A list \in SkillInput \cup CertificateInput :
          Len(list) \in Nat /\ DOMAIN list = 1..Len(list)

VARIABLE
    screening       \* a requisition, and the facts found in a resume

Total == 100

\* The first keys get what the division leaves over.
DistributePoints(total, keys) ==
    [i \in DOMAIN keys |-> (total \div Len(keys)) + (IF i <= total % Len(keys) THEN 1 ELSE 0)]

\* A hundred points over experience, degree, certificates and skills.  Skills
\* and certificates are sequences without repetitions; the skills the text of
\* the requisition mentions are among them.
CompileRules(want) ==
    LET experience   == IF want.years > 0 THEN 40 ELSE 0
        degree       == IF want.degree THEN 10 ELSE 0
        certificates == IF want.certificates # <<>> THEN 10 ELSE 0
    IN  [perYear       |-> IF want.years > 0 THEN Max({1, 40 \div want.years}) ELSE 0,
         maxExperience |-> experience,
         degree        |-> degree,
         skills        |-> want.skills,
         skillPoints   |-> DistributePoints(Total - experience - degree - certificates, want.skills),
         certificates  |-> want.certificates,
         certificatePoints |-> DistributePoints(certificates, want.certificates),
         knockout      |-> want.knockout]

-----------------------------------------------------------------------------
\* Mutant: the points of the keys found are those of as many keys.
PointsOfAsMany(keys, points, found) ==
    SumSet({points[i] : i \in {j \in DOMAIN keys : keys[j] \in found}})

Points(keys, points, found) ==
    MapThenSumSet(LAMBDA i : points[i], {i \in DOMAIN keys : keys[i] \in found})

\* Python's round of half a number: to the even neighbour.
Rounded(halves) == (halves \div 2) + (IF halves % 4 = 3 THEN 1 ELSE 0)

ScoreExperience(rules, facts) ==
    Min({Rounded(facts.halfYears * rules.perYear), rules.maxExperience})

ScoreSkills(rules, facts) == Points(rules.skills, rules.skillPoints, facts.skills)

ScoreEducation(rules, facts) == IF facts.degree THEN rules.degree ELSE 0

ScoreCertifications(rules, facts) ==
    Points(rules.certificates, rules.certificatePoints, facts.certificates)

\* Doubtful is a resume with hidden text, or of another role than the one asked.
\* Where the model did not assess the knock-out rule nobody falls to it.
KnockedOut(rules, facts) == rules.knockout /\ facts.assessment = "failed"

NeedsReview(rules, facts) ==
    \/ facts.doubtful
    \/ rules.skills = <<>>
    \/ rules.knockout /\ facts.assessment = "none"

ScoreResume(rules, facts) ==
    IF KnockedOut(rules, facts) THEN [score |-> 0, verdict |-> "REJECTED"]
    ELSE [score   |-> Min({Total, ScoreExperience(rules, facts) + ScoreSkills(rules, facts)
                            + ScoreEducation(rules, facts) + ScoreCertifications(rules, facts)}),
          verdict |-> IF NeedsReview(rules, facts) THEN "NEEDS_REVIEW" ELSE "QUALIFIED"]

-----------------------------------------------------------------------------
Named(lists) == UNION {{list[i] : i \in DOMAIN list} : list \in lists}

Screenings ==
    [want  : [years : YearsInput, skills : SkillInput, degree : BOOLEAN,
              certificates : CertificateInput, knockout : BOOLEAN],
     facts : [halfYears : HalfYearsInput, skills : SUBSET Named(SkillInput), degree : BOOLEAN,
              certificates : SUBSET Named(CertificateInput),
              assessment : {"none", "passed", "failed"},
              doubtful : BOOLEAN]]

ScoringInit == screening \in Screenings

\* Of more names than there are points the last are worth nothing.
HasAll(list, worth, found) == \A i \in DOMAIN list : worth[i] = 0 \/ list[i] \in found

\* A resume earns the hundred points exactly if it has every skill, degree and
\* certificate the requisition gives points for, enough years to fill the points for
\* experience, and does not fall to the knock-out rule, however the points are
\* divided; and without skills to divide them over nobody earns a hundred.
FullMarksForAll ==
    LET want  == screening.want
        facts == screening.facts
        rules == CompileRules(want)
    IN  ScoreResume(rules, facts).score = Total <=>
          /\ want.skills # <<>> /\ HasAll(want.skills, rules.skillPoints, facts.skills)
          /\ HasAll(want.certificates, rules.certificatePoints, facts.certificates)
          /\ want.degree => facts.degree
          /\ want.years > 0 => 2 * rules.maxExperience <= facts.halfYears * rules.perYear + 1
          /\ ~(want.knockout /\ facts.assessment = "failed")
=============================================================================
