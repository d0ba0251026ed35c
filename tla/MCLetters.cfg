SPECIFICATION LettersSpec
CONSTANTS
    App = {a1, a2}
    Complete = {a1, a2}
    Session = {s1}
    MaxBatch = 1
    MaxTask = 2
    MaxRestart = 1
    OfferTemplate = {t1, t2}
    OfferCategory = {g1, g2}
    SectionKey = {"offer"}
    Root = {"n"}
    Addressee = {a1}
    Copies = 1
    FooterInput = {"", "salary"}
    Replacement = {l1}
    Issued = {u1}
    LastDay = 3
    DateInput = {2, 3, 8, 9}
    LastHour = 14
    MaxSkipped = 1
    MaxProposals = 2
    SlotsInput <- MCSlots
SYMMETRY Symmetry
INVARIANTS
    LettersTypeOK
    LinksWork
    BatchesAreTrue
    LettersKeepTheirWord
    RemindersHold
PROPERTY NoSecondMail
CHECK_DEADLOCK FALSE
