----------------------------- MODULE MCLetters -----------------------------
(* The dispatch of offer letters with one candidate list and two candidates,
   the templates letters are made from, and the reminders that are mailed by
   the clock, each explored on its own: which one runs is chosen at the start.
   Restarts, batches and tasks are bounded by the configuration.  The history
   variables keep what a letter's template said when the letter was dispatched,
   and which letters have seen the salary edited since. *)
EXTENDS Offers, Templates, Reminders, TLC

VARIABLES
    part,
    offered,        \* what its template said when each letter was dispatched
    repriced        \* letters dispatched before the salary was last edited

lettersVars == <<part, vars, templateVars, reminderVars, slotVars, offered, repriced>>

\* One person to write letters to, who may lack what a letter asks for.
MCPerson == {[email |-> TRUE, names |-> "both"], [email |-> FALSE, names |-> "first"]}

LettersInit ==
    /\ part \in {"offers", "templates", "reminders", "slots"}
    /\ Init /\ TemplatesInit /\ RemindersInit /\ SlotsInit
    /\ offered = NoRecords /\ repriced = {}
    /\ ~salary /\ \A a \in Addressee : candidates[a] \in MCPerson
    /\ part # "templates" => \A a \in Addressee : candidates[a].email

\* All that a letter made from the template t may say.
Texts(t) == {Snapshot(t, g) : g \in DOMAIN templates[t].categories}

LettersRemember ==
    /\ offered' = [a \in DOMAIN letters' |->
          IF a \in DOMAIN letters THEN offered[a] ELSE Texts(letters'[a].from)]
    /\ repriced' = IF salary' = salary THEN repriced ELSE DOMAIN letters

LettersNext ==
    /\ UNCHANGED part
    /\ IF part = "offers" THEN PatientNext ELSE UNCHANGED vars
    /\ IF part = "templates" THEN TemplatesNext ELSE UNCHANGED templateVars
    /\ IF part = "reminders" THEN RemindersNext ELSE UNCHANGED reminderVars
    /\ IF part = "slots" THEN SlotsNext ELSE UNCHANGED slotVars
    /\ LettersRemember

LettersSpec == LettersInit /\ [][LettersNext]_lettersVars

LettersTypeOK ==
    /\ TypeOK /\ TemplatesTypeOK /\ RemindersTypeOK /\ SlotsTypeOK

\* A batch shown as completed has reached everybody, and no page says otherwise.
BatchesAreTrue == CompletedReachedAll /\ OfferPagesAgree

\* A letter is validated when it is dispatched, and rendered later, by other code,
\* from its copy of the template.  It says what the template said then, however
\* often that was edited, copied or deleted since, and retries came to nothing;
\* a letter that was found valid fails only if it was addressed by one word, or the
\* salary was edited meanwhile; and a download of letters that were found valid
\* holds whoever can be mailed (validate_candidates, validate_download_candidates
\* and render_offer_html ask for the same).
LettersKeepTheirWord ==
    /\ \A a \in DOMAIN letters :
          /\ letters[a].status = "rendered" => letters[a].said \in offered[a]
          /\ letters[a].status = "failed" => letters[a].override = "word" \/ a \in repriced
    /\ \A t \in DOMAIN templates : \A g \in DOMAIN templates[t].categories :
          Sendable(t, g) \subseteq DOMAIN DownloadArchive(t, g)

\* What the clock mails: whoever holds something that is due hears of its date
\* the day before, or a week before its warranty ends (DueIsReminded), and a
\* candidate with open slots is neither forgotten nor pestered (KeptInformed).
RemindersHold == DueIsReminded /\ KeptInformed

Symmetry == Permutations(OfferTemplate) \cup Permutations(OfferCategory)

MCSlots == {{9, 60}, {200}}
=============================================================================
