----------------------------- MODULE Templates -----------------------------
(***************************************************************************)
(* The templates of offer letters and what the letters made from them say  *)
(* (app/modules/offers/service.py, render.py).  A dispatch copies the      *)
(* template into the letter; the letter is rendered by a background task,  *)
(* later and again on each retry, when the template may have been edited   *)
(* or deleted and the salary of the requisition changed.  The way of a     *)
(* letter through mail and answer is that of module Offers: here a letter  *)
(* is drafted, rendered or failed.                                         *)
(*                                                                         *)
(* A text is empty, plain, or asks for the salary of the job; the HTML     *)
(* around it is left out.                                                  *)
(***************************************************************************)
EXTENDS Tables, Integers, FiniteSets, FiniteSetsExt

CONSTANTS
    OfferTemplate,  \* templates of the organization
    OfferCategory,  \* their categories
    SectionKey,     \* keys of sections
    Root,           \* names templates are first given
    Addressee,      \* applications in the offer stage, each with one letter
    FooterInput,    \* texts of footers
    Copies          \* bound on the number in the name of a copy

Text == {"", "plain", "salary"}

ASSUME TemplatesConstants ==
    IsFiniteSet(OfferCategory) /\ FooterInput \subseteq Text /\ Copies \in Nat

TemplateStatus == {"DRAFT", "ACTIVE", "ARCHIVED"}

\* A name without, or with, a number in parentheses.
Name == Root \X (0..Copies)

SectionRow == [key : SectionKey, text : Text, order : Int]

CategoryRow == [slug : Root, order : Int, sections : SUBSET SectionRow]

TemplateRow(t) ==
    /\ t.name \in Name /\ t.status \in TemplateStatus /\ t.footer \in Text
    /\ Table(t.categories, OfferCategory, CategoryRow)

VARIABLES
    templates,
    letters,        \* letters, by application, with the text copied into them
    candidates,     \* which of its names and its email each candidate has
    salary          \* whether the requisition has a salary range and currency

templateVars == <<templates, letters, candidates, salary>>

Person == [email : BOOLEAN, names : {"none", "first", "both"}]

TemplatesInit ==
    /\ templates = NoRecords /\ letters = NoRecords
    /\ candidates \in [Addressee -> Person]
    /\ salary \in BOOLEAN

WriteTemplate(t, row) ==
    templates' = Upsert(templates, t, row) /\ UNCHANGED <<letters, candidates, salary>>

-----------------------------------------------------------------------------
(* Names: two templates of an organization never share one. *)

Names == {templates[t].name : t \in DOMAIN templates}

\* The least number the root of the name does not have yet.
NextCopyName(name) ==
    <<name[1], Min({n \in 1..Copies + 1 : <<name[1], n>> \notin Names})>>

UniqueName(name) == IF name \in Names THEN NextCopyName(name) ELSE name

-----------------------------------------------------------------------------
(* Handlers, one transaction each. *)

Categories == UNION {DOMAIN templates[t].categories : t \in DOMAIN templates}

\* Every category begins with the same sections, all empty.
DefaultSections == {[key |-> k, text |-> "", order |-> 1] : k \in SectionKey}

NewCategory(slug, order) == [slug |-> slug, order |-> order, sections |-> DefaultSections]

CreateTemplate(t, name, g, slug, footer) ==
    /\ t \notin DOMAIN templates /\ g \notin Categories /\ UniqueName(name) \in Name
    /\ WriteTemplate(t, [name |-> UniqueName(name), status |-> "DRAFT", footer |-> footer,
                         categories |-> Upsert(NoRecords, g, NewCategory(slug, 1))])

\* A name that is taken fails at the unique key.
UpdateTemplate(t, name, status, footer) ==
    /\ t \in DOMAIN templates
    /\ \A u \in DOMAIN templates \ {t} : templates[u].name # name
    /\ WriteTemplate(t, [templates[t] EXCEPT !.name = name, !.status = status, !.footer = footer])

InProgress(t) == \E a \in DOMAIN letters : letters[a].from = t /\ letters[a].status = "drafted"

\* What was dispatched keeps its copy and loses the reference.
DeleteTemplate(t) ==
    /\ t \in DOMAIN templates /\ ~InProgress(t)
    /\ templates' = Without(templates, {t})
    /\ letters' = [a \in DOMAIN letters |->
          [letters[a] EXCEPT !.from = IF @ = t THEN "null" ELSE @]]
    /\ UNCHANGED <<candidates, salary>>

\* The categories of the copy are new ones with the sections of the source's.
CopyTemplate(t, u, g) ==
    /\ t \in DOMAIN templates /\ u \notin DOMAIN templates
    /\ NextCopyName(templates[t].name) \in Name
    /\ DOMAIN g = DOMAIN templates[t].categories
    /\ \A c, d \in DOMAIN g : g[c] \notin Categories /\ (g[c] = g[d] => c = d)
    /\ WriteTemplate(u, [templates[t] EXCEPT
          !.name = NextCopyName(@),
          !.categories = [c \in {g[d] : d \in DOMAIN g} |->
                             @[CHOOSE d \in DOMAIN g : g[d] = c]]])

CreateCategory(t, g, slug) ==
    /\ t \in DOMAIN templates /\ g \notin Categories
    /\ \A c \in DOMAIN templates[t].categories : templates[t].categories[c].slug # slug
    /\ WriteTemplate(t, [templates[t] EXCEPT !.categories =
          Upsert(@, g, NewCategory(slug, Cardinality(DOMAIN @) + 1))])

UpsertSection(t, g, key, text, order) ==
    /\ t \in DOMAIN templates /\ g \in DOMAIN templates[t].categories
    /\ WriteTemplate(t, [templates[t] EXCEPT !.categories[g].sections =
          {s \in @ : s.key # key} \cup {[key |-> key, text |-> text, order |-> order]}])

-----------------------------------------------------------------------------
(* Dispatch and rendering. *)

Snapshot(t, g) ==
    [footer |-> templates[t].footer, sections |-> templates[t].categories[g].sections]

\* Mutant: only the sections are searched.
AsksInSections(text) == \E s \in text.sections : s.text = "salary"

\* What the validation looks for in the template.
AsksForSalary(text) == text.footer = "salary" \/ \E s \in text.sections : s.text = "salary"

\* Why a candidate is not written to.
Obstacles(a, text, requireEmail) ==
    (IF requireEmail /\ ~candidates[a].email THEN {"email"} ELSE {})
      \cup (IF candidates[a].names = "none" THEN {"first name"} ELSE {})
      \cup (IF candidates[a].names # "both" THEN {"last name"} ELSE {})
      \cup (IF AsksForSalary(text) /\ ~salary THEN {"salary"} ELSE {})

Sendable(t, g) == {a \in Addressee : Obstacles(a, Snapshot(t, g), TRUE) = {}}
Downloadable(t, g) == {a \in Addressee : Obstacles(a, Snapshot(t, g), FALSE) = {}}

Draft(t, text, override) ==
    [from |-> t, text |-> text, override |-> override, status |-> "drafted", said |-> "null"]

\* A name may be given for the letter: in full, or one word only.
Override == {"null", "full", "word"}

DispatchTo(apps, t, g, override) ==
    /\ t \in DOMAIN templates /\ g \in DOMAIN templates[t].categories
    /\ apps \subseteq Sendable(t, g) /\ apps # {} /\ apps \cap DOMAIN letters = {}
    /\ letters' = [a \in DOMAIN letters \cup apps |->
          IF a \in apps THEN Draft(t, Snapshot(t, g), override) ELSE letters[a]]
    /\ UNCHANGED <<templates, candidates, salary>>

\* What the renderer puts together, and asks for: both names, and the amounts and
\* the currency of the salary if they are to be filled in anywhere.
Body(text) == {s.text : s \in text.sections} \cup {text.footer}
Renders(names, text) == names = "both" /\ ("salary" \in Body(text) => salary)

\* The archive of a download is rendered at once, from the template itself; one
\* letter that cannot be rendered fails the whole.
DownloadArchive(t, g) ==
    IF \A a \in Downloadable(t, g) : Renders(candidates[a].names, Snapshot(t, g))
    THEN [a \in Downloadable(t, g) |-> Snapshot(t, g)]
    ELSE NoRecords

\* _candidate_render_name: one word has no last name.
RenderNames(a) ==
    CASE letters[a].override = "full" -> "both"
      [] letters[a].override = "word" -> "first"
      [] OTHER -> candidates[a].names

Renderable(a) == candidates[a].email /\ Renders(RenderNames(a), letters[a].text)

\* Mutant: the letter is made of the template as it is by now.
RenderFromTemplate(a) ==
    LET t == letters[a].from
        g == CHOOSE c \in DOMAIN templates[t].categories : TRUE
    IN  /\ a \in DOMAIN letters /\ letters[a].status = "drafted"
        /\ letters' = [letters EXCEPT ![a] =
              IF Renderable(a) THEN [@ EXCEPT !.status = "rendered", !.said = Snapshot(t, g)]
              ELSE [@ EXCEPT !.status = "failed"]]
        /\ UNCHANGED <<templates, candidates, salary>>

\* The letter that is mailed is made of the copy.
RenderLetter(a) ==
    /\ a \in DOMAIN letters /\ letters[a].status = "drafted"
    /\ letters' = [letters EXCEPT ![a] =
          IF Renderable(a) THEN [@ EXCEPT !.status = "rendered", !.said = letters[a].text]
          ELSE [@ EXCEPT !.status = "failed"]]
    /\ UNCHANGED <<templates, candidates, salary>>

RetryLetter(a) ==
    /\ a \in DOMAIN letters /\ letters[a].status = "failed"
    /\ letters' = [letters EXCEPT ![a].status = "drafted"]
    /\ UNCHANGED <<templates, candidates, salary>>

\* The requisition, reopened as a draft, is edited: its salary is completed, or is
\* incomplete again.  An amount is never taken back, a currency of blanks is.
EditSalary == salary' = ~salary /\ UNCHANGED <<templates, letters, candidates>>

TemplatesNext ==
    \/ \E t \in OfferTemplate, g \in OfferCategory, slug \in Root, footer \in FooterInput :
         CreateTemplate(t, <<slug, 0>>, g, slug, footer)
    \/ \E t \in OfferTemplate :
         \/ \E name \in Name, status \in TemplateStatus, footer \in FooterInput :
              UpdateTemplate(t, name, status, footer)
         \/ DeleteTemplate(t)
         \/ \E u \in OfferTemplate, gs \in SUBSET OfferCategory :
              \E g \in [gs -> OfferCategory] : CopyTemplate(t, u, g)
         \/ \E g \in OfferCategory :
              \/ \E slug \in Root : CreateCategory(t, g, slug)
              \/ \E key \in SectionKey, text \in Text : UpsertSection(t, g, key, text, 1)
              \/ \E apps \in SUBSET Addressee, override \in Override :
                   DispatchTo(apps, t, g, override)
    \/ \E a \in Addressee : RenderLetter(a) \/ RetryLetter(a)
    \/ EditSalary

-----------------------------------------------------------------------------
TemplatesTypeOK ==
    /\ DOMAIN templates \subseteq OfferTemplate
    /\ \A t \in DOMAIN templates : TemplateRow(templates[t])
    /\ DOMAIN letters \subseteq Addressee
    /\ \A t, u \in DOMAIN templates : t # u => templates[t].name # templates[u].name
=============================================================================
