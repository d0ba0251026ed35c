----------------------------- MODULE Reminders -----------------------------
(***************************************************************************)
(* The daily scans (app/shared/scheduler.py, run_temp_replacement_reminder_*)
(* scan and run_warranty_tracker_scan of app/modules/assets/service.py):   *)
(* who holds a temporary replacement is reminded on the day before it is   *)
(* due, who holds an asset a week before its warranty ends.                *)
(*                                                                         *)
(* A scan reads its rows, mails one holder after the other and commits its *)
(* marks at the end, while dates are edited in other sessions.  A mail     *)
(* that is not accepted is not noticed (_send_email swallows it), so to    *)
(* mail is to have tried.  A scan that fails is rolled back and, like one  *)
(* the server was down for, is not repeated on another day.  An assignment *)
(* made without a unit, for which the scan takes or makes the first of the *)
(* asset (_ensure_tracking_unit), is left out: what is issued is a unit.   *)
(***************************************************************************)
EXTENDS Integers, FiniteSets, FiniteSetsExt

CONSTANTS
    Replacement,    \* open assignments of temporary assets
    Issued,         \* units of assets that are assigned
    LastDay,        \* days are 1..LastDay
    DateInput       \* due and expiry dates that may be entered

ASSUME RemindersConstants ==
    Replacement \cap Issued = {} /\ LastDay \in Nat \ {0}

Scan == {"replacement", "warranty"}
Item == Replacement \cup Issued
Of(k) == IF k = "replacement" THEN Replacement ELSE Issued

NoDay == 0
Date == DateInput \cup {NoDay}

VARIABLES
    today,
    reminders,      \* what is dated: the date, the mark, whether still held
    scans,          \* the scan of the day of each kind
    mailed,         \* the date each item's holder was last mailed about
    edited,         \* items edited since the scan of the day was begun
    crossed         \* items marked by a scan that had read them before an edit

reminderVars == <<today, reminders, scans, mailed, edited, crossed>>

\* expectedReturnDate and returnReminderSent of an assignment,
\* warrantyExpiryDate and reminderCompleted of a unit.
ReminderRow == [date : Date, sent : BOOLEAN, held : BOOLEAN]
ScanState == [at : {"due", "running", "done", "lost"}, left : SUBSET Item, told : SUBSET Item]

Due == [at |-> "due", left |-> {}, told |-> {}]
ScanRuns(k) == scans[k].at = "running"

RemindersInit ==
    /\ today = 1
    /\ reminders = [i \in Item |-> [date |-> NoDay, sent |-> FALSE, held |-> TRUE]]
    /\ scans = [k \in Scan |-> Due]
    /\ mailed = [i \in Item |-> NoDay] /\ edited = {} /\ crossed = {}

-----------------------------------------------------------------------------
(* The scans. *)

Unmarked(k, ahead) ==
    {i \in Of(k) : reminders[i].held /\ ~reminders[i].sent /\ reminders[i].date = today + ahead}

DueTomorrow == Unmarked("replacement", 1)
ExpiringInAWeek == Unmarked("warranty", 7)

BeginScan(k, items) ==
    /\ scans[k].at = "due"
    /\ scans' = [scans EXCEPT ![k] = [at |-> "running", left |-> items, told |-> {}]]
    /\ edited' = edited \ Of(k)
    /\ UNCHANGED <<today, reminders, mailed, crossed>>

TempReplacementReminderJob == BeginScan("replacement", DueTomorrow)
WarrantyTrackerScanJob == BeginScan("warranty", ExpiringInAWeek)

\* The date in the mail is the one that was read.
Tell(k, i, date) ==
    /\ ScanRuns(k) /\ i \in scans[k].left
    /\ mailed' = [mailed EXCEPT ![i] = date]
    /\ scans' = [scans EXCEPT ![k].left = @ \ {i}, ![k].told = @ \cup {i}]
    /\ UNCHANGED <<today, reminders, edited, crossed>>

SendTempReplacementReminder(i) == Tell("replacement", i, today + 1)
SendWarrantyAlert(i) == Tell("warranty", i, today + 7)

\* The one commit: of the rows only the mark is written.
EndScan(k) ==
    /\ ScanRuns(k) /\ scans[k].left = {}
    /\ reminders' = [i \in Item |->
          [reminders[i] EXCEPT !.sent = @ \/ i \in scans[k].told]]
    /\ scans' = [scans EXCEPT ![k].at = "done"]
    /\ crossed' = crossed \cup (scans[k].told \cap edited)
    /\ UNCHANGED <<today, mailed, edited>>

EndReplacementScan == EndScan("replacement")
EndWarrantyScan == EndScan("warranty")

\* An exception, or the end of the server, before the commit.
LoseScan(k) ==
    /\ ScanRuns(k)
    /\ scans' = [scans EXCEPT ![k].at = "lost"]
    /\ UNCHANGED <<today, reminders, mailed, edited, crossed>>

\* A scan the server missed by more than an hour is not run.
NextDay ==
    /\ today < LastDay /\ \A k \in Scan : ~ScanRuns(k)
    /\ today' = today + 1
    /\ scans' = [k \in Scan |-> Due]
    /\ edited' = {}
    /\ UNCHANGED <<reminders, mailed, crossed>>

-----------------------------------------------------------------------------
(* The handlers that write what the scans read. *)

Edit(i, row) ==
    /\ reminders' = [reminders EXCEPT ![i] = row] /\ edited' = edited \cup {i}
    /\ crossed' = IF row.sent THEN crossed ELSE crossed \ {i}
    /\ UNCHANGED <<today, scans, mailed>>

\* Mutant: a new date does not take the mark back.
ReturnDateKeepingMark(l, date) ==
    reminders[l].held /\ Edit(l, [reminders[l] EXCEPT !.date = date])

SetReplacementReturnDate(l, date) ==
    reminders[l].held /\ Edit(l, [reminders[l] EXCEPT !.date = date, !.sent = FALSE])

\* upsert_asset gives every unit the date of the asset; the mark goes only when
\* the date is another one.
SetWarrantyExpiry(u, date) ==
    Edit(u, [reminders[u] EXCEPT !.date = date, !.sent = @ /\ date = reminders[u].date])

ReturnAssigned(i) == reminders[i].held /\ Edit(i, [reminders[i] EXCEPT !.held = FALSE])
Reissue(u) == ~reminders[u].held /\ Edit(u, [reminders[u] EXCEPT !.held = TRUE])

RemindersNext ==
    \/ NextDay
    \/ TempReplacementReminderJob \/ WarrantyTrackerScanJob
    \/ EndReplacementScan \/ EndWarrantyScan
    \/ \E k \in Scan : LoseScan(k)
    \/ \E l \in Replacement :
         \/ SendTempReplacementReminder(l)
         \/ \E date \in DateInput : SetReplacementReturnDate(l, date)
    \/ \E u \in Issued :
         \/ SendWarrantyAlert(u)
         \/ Reissue(u)
         \/ \E date \in Date : SetWarrantyExpiry(u, date)
    \/ \E i \in Item : ReturnAssigned(i)

-----------------------------------------------------------------------------
\* get_upcoming_warranty_feed: what a member sees on the page of warranties.
WarrantyFeed ==
    {u \in Issued : reminders[u].held /\ reminders[u].date \in today..today + 7}

RemindersTypeOK ==
    /\ today \in 1..LastDay
    /\ reminders \in [Item -> ReminderRow]
    /\ scans \in [Scan -> ScanState]
    /\ mailed \in [Item -> Nat] /\ edited \subseteq Item /\ crossed \subseteq Item

\* Once the scan of the day is done, whoever holds something that is due
\* tomorrow, or whose warranty ends in a week, was told of that very date,
\* however often the date was moved before; and what was told of on a scan of
\* this day is on the page of warranties, unless it was edited since.  Not so
\* when a scan marks what was edited after it was read: the mark stays, with
\* the new date, of which nobody is told (crossed).
DueIsReminded ==
    /\ \A i \in Replacement \ (edited \cup crossed) :
         scans["replacement"].at = "done" /\ reminders[i].held /\ reminders[i].date = today + 1
            => mailed[i] = reminders[i].date /\ reminders[i].sent
    /\ \A u \in Issued \ (edited \cup crossed) :
         /\ scans["warranty"].at = "done" /\ reminders[u].held /\ reminders[u].date = today + 7
               => mailed[u] = reminders[u].date /\ reminders[u].sent
         /\ u \in scans["warranty"].told => u \in WarrantyFeed

-----------------------------------------------------------------------------
(***************************************************************************)
(* The hourly scan that reminds a candidate of proposed interview slots    *)
(* (process_interview_slot_reminders of app/modules/candidates/service.py),*)
(* for one interview.  The interviewer accepts, which writes the slots in  *)
(* one commit, mails the invitation and notes it in a second commit; the   *)
(* candidate books, the interviewer refuses or accepts anew.  The scan is  *)
(* one step, for its mail and its commit; when it fails in between, the    *)
(* mail is out and nothing is noted.                                       *)
(***************************************************************************)

CONSTANTS
    LastHour,       \* hours are 0..LastHour
    SlotsInput,     \* sets of hours at which proposed slots begin
    MaxSkipped,     \* bound on the scans that fail or do not run
    MaxProposals    \* bound on the acceptances

ASSUME SlotsConstants ==
    LastHour \in Nat /\ MaxSkipped \in Nat /\ MaxProposals \in Nat

NoHour == -1
Hour == 0..LastHour
HourOrNone == Hour \cup {NoHour}

VARIABLES
    hour,
    event,          \* what the scan reads of the interview
    mails,          \* the last two hours at which the candidate was reminded
    hourly,         \* the scan of this hour: "due", "done" or "skipped"
    settled,        \* whether nothing was edited since that scan
    skipped,        \* scans that failed or did not run
    proposals       \* acceptances so far

slotVars == <<hour, event, mails, hourly, settled, skipped, proposals>>

\* slotInvitationSentAt, lastSlotReminderSentAt, the slots of the interviewer
\* no candidate has chosen, whether a time is booked, and whether the second
\* commit of an acceptance is still to come.
EventRow == [invited : HourOrNone, last : HourOrNone, slots : SUBSET Int,
             booked : BOOLEAN, inviting : BOOLEAN]

NoReminders == <<NoHour, NoHour>>

SlotsInit ==
    /\ hour = 0
    /\ event = [invited |-> NoHour, last |-> NoHour, slots |-> {},
                booked |-> FALSE, inviting |-> FALSE]
    /\ mails = NoReminders /\ hourly = "due" /\ settled = TRUE /\ skipped = 0 /\ proposals = 0

Future == {s \in event.slots : s > hour}

\* Whom the query finds.
Waiting == event.invited # NoHour /\ ~event.booked /\ Future # {}

\* The longer the candidate had from the invitation to the first slot that is
\* still to come, the rarer the reminders: 4 hours, a day, or five days apart.
Interval ==
    LET gap == Min(Future) - event.invited
    IN  IF gap < 36 THEN 4 ELSE IF gap <= 7 * 24 THEN 24 ELSE 5 * 24

\* Mutant: only the first reminder is noted.
DueUnlessNoted == Waiting

ReminderDue == Waiting /\ (event.last # NoHour => hour - event.last >= Interval)

SlotReminderJob ==
    /\ hourly = "due"
    /\ hourly' = "done" /\ settled' = TRUE
    /\ IF ReminderDue
       THEN mails' = <<mails[2], hour>> /\ event' = [event EXCEPT !.last = hour]
       ELSE UNCHANGED <<mails, event>>
    /\ UNCHANGED <<hour, skipped, proposals>>

\* The mail went out and the commit did not, or the server was down.
SkipReminderJob ==
    /\ hourly = "due" /\ skipped < MaxSkipped
    /\ hourly' = "skipped" /\ skipped' = skipped + 1
    /\ \/ ReminderDue /\ mails' = <<mails[2], hour>>
       \/ UNCHANGED mails
    /\ UNCHANGED <<hour, event, settled, proposals>>

\* The next hour strikes: its scan is due.
HourStrikes ==
    /\ hour < LastHour /\ hourly # "due"
    /\ hour' = hour + 1 /\ hourly' = "due"
    /\ UNCHANGED <<event, mails, settled, skipped, proposals>>

-----------------------------------------------------------------------------
\* Accepting, and accepting anew: the slots are replaced, what was noted of
\* reminders is kept.
ProposeSlots(slots) ==
    /\ proposals < MaxProposals
    /\ ~event.inviting /\ slots # {} /\ \A s \in slots : s > hour
    /\ event' = [event EXCEPT !.slots = slots, !.booked = FALSE, !.inviting = TRUE]
    /\ settled' = FALSE /\ proposals' = proposals + 1
    /\ UNCHANGED <<hour, mails, hourly, skipped>>

\* The invitation is mailed; or that fails, and nothing is noted of it.
InviteToSlots ==
    /\ event.inviting
    /\ \E sent \in BOOLEAN :
         event' = [event EXCEPT !.inviting = FALSE, !.invited = IF sent THEN hour ELSE @]
    /\ settled' = FALSE /\ UNCHANGED <<hour, mails, hourly, skipped, proposals>>

\* Refusing: the next interviewer invites afresh.
WithdrawSlots ==
    /\ event.slots # {} /\ ~event.inviting
    /\ event' = [event EXCEPT !.slots = {}, !.invited = NoHour, !.last = NoHour, !.booked = FALSE]
    /\ mails' = NoReminders /\ settled' = FALSE
    /\ UNCHANGED <<hour, hourly, skipped, proposals>>

\* The candidate chooses one: it is no longer counted among those proposed.
ChooseSlot(s) ==
    /\ s \in event.slots /\ ~event.booked /\ ~event.inviting
    /\ event' = [event EXCEPT !.slots = @ \ {s}, !.booked = TRUE]
    /\ settled' = FALSE /\ UNCHANGED <<hour, mails, hourly, skipped, proposals>>

SlotsNext ==
    \/ SlotReminderJob \/ SkipReminderJob \/ HourStrikes
    \/ \E slots \in SlotsInput : ProposeSlots(slots)
    \/ InviteToSlots \/ WithdrawSlots
    \/ \E s \in UNION SlotsInput : ChooseSlot(s)

-----------------------------------------------------------------------------
SlotsTypeOK ==
    /\ hour \in Hour /\ mails \in HourOrNone \X HourOrNone
    /\ event.invited \in HourOrNone /\ event.last \in HourOrNone
    /\ event.slots \subseteq UNION SlotsInput
    /\ skipped \in 0..MaxSkipped /\ proposals \in 0..MaxProposals /\ settled \in BOOLEAN

\* A candidate who was invited and has not chosen is not forgotten: when the
\* scan of the hour is done, the last reminder is younger than the interval
\* that the slots still open call for.  Nor is anybody pestered: two reminders
\* are four hours apart, unless a scan failed after its mail.
KeptInformed ==
    /\ hourly = "done" /\ settled /\ Waiting =>
          event.last # NoHour /\ hour - event.last < Interval
    /\ mails[1] # NoHour /\ skipped = 0 => mails[2] - mails[1] >= 4
=============================================================================
