---------------------------- MODULE Notifications ----------------------------
(***************************************************************************)
(* The notifications of members (app/modules/notifications), with the      *)
(* decisions on leave they tell of (app/modules/leave/controller.py).  A   *)
(* decision is read, committed, and then told of in a transaction of its   *)
(* own, by an approver's session; between any two of these other sessions  *)
(* may run, and the session may be lost.  Rows are numbered in the order   *)
(* of createdAt.                                                           *)
(***************************************************************************)
EXTENDS Integers, FiniteSets, Sequences, Tables

CONSTANTS
    Recipient,      \* members of the organization
    Ask,            \* leave requests
    AskedBy,        \* the member of each
    Decider         \* sessions of approvers

ASSUME NotificationsConstants == AskedBy \in [Ask -> Recipient]

VARIABLES
    asks,           \* status of each leave request
    deciders,       \* what each session has read and will do next
    notices,        \* notifications, oldest first
    contested,      \* requests decided although their status was no longer what was read
    untold          \* requests whose decision was committed by a session then lost

noticeVars == <<asks, deciders, notices, contested, untold>>

Verdict == {"APPROVED", "REJECTED"}
Free == [kind |-> "free"]
DeciderState == {Free} \cup [kind : {"decide", "tell"}, ask : Ask, verdict : Verdict]
NoticeRow == [member : Recipient, ask : Ask, verdict : Verdict, status : {"READ", "UNREAD"}]

NotificationsInit ==
    /\ asks = [r \in Ask |-> "PENDING"]
    /\ deciders = [d \in Decider |-> Free]
    /\ notices = <<>> /\ contested = {} /\ untold = {}

-----------------------------------------------------------------------------
\* approve_leave_request and reject_leave_request find the request pending ...
ReadRequest(d, r, verdict) ==
    /\ deciders[d] = Free
    /\ asks[r] = "PENDING"
    /\ deciders' = [deciders EXCEPT ![d] = [kind |-> "decide", ask |-> r, verdict |-> verdict]]
    /\ UNCHANGED <<asks, notices, contested, untold>>

\* ... and commit what they decided without looking again.
CommitDecision(d) ==
    LET r == deciders[d].ask
    IN  /\ deciders[d].kind = "decide"
        /\ asks' = [asks EXCEPT ![r] = deciders[d].verdict]
        /\ contested' = IF asks[r] = "PENDING" THEN contested ELSE contested \cup {r}
        /\ deciders' = [deciders EXCEPT ![d].kind = "tell"]
        /\ UNCHANGED <<notices, untold>>

\* The owner, or an administrator, cancels; nobody is told.
CancelRequest(r) ==
    /\ asks[r] = "PENDING"
    /\ asks' = [asks EXCEPT ![r] = "CANCELLED"]
    /\ UNCHANGED <<deciders, notices, contested, untold>>

CreateNotificationBatch(rows) == notices' = notices \o rows

\* Mutant: the session tells of its decision again, as after a lost response.
ApproveTwice(d) ==
    LET r == deciders[d].ask
    IN  /\ deciders[d].kind = "tell" /\ deciders[d].verdict = "APPROVED"
        /\ CreateNotificationBatch(<<[member |-> AskedBy[r], ask |-> r,
                                      verdict |-> "APPROVED", status |-> "UNREAD"]>>)
        /\ UNCHANGED <<asks, deciders, contested, untold>>

\* handle_approve_leave_request: the decision is committed, the member is told.
HandleApprove(d) ==
    LET r == deciders[d].ask
    IN  /\ deciders[d].kind = "tell" /\ deciders[d].verdict = "APPROVED"
        /\ CreateNotificationBatch(<<[member |-> AskedBy[r], ask |-> r,
                                      verdict |-> "APPROVED", status |-> "UNREAD"]>>)
        /\ deciders' = [deciders EXCEPT ![d] = Free]
        /\ UNCHANGED <<asks, contested, untold>>

HandleReject(d) ==
    LET r == deciders[d].ask
    IN  /\ deciders[d].kind = "tell" /\ deciders[d].verdict = "REJECTED"
        /\ CreateNotificationBatch(<<[member |-> AskedBy[r], ask |-> r,
                                      verdict |-> "REJECTED", status |-> "UNREAD"]>>)
        /\ deciders' = [deciders EXCEPT ![d] = Free]
        /\ UNCHANGED <<asks, contested, untold>>

\* The server stops, or the notification cannot be written.
LoseDecider(d) ==
    /\ deciders[d] # Free
    /\ untold' = IF deciders[d].kind = "tell" THEN untold \cup {deciders[d].ask} ELSE untold
    /\ deciders' = [deciders EXCEPT ![d] = Free]
    /\ UNCHANGED <<asks, notices, contested>>

MarkNotificationAsRead(m, n) ==
    /\ n \in DOMAIN notices
    /\ notices[n].member = m
    /\ notices' = [notices EXCEPT ![n].status = "READ"]
    /\ UNCHANGED <<asks, deciders, contested, untold>>

MarkAllNotificationsAsRead(m) ==
    /\ notices' = [n \in DOMAIN notices |->
          IF notices[n].member = m THEN [notices[n] EXCEPT !.status = "READ"] ELSE notices[n]]
    /\ UNCHANGED <<asks, deciders, contested, untold>>

NotificationsNext ==
    \/ \E d \in Decider :
          \/ \E r \in Ask, verdict \in Verdict : ReadRequest(d, r, verdict)
          \/ CommitDecision(d) \/ HandleApprove(d) \/ HandleReject(d) \/ LoseDecider(d)
    \/ \E r \in Ask : CancelRequest(r)
    \/ \E m \in Recipient :
          \/ \E n \in DOMAIN notices : MarkNotificationAsRead(m, n)
          \/ MarkAllNotificationsAsRead(m)

NotificationsSpec == NotificationsInit /\ [][NotificationsNext]_noticeVars

-----------------------------------------------------------------------------
(* Pages. *)

\* A filter is the set of statuses it admits.
NoticesOf(m, statuses) ==
    {n \in DOMAIN notices : notices[n].member = m /\ notices[n].status \in statuses}

\* By status in the order of the alphabet, then the newest first.
ListNotifications(m, statuses, limit, offset) ==
    LET Before(n, o) == \/ notices[n].status = "READ" /\ notices[o].status = "UNREAD"
                        \/ notices[n].status = notices[o].status /\ n > o
        all == InOrder(NoticesOf(m, statuses), Before)
    IN  [items |-> {all[i] : i \in (offset + 1..offset + limit) \cap DOMAIN all},
         total |-> Len(all)]

CountUnread(m) == Cardinality(NoticesOf(m, {"UNREAD"}))

ListMemberNotifications(m, statuses, limit, offset) ==
    [list |-> ListNotifications(m, statuses, limit, offset), unreadCount |-> CountUnread(m)]

-----------------------------------------------------------------------------
(* Correctness. *)

NotificationsTypeOK ==
    /\ asks \in [Ask -> {"PENDING", "CANCELLED"} \cup Verdict]
    /\ deciders \in [Decider -> DeciderState]
    /\ notices \in Seq(NoticeRow)
    /\ contested \subseteq Ask /\ untold \subseteq Ask

\* Nobody is told of a decision that does not stand, or twice, and everybody is
\* told unless the session was lost: of a request decided once there is exactly
\* one notification, with what was decided, for its member.
DecisionsAreTold ==
    \A r \in Ask \ contested :
        LET told    == {n \in DOMAIN notices : notices[n].ask = r}
            telling == {d \in Decider : deciders[d].kind = "tell" /\ deciders[d].ask = r}
        IN  /\ \A n \in told : notices[n].verdict = asks[r] /\ notices[n].member = AskedBy[r]
            /\ Cardinality(told) + Cardinality(telling) + (IF r \in untold THEN 1 ELSE 0)
                  = IF asks[r] \in Verdict THEN 1 ELSE 0

\* Page by page a member comes by each notification once, and the number on the
\* bell is the number of those listed as unread.
NoticePagesAgree ==
    \A m \in Recipient :
        LET all  == {"READ", "UNREAD"}
            Page(o) == ListMemberNotifications(m, all, 1, o)
            Unread  == ListMemberNotifications(m, {"UNREAD"}, 1, 0)
        IN  /\ UNION {Page(o).list.items : o \in 0..Page(0).list.total - 1} = NoticesOf(m, all)
            /\ Unread.list.total = Page(0).unreadCount
            /\ Unread.list.total + ListNotifications(m, {"READ"}, 1, 0).total = Page(0).list.total
            /\ Unread.unreadCount > 0 => Unread.list.items # {}

NoticesAreTrue == DecisionsAreTold /\ NoticePagesAgree
=============================================================================
