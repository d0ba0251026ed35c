---------------------------- MODULE Procurement ----------------------------
(***************************************************************************)
(* Buying equipment (app/modules/procurement/service.py): requisitions,    *)
(* the finance decision and purchase orders, over the register and the     *)
(* helpdesk of Assets.  A replacement is bought for a ticket, which the    *)
(* approval closes.                                                        *)
(*                                                                         *)
(* Every handler is one transaction.  Costs, vendors, the purchase order's *)
(* document and template, and notifications are left out, and with them    *)
(* update_procurement_requisition, which edits nothing else.               *)
(***************************************************************************)
EXTENDS Assets

CONSTANTS
    Requisition,    \* primary keys of requisitions
    Finance         \* members whose role may approve purchases

VARIABLES
    requisitions,   \* asset_purchase_requisition
    orders          \* asset_purchase_order, by number

procurementVars == <<requisitions, orders>>

RequisitionRow ==
    [type : {"BULK", "REPLACEMENT"},
     status : {"DRAFT", "PENDING", "APPROVED", "REJECTED", "CANCELLED"},
     by : Member, ticket : Nullable(Ticket)]
OrderRow == [requisition : Requisition, status : {"GENERATED", "SENT", "FAILED"}]

ProcurementInit == Init /\ requisitions = NoRows /\ orders = NoRows

WithStatus(r, status) == [requisitions EXCEPT ![r].status = status]

\* _get_replacement_ticket_context: the tickets a replacement may be bought for.
Eligible(t) ==
    /\ t \in DOMAIN tickets /\ tickets[t].status = "OPEN"
    /\ tickets[t].asset # Null /\ ~tickets[t].return

CreateRequisition(r, m, type, t) ==
    /\ r \notin DOMAIN requisitions
    /\ IF type = "REPLACEMENT" THEN Eligible(t) ELSE t = Null
    /\ requisitions' = Put(requisitions, r,
          [type |-> type, status |-> "DRAFT", by |-> m, ticket |-> t])
    /\ UNCHANGED <<vars, orders>>

\* By the member who raised it; somebody must be able to approve it.
SubmitRequisition(r) ==
    /\ r \in DOMAIN requisitions /\ requisitions[r].status = "DRAFT"
    /\ requisitions[r].type = "REPLACEMENT" => requisitions[r].ticket # Null
    /\ Finance # {}
    /\ requisitions' = WithStatus(r, "PENDING")
    /\ UNCHANGED <<vars, orders>>

CancelRequisition(r) ==
    /\ r \in DOMAIN requisitions /\ requisitions[r].status \in {"DRAFT", "PENDING"}
    /\ requisitions' = WithStatus(r, "CANCELLED")
    /\ UNCHANGED <<vars, orders>>

CanFinanceApprove(r, m) ==
    /\ r \in DOMAIN requisitions
    /\ requisitions[r].status = "PENDING_FINANCE_APPROVAL"
    /\ m \in Finance

\* What becomes of the ticket of a replacement, its unit and its asset.
CancelLinkedTicket(r) ==
    LET t == requisitions[r].ticket
        a == tickets[t].asset
        u == tickets[t].unit
        us == WithUnit(a, u, "DAMAGED", HolderOf(u))
    IN  IF \/ requisitions[r].type # "REPLACEMENT"
           \/ t \notin DOMAIN tickets
           \/ tickets[t].status # "OPEN"
        THEN UNCHANGED <<assets, units, tickets>>
        ELSE /\ tickets' = Put(tickets, t, TicketWith(t, "CANCELLED"))
             /\ units' = us
             /\ assets' = IF a = Null THEN assets
                          ELSE SetStatus(a, IF u = Null THEN "DAMAGED"
                                            ELSE StatusFrom(us, a, "AVAILABLE"))

ApproveRequisition(r, m) ==
    /\ CanFinanceApprove(r, m)
    /\ requisitions' = WithStatus(r, "APPROVED")
    /\ CancelLinkedTicket(r)
    /\ UNCHANGED <<loans, orders>>

RejectRequisition(r, m) ==
    /\ CanFinanceApprove(r, m)
    /\ requisitions' = WithStatus(r, "REJECTED")
    /\ UNCHANGED <<vars, orders>>

\* issue_procurement_purchase_order, numbered by a count; its mail may fail.
IssueOrder(r, m, outcome) ==
    /\ r \in DOMAIN requisitions /\ requisitions[r].status = "APPROVED"
    /\ m \in Finance
    /\ \A n \in DOMAIN orders : orders[n].requisition # r
    /\ orders' = Put(orders, Cardinality(DOMAIN orders) + 1,
                     [requisition |-> r, status |-> outcome])
    /\ UNCHANGED <<vars, requisitions>>

\* send_procurement_purchase_order_email: only a mail that was sent shows.
SendOrder(n) ==
    /\ n \in DOMAIN orders
    /\ orders' = [orders EXCEPT ![n].status = "SENT"]
    /\ UNCHANGED <<vars, requisitions>>

RequisitionStep ==
    \E r \in Requisition, m \in Member :
        \/ \E type \in {"BULK", "REPLACEMENT"}, t \in Nullable(Ticket) :
              CreateRequisition(r, m, type, t)
        \/ SubmitRequisition(r)
        \/ CancelRequisition(r)
        \/ ApproveRequisition(r, m)
        \/ RejectRequisition(r, m)
        \/ \E outcome \in {"GENERATED", "SENT", "FAILED"} : IssueOrder(r, m, outcome)

ProcurementNext ==
    \/ Next /\ UNCHANGED procurementVars
    \/ RequisitionStep
    \/ \E n \in DOMAIN orders : SendOrder(n)

ProcurementSpec == ProcurementInit /\ [][ProcurementNext]_<<vars, procurementVars>>

-----------------------------------------------------------------------------
(* Correctness. *)

\* A finance manager may approve a requisition that waits for a decision, as
\* test_approve_replacement_requisition_cancels_linked_ticket does.
SubmittedCanBeDecided ==
    \A r \in DOMAIN requisitions : requisitions[r].status = "PENDING" =>
        \A m \in Finance : ENABLED ApproveRequisition(r, m)
=============================================================================
