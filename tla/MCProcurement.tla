--------------------------- MODULE MCProcurement ---------------------------
(* One laptop, one ticket, one requisition; any member may be in finance. *)
EXTENDS Procurement
MCGroupOf == [a \in Asset |-> "laptops"]
MCModelOf == [a \in Asset |-> "standard"]
=============================================================================
