------------------------------ MODULE Custody ------------------------------
(***************************************************************************)
(* What lending company equipment promises, whatever registers, units and  *)
(* tickets the program keeps to carry it out: a loan is made once, to one  *)
(* member and of one asset, and ends once.  A replacement ends one loan    *)
(* and makes the next in a single step, for the same member, so that the   *)
(* member is never left without either; a loan is replaced at most once.   *)
(*                                                                         *)
(* Assets implements this specification.                                   *)
(***************************************************************************)
CONSTANTS Loan, Member, Asset, Null

VARIABLE loans    \* the loans made so far, as a function

CustodyLoan ==
    [member : Member, asset : Asset, open : BOOLEAN, next : Loan \cup {Null}]

CustodyTypeOK == DOMAIN loans \subseteq Loan /\ loans \in [DOMAIN loans -> CustodyLoan]

NewLoan(m, a) == [member |-> m, asset |-> a, open |-> TRUE, next |-> Null]

CustodyInit == loans = [l \in {} |-> NewLoan(l, l)]

\* Several assets of a group go to one member at once, each as a loan.
Lend(new, m, assetOf) ==
    /\ new # {} /\ new \cap DOMAIN loans = {}
    /\ loans' = [l \in DOMAIN loans \cup new |->
          IF l \in new THEN NewLoan(m, assetOf[l]) ELSE loans[l]]

\* The loan l once it has ended, followed by the loan next or by none.
Ended(l, next) ==
    [member |-> loans[l].member, asset |-> loans[l].asset, open |-> FALSE, next |-> next]

Close(l) ==
    /\ l \in DOMAIN loans /\ loans[l].open
    /\ loans' = [k \in DOMAIN loans |-> IF k = l THEN Ended(l, loans[l].next) ELSE loans[k]]

Swap(old, new, a) ==
    /\ old \in DOMAIN loans /\ loans[old].open
    /\ new \notin DOMAIN loans
    /\ loans' = [l \in DOMAIN loans \cup {new} |->
          IF l = new THEN NewLoan(loans[old].member, a)
          ELSE IF l = old THEN Ended(old, new)
          ELSE loans[l]]

CustodyNext ==
    \/ \E new \in SUBSET Loan, m \in Member : \E assetOf \in [new -> Asset] :
          Lend(new, m, assetOf)
    \/ \E l \in Loan : Close(l)
    \/ \E old, new \in Loan, a \in Asset : Swap(old, new, a)

CustodySpec == CustodyInit /\ [][CustodyNext]_loans
=============================================================================
