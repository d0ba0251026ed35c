--------------------------- MODULE MCLeaveLedger ---------------------------
(* A small organization over 30 and 31 December 2021 and Saturday 1 January
   2022: two working days of one year and a free day of the next. *)
EXTENDS LeaveLedger, TLC

RequestSymmetry == Permutations(RequestId)

MCDate == 1..3
MCWeekend == {3}
MCYear == {2021, 2022}
MCYearOf == [d \in MCDate |-> IF d <= 2 THEN 2021 ELSE 2022]
MCQuota == {1, 3}
MCDayInput == {1, 4}
MCBalanceInput ==
    {[allocated |-> 2, carriedForward |-> 1, lapsed |-> 0],
     [allocated |-> 3, carriedForward |-> 1, lapsed |-> 2]}
=============================================================================
