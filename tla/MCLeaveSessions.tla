-------------------------- MODULE MCLeaveSessions --------------------------
(* Two working days of one year, and leave that two requests overdraw.  The run
   with two sessions narrows the calendar to one day: they then still race for
   the one balance row.  The run with one session adds a holiday. *)
EXTENDS LeaveSessions, TLC

MCDate == 1..2
MCOneDay == {1}
MCWeekend == {}
MCYear == {2021}
MCYearOf == [d \in MCDate |-> 2021]
MCYearOfOneDay == [d \in MCOneDay |-> 2021]
MCQuota == {2}

MCSymmetry == Permutations(Session) \cup Permutations(RequestId)
MCDayInput == {2}
MCDayInputs == {1, 3}

MCBalanceInput ==
    {[allocated |-> 3, carriedForward |-> 1, lapsed |-> 0]}
=============================================================================
