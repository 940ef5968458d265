------------------------------ MODULE MC_Booking ------------------------------
EXTENDS Booking

CONSTANTS r1, r2, r3, c1, c2

MCReqs == {r1, r2, r3}
MCTwoReqs == {r1, r2}
MCCancels == {c1, c2}
NoCancels == {}
NoReqs == {}

\* Two overlapping requests, one next to them and one outside every window.
MCIntervals == {[s |-> 0, e |-> 2], [s |-> 1, e |-> 3],
                [s |-> 5, e |-> 7], [s |-> 3, e |-> 5]}

\* Working hours [0, 8) set by UpsertWorkingHours, and time off [7, 9)
\* then [4, 5) added by CreateTimeOff (the second one clipped to the hours'
\* end), leaving the windows [0, 4) and [5, 7).
MCHours == UpsertWorkingHours(NoWorkingHours, TRUE, 0, 8)
MCTimeOff == CreateTimeOff(CreateTimeOff(<<>>, [s |-> 7, e |-> 9]), [s |-> 4, e |-> 5])

\* Working hours [0, 8), and one time-off row over all of them.
MCDayHours == UpsertWorkingHours(NoWorkingHours, TRUE, 0, 8)
MCDayOff == CreateTimeOff(<<>>, [s |-> 0, e |-> 8])

\* Slots' fallback workday 09:00-17:00, with time counted from 09:00.
MCQueryWindow == [s |-> 0, e |-> 8]
==============================================================================
