----------------------------- MODULE Availability -----------------------------
(***************************************************************************)
(* The availability windows of one staff member for one day, as            *)
(* business-service computes them (grpcserver/server.go:                   *)
(* GetAvailabilityConfig, subtractBlocks, sortIntervals) and as            *)
(* booking-service reads them (handlers/booking.go:                        *)
(* resolveAvailabilityWindows, windowsFromConfig), and the schedule writes *)
(* they are computed from (handlers/http.go, storage/repository.go:        *)
(* UpsertWorkingHours, CreateTimeOff).                                     *)
(*                                                                         *)
(* Pure operators over intervals [s |-> .., e |-> ..], half-open, in       *)
(* 15-minute units past the day's start in UTC (the time-zone shift of the *)
(* working hours is left out: it moves every bound by one offset).         *)
(***************************************************************************)
EXTENDS Integers, Sequences, SequencesExt

IntervalMax(a, b) == IF a >= b THEN a ELSE b
IntervalMin(a, b) == IF a <= b THEN a ELSE b

(* ListTimeOff(from, to): the staff member's time-off rows with            *)
(* end_time > from and start_time < to, ORDER BY start_time (the rows are   *)
(* few, far under the LIMIT of 500).                                       *)
ListTimeOff(rows, from, to) ==
    SortSeq(SelectSeq(rows, LAMBDA t : t.e > from /\ t.s < to),
            LAMBDA x, y : x.s < y.s)

(* subtractBlocks, first loop: drop the blocks outside [bs, be), clip the  *)
(* others to it, and keep those left non-empty.                            *)
ClipBlocks(bs, be, blocks) ==
    LET kept == SelectSeq(blocks, LAMBDA t : ~(t.e < bs \/ t.s >= be))
        clipped == [i \in 1..Len(kept) |->
                      [s |-> IntervalMax(kept[i].s, bs), e |-> IntervalMin(kept[i].e, be)]]
    IN SelectSeq(clipped, LAMBDA c : c.e > c.s)

(* sortIntervals: by start, then by end.                                   *)
SortIntervals(b) ==
    SortSeq(b, LAMBDA x, y : x.s < y.s \/ (x.s = y.s /\ x.e < y.e))

(* One step of the merge loop: a block starting after the last merged one  *)
(* ends opens a new one, otherwise it extends the last one's end.          *)
MergeBlock(merged, cur) ==
    IF merged = <<>> \/ cur.s > Last(merged).e THEN Append(merged, cur)
    ELSE IF cur.e > Last(merged).e
         THEN [merged EXCEPT ![Len(merged)] = [@ EXCEPT !.e = cur.e]]
         ELSE merged

(* The merge loop over the sorted blocks.                                  *)
RECURSIVE MergeFrom(_, _)
MergeFrom(merged, bs) ==
    IF bs = <<>> THEN merged ELSE MergeFrom(MergeBlock(merged, Head(bs)), Tail(bs))

RECURSIVE SubtractFrom(_, _, _), SubtractFromStaleCursor(_, _, _)
\* Mutant: the cursor does not move past a block.
SubtractFromStaleCursor(ms, cursor, be) ==
    IF ms = <<>>
    THEN IF be > cursor THEN <<[s |-> cursor, e |-> be]>> ELSE <<>>
    ELSE LET m == Head(ms) IN
         (IF m.s > cursor THEN <<[s |-> cursor, e |-> m.s]>> ELSE <<>>)
         \o SubtractFromStaleCursor(Tail(ms), cursor, be)

(* The subtraction loop from cursor: the gap before each merged block,     *)
(* then the rest of the base after the last one.                           *)
SubtractFrom(ms, cursor, be) ==
    IF ms = <<>>
    THEN IF be > cursor THEN <<[s |-> cursor, e |-> be]>> ELSE <<>>
    ELSE LET m == Head(ms) IN
         (IF m.s > cursor THEN <<[s |-> cursor, e |-> m.s]>> ELSE <<>>)
         \o SubtractFrom(Tail(ms), IntervalMax(m.e, cursor), be)

SubtractBlocks(bs, be, blocks) ==
    IF be <= bs THEN <<>>
    ELSE LET b == ClipBlocks(bs, be, blocks) IN
         IF b = <<>> THEN <<[s |-> bs, e |-> be]>>
         ELSE SubtractFrom(MergeFrom(<<>>, SortIntervals(b)), bs, be)

-----------------------------------------------------------------------------
(* business-service's schedule writes, in 15-minute units (a day is 96).   *)

NoWorkingHours == [working |-> FALSE, start |-> 0, end |-> 0, stored |-> FALSE]

(* The repository's UPSERT of staff_working_hours (ON CONFLICT (staff_id, *)
(* weekday) DO UPDATE).                                                    *)
RepoUpsertWorkingHours(isWorking, startMin, endMin) ==
    [working |-> isWorking, start |-> startMin, end |-> endMin, stored |-> TRUE]

(* UpsertWorkingHours (handler): a day off is stored as 0..0; a working    *)
(* day needs 0 <= start < end <= 96, else 400 and no write.                *)
UpsertWorkingHours(row, isWorking, startMin, endMin) ==
    IF ~isWorking THEN RepoUpsertWorkingHours(FALSE, 0, 0)
    ELSE IF startMin < 0 \/ startMin >= 96 \/ endMin <= 0 \/ endMin > 96
            \/ startMin >= endMin
         THEN row
         ELSE RepoUpsertWorkingHours(TRUE, startMin, endMin)

(* GetWorkingHours: the stored row, or without one the default schedule:   *)
(* Monday to Friday (weekday 1..5), 540 to 1020 minutes (units 36..68).    *)
GetWorkingHours(row, weekday) ==
    IF row.stored THEN row
    ELSE [working |-> weekday \in 1..5, start |-> 36, end |-> 68, stored |-> FALSE]

(* GetAvailabilityConfig's GetWorkingHours read: the row, or the default *)
(* when there is none; a failed read makes the day not working.            *)
ReadWorkingHours(row, weekday, ok) ==
    IF ok THEN GetWorkingHours(row, weekday)
    ELSE [working |-> FALSE, start |-> 0, end |-> 0, stored |-> FALSE]

(* The repository's INSERT INTO staff_time_off; it fails with 23P01 when   *)
(* the row overlaps one of the staff member's rows.                        *)
RepoCreateTimeOff(rows, t) ==
    IF \E i \in 1..Len(rows) : rows[i].s < t.e /\ t.s < rows[i].e
    THEN rows
    ELSE Append(rows, t)

(* CreateTimeOff (handler): 400 unless the end is after the start; the     *)
(* repository's 23P01 is answered 409.                                     *)
CreateTimeOff(rows, t) == IF t.e <= t.s THEN rows ELSE RepoCreateTimeOff(rows, t)

-----------------------------------------------------------------------------
(* GetAvailabilityConfig after the working-hours read wh: not working     *)
(* when wh says so or its end is not after its start; otherwise the        *)
(* back-compat full working-hours window, and, when ListTimeOff succeeded  *)
(* (listed), the windows its rows leave; when it failed, no windows.       *)
GetAvailabilityConfig(wh, rows, listed) ==
    IF ~wh.working \/ wh.end <= wh.start
    THEN [working |-> FALSE, work |-> <<>>, windows |-> <<>>]
    ELSE [working |-> TRUE, work |-> <<[s |-> wh.start, e |-> wh.end]>>,
          windows |-> IF listed
                      THEN SubtractBlocks(wh.start, wh.end, ListTimeOff(rows, wh.start, wh.end))
                      ELSE <<>>]

(* windowsFromConfig: the explicit windows with end after start when there *)
(* are any, else the single working-hours window.                          *)
WindowsFromConfig(cfg) ==
    IF cfg.windows # <<>>
    THEN SelectSeq(cfg.windows, LAMBDA w : w.e > w.s)
    ELSE SelectSeq(cfg.work, LAMBDA w : w.e > w.s)

(* resolveAvailabilityWindows, business-service path: nothing when not     *)
(* working, else the windows of the config as windowsFromConfig reads them *)
(* (an explicit list whose windows are all empty also yields nothing).     *)
ResolveAvailabilityWindows(cfg) ==
    IF ~cfg.working THEN <<>> ELSE WindowsFromConfig(cfg)
====
