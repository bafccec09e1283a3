----------------------------- MODULE MCClocklog -----------------------------
(***************************************************************************)
(* A receiver that is started in mid-week or two seconds before its end,   *)
(* and that may correct its time of week, also to that of such a start.    *)
(***************************************************************************)
EXTENDS Clocklog

MCStarts == {301000500, WeekMs - 2 * Second}
MCWeekEnd == {WeekMs - 2 * Second}
MCNoReset == {}
MCCorrections == {100, WeekMs - 2 * Second}
MCFixTypes == {0, 3}
=============================================================================
