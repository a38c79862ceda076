------------------------------- MODULE ChargeWindow -------------------------------
(***************************************************************************)
(* The pure part of vehicle.py, and models.py's reading of the same reports:  *)
(* what is sent for a charge window, and what a reported one means.           *)
(*                                                                          *)
(* Time is car-local.  A minute is a number counted from a day 0 that was the  *)
(* first day of a week, so it stands for a dated calendar field; a clock is a   *)
(* minute of the day.  Now is counted in half minutes: the code's margin is     *)
(* 30 seconds.  Changes of the zone's offset are left out.                    *)
(***************************************************************************)
EXTENDS Integers

CONSTANTS
    Day, Week,      \* minutes of a day, days of a week
    Offset          \* SERVICE_CLOCK's offset from UTC, in minutes

ASSUME WindowAssumption ==
    /\ Day \in Nat \ {0, 1, 2} /\ Week \in Nat \ {0}
    /\ Offset \in 0..(Day - 1)

None == -1
Clock == 0..(Day - 1)
Later(a, b) == IF a >= b THEN a ELSE b
---------------------------------------------------------------------------------
(* What is sent *)

StartOn(day, s) == day * Day + s

\* A stop at or before the start is the next day's.
StopOn(day, s, e) == day * Day + (IF e <= s THEN e + Day ELSE e)

\* Mutant of FirstDay: a window still open from yesterday is overlooked.
FirstToday(now) == now \div (2 * Day)

\* The first day whose window is looked at: yesterday's may still be open.
FirstDay(now) == now \div (2 * Day) - 1

\* _next_window: the day of the window open now, else of the next one to start.
NextDay(s, e, days, now, openNow) ==
    LET fits(d) == /\ days = {} \/ d % Week \in days
                   /\ now < 2 * (IF openNow THEN StopOn(d, s, e) ELSE StartOn(d, s))
        from[d \in Nat] == IF fits(d) THEN d ELSE from[d + 1]
    IN  from[FirstDay(now)]

\* Mutant of NextMinute: the next whole minute, however near.
NextMinuteAtOnce(now) == (now + 2) \div 2

\* _next_minute: the next whole minute at least 30 s ahead.
NextMinute(now) == (now + 3) \div 2

\* A reservation; raw ones resend the reported fields as they are.
Refused == [mode |-> "refused"]
Once(end, start, stop) == [mode |-> "once", end |-> end, start |-> start, stop |-> stop]
Loop(end, days, from, to, start) ==
    [mode |-> "loop", end |-> end, days |-> days, from |-> from,
     to |-> IF end = "limit" THEN None ELSE to, start |-> start]

\* _build: one time to the limit, one time to a stop time, or selected days.
Build(s, e, days, end, now, openNow) ==
    LET day == NextDay(s, e, days, now, openNow /\ (days # {} \/ end = "time"))
        soon == Later(StartOn(day, s), NextMinute(now))
    IN  IF days # {} THEN Loop(end, days, s, StopOn(0, s, e), StartOn(day, s))
        ELSE IF end = "limit" THEN Once(end, StartOn(day, s), None)
        ELSE IF soon < StopOn(day, s, e) THEN Once(end, soon, StopOn(day, s, e)) ELSE Refused

\* restart_operation
Restarted(now) == Once("limit", NextMinute(now), None)

\* charge_now_operation: the mode alone.
Free == [mode |-> "free"]
---------------------------------------------------------------------------------
(* What is reported: the two daily times (of the day, or UTC minutes) and whether they are there
   and usable, the clocks of the two calendar fields and whether these are dated, and the mode,
   days and end. *)

TimeOfDay(time) == time < 2 * Day

\* undated_window: both times 0 and undated fields that are not the "not set" placeholder's.
Undated(r) == r.times = <<0, 0>> /\ ~r.dated /\ (r.clocks[1] > 1 \/ r.clocks[2] > 1)

\* _window_not_set
NotSet(r) == r.times = <<0, 0>> /\ ~r.dated /\ ~Undated(r)

\* VehicleStatus.from_results: the clocks a status shows, None for a window that is not set.
ShownClocks(r) ==
    LET shown(i) == IF r.dated \/ Undated(r) THEN r.clocks[i]
                    ELSE IF TimeOfDay(r.times[i]) THEN r.times[i] % Day
                    ELSE (r.times[i] + Offset) % Day
    IN  IF NotSet(r) \/ (~r.usable /\ ~r.dated) THEN <<None, None>> ELSE <<shown(1), shown(2)>>

NoWindow == [mode |-> "nothing"]

\* Mutant of Window: the mode is kept whichever it is.
WindowAnyMode(r) ==
    IF ~r.usable \/ NotSet(r) THEN NoWindow
    ELSE [mode |-> r.mode, days |-> r.days, end |-> r.end,
          clocks |-> r.clocks, dated |-> r.dated,
          times |-> IF Undated(r) THEN <<r.clocks[1], StopOn(0, r.clocks[1], r.clocks[2])>>
                    ELSE r.times]

\* reported_window: what is kept of a report to schedule it again; an unsaid mode is recalled.
Window(r) ==
    IF ~r.usable \/ NotSet(r) THEN NoWindow
    ELSE [mode |-> IF r.mode = "free" THEN "unsaid" ELSE r.mode, days |-> r.days, end |-> r.end,
          clocks |-> r.clocks, dated |-> r.dated,
          times |-> IF Undated(r) THEN <<r.clocks[1], StopOn(0, r.clocks[1], r.clocks[2])>>
                    ELSE r.times]

\* Mutant of WindowClock: a stop past midnight is not a time of the day.
WindowClockOneDay(w) ==
    IF w.times[1] < Day /\ w.times[2] < Day THEN w.times
    ELSE IF w.dated THEN w.clocks
    ELSE <<(w.times[1] + Offset) % Day, (w.times[2] + Offset) % Day>>

\* _window_clock
WindowClock(w) ==
    IF w.times[1] < Day /\ TimeOfDay(w.times[2]) THEN <<w.times[1], w.times[2] % Day>>
    ELSE IF w.dated THEN w.clocks
    ELSE <<(w.times[1] + Offset) % Day, (w.times[2] + Offset) % Day>>

\* Mutant of Preserved: the reported days are kept for a one-time window too.
PreservedDays(w, mode, end, now) ==
    LET clock == WindowClock(w)
    IN  IF clock[1] = clock[2] THEN [mode |-> "raw", as |-> mode, end |-> end]
        ELSE Build(clock[1], clock[2], w.days, end, now, TRUE)

\* preserved_operation: scheduled again, in the mode recalled, stopping as asked.
Preserved(w, mode, end, now) ==
    LET clock == WindowClock(w)
    IN  IF clock[1] = clock[2] THEN [mode |-> "raw", as |-> mode, end |-> end]
        ELSE Build(clock[1], clock[2], IF mode = "once" THEN {} ELSE w.days, end, now, TRUE)
=================================================================================
