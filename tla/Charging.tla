--------------------------------- MODULE Charging ---------------------------------
(***************************************************************************)
(* The charge window between a client and the car: client.py's get_status,    *)
(* charge_now, restart_charging, resume_schedule and set_charge_window, which   *)
(* build their operations with ChargeWindow, while the car changes its window    *)
(* by itself and the app changes it too.  A command is accepted, and applied     *)
(* by the car some time later or never.  The car is external: its reports and    *)
(* what it keeps of an operation are those vehicle.py and models.py describe.   *)
(***************************************************************************)
EXTENDS ChargeWindow

CONSTANTS
    Asked,              \* windows a caller asks for: from, to, days, end
    AppWindows,         \* windows the app sets
    Start, MaxTime,     \* the half minutes a behaviour starts at and ends at
    MaxOrders, MaxApp   \* bounds: commands sent, changes by the app

ASSUME ChargingAssumption ==
    /\ \A w \in Asked \cup AppWindows :
          w.from \in Clock /\ w.to \in Clock /\ w.days \subseteq 0..(Week - 1) /\ w.end \in {"time", "limit"}
    /\ Start \in Nat /\ Start >= 6 * Day    \* so that no stamp reads as a time of the day
    /\ {MaxTime, MaxOrders, MaxApp} \subseteq Nat /\ Start <= MaxTime

VARIABLES
    now,
    car,        \* the car's mode and window; form is how it reports the window
    cached,     \* the client's _charge_windows entry
    order,      \* the command on its way to the car, and what it was built from
    saw,        \* the last usable window read, as the car had it: read by properties only
    status,     \* the clocks of the last status read, and of the car at that time
    left        \* commands and changes by the app still allowed

vars == <<now, car, cached, order, saw, status, left>>

NoOrder == [kind |-> "none"]
Unset == [form |-> "unset"]

Init ==
    /\ now = Start
    /\ car = [mode |-> "free", end |-> "time", window |-> Unset]
    /\ cached = NoWindow /\ order = NoOrder /\ saw = NoWindow
    /\ status = [shown |-> <<None, None>>, real |-> <<None, None>>]
    /\ left = [orders |-> MaxOrders, app |-> MaxApp]
---------------------------------------------------------------------------------
(* The car *)

TrueClocks(w) ==
    IF w.form = "unset" THEN <<None, None>> ELSE <<w.start % Day, w.stop % Day>>

\* What the car reports of its window; a dated window's calendar fields, and the usable times of
\* any, may be missing.
Report(fields, usable) ==
    LET w == car.window
        times == CASE w.form \in {"unset", "undated"} -> <<0, 0>>
                   [] w.form = "day" -> <<w.start, StopOn(0, w.start, w.stop)>>
                   [] OTHER -> <<w.start - Offset, w.stop - Offset>>
    IN  [usable |-> usable, mode |-> car.mode, end |-> car.end, times |-> times,
         dated |-> w.form = "dated" /\ fields,
         clocks |-> IF w.form = "unset" THEN <<0, 1>> ELSE TrueClocks(w),
         days |-> IF w.form = "day" THEN w.days ELSE {}]

\* What the car makes of an operation: a stop left out is the saved one.
Applied(op) ==
    LET saved == IF car.window.form = "unset" THEN op.start % Day ELSE car.window.stop % Day
        stop == IF op.stop # None THEN op.stop ELSE StopOn(op.start \div Day, op.start % Day, saved)
    IN  CASE op.mode = "free" -> {[car EXCEPT !.mode = "free"]}
          [] op.mode = "raw" ->     \* one-time operations without dates are refused
                 {IF op.as = "loop" THEN [car EXCEPT !.mode = "loop", !.end = op.end] ELSE car}
          [] op.mode = "loop" ->
                 {[mode |-> "loop", end |-> op.end,
                   window |-> [form |-> "day", start |-> op.from, days |-> op.days,
                               stop |-> IF op.to # None THEN op.to % Day
                                        ELSE IF car.window.form = "unset" THEN op.from
                                        ELSE car.window.stop % Day]]}
          [] OTHER ->      \* undated if it was set while the car was charging
                 {[mode |-> "once", end |-> op.end,
                   window |-> [form |-> "dated", start |-> op.start, stop |-> stop]],
                  [mode |-> "once", end |-> op.end,
                   window |-> [form |-> "undated", start |-> op.start % Day, stop |-> stop % Day]]}

Receive ==
    /\ order # NoOrder
    /\ car' \in Applied(order.op)
    /\ order' = NoOrder
    /\ UNCHANGED <<now, cached, saw, status, left>>

\* Refused, or lost on its way.
Drop ==
    /\ order # NoOrder
    /\ order' = NoOrder
    /\ UNCHANGED <<now, car, cached, saw, status, left>>

\* A one-time window is over: "Charging time is not set".
WindowEnds ==
    /\ car.mode = "once" /\ car.window.form = "dated" /\ now >= 2 * car.window.stop
    /\ car' = [car EXCEPT !.window = Unset]
    /\ UNCHANGED <<now, cached, order, saw, status, left>>

\* The app sets a window, or switches the schedule off.
AppChanges ==
    /\ left.app > 0
    /\ \/ \E w \in AppWindows :
             LET op == Build(w.from, w.to, w.days, w.end, now, TRUE)
             IN  op # Refused /\ car' \in Applied(op)
       \/ car' \in Applied(Free)
    /\ left' = [left EXCEPT !.app = @ - 1]
    /\ UNCHANGED <<now, cached, order, saw, status>>

Tick ==
    /\ now < MaxTime
    /\ now' = now + 1
    /\ UNCHANGED <<car, cached, order, saw, status, left>>
---------------------------------------------------------------------------------
(* The client *)

\* get_status: free now; remember how it was scheduled.
Recalled(w) ==
    IF w.mode = "unsaid" /\ cached # NoWindow THEN [w EXCEPT !.mode = cached.mode] ELSE w

\* A status is read: a report without a usable window keeps the cached one.  A report whose charge
\* part is missing or has no usable times shows the clocks of dated calendar fields at most.  (A
\* read that is refused, or answered without a report, raises before anything is changed.)
ReadStatus(fields, usable) ==
    LET r == Report(fields, usable)
        w == Window(r)
        clocks == TrueClocks(car.window)
        ambiguous == car.window.form = "undated" /\ clocks[1] <= 1 /\ clocks[2] <= 1
        told == usable /\ car.window.form # "unset" /\ ~ambiguous
    IN  /\ cached' = IF w = NoWindow THEN cached ELSE Recalled(w)
        /\ status' = [shown |-> ShownClocks(r), real |-> IF told \/ r.dated THEN clocks ELSE <<None, None>>]
        /\ saw' = IF ~told THEN saw
                  ELSE [clocks |-> clocks, end |-> car.end, days |-> r.days,
                        mode |-> IF car.mode # "free" THEN car.mode
                                 ELSE IF saw = NoWindow THEN "unsaid" ELSE saw.mode]
        /\ UNCHANGED <<now, car, order, left>>

Send(kind, op, asked) ==
    /\ order = NoOrder /\ left.orders > 0 /\ op # Refused
    /\ order' = [kind |-> kind, op |-> op, asked |-> asked, built |-> now]
    /\ left' = [left EXCEPT !.orders = @ - 1]
    /\ UNCHANGED <<now, car, cached, saw, status>>

SetChargeWindow(w) ==
    Send("set", Build(w.from, w.to, w.days, w.end, now, w.end = "time"),
         [clocks |-> <<w.from, w.to>>, days |-> w.days, end |-> w.end])

\* resume_schedule: the last reported mode and stopping rule, unless asked otherwise.
ResumeSchedule(end) ==
    LET mode == IF cached.mode = "unsaid" THEN "loop" ELSE cached.mode
    IN  /\ cached # NoWindow
        /\ Send("resume", Preserved(cached, mode, IF end = "kept" THEN cached.end ELSE end, now),
                [clocks |-> saw.clocks, days |-> IF saw.mode = "once" THEN {} ELSE saw.days,
                 end |-> IF end = "kept" THEN saw.end ELSE end])

ChargeNow == Send("free", Free, NoWindow)

RestartCharging == Send("restart", Restarted(now), NoWindow)

Next ==
    \/ Receive \/ Drop \/ WindowEnds \/ AppChanges \/ Tick
    \/ \E fields, usable \in BOOLEAN : ReadStatus(fields, usable)
    \/ \E w \in Asked : SetChargeWindow(w)
    \/ \E end \in {"kept", "time", "limit"} : ResumeSchedule(end)
    \/ ChargeNow \/ RestartCharging

Spec == Init /\ [][Next]_vars
---------------------------------------------------------------------------------
\* Every part of the state has its type.
TypeOK ==
    /\ now \in Start..MaxTime
    /\ car.mode \in {"free", "once", "loop"} /\ car.end \in {"time", "limit"}
    /\ car.window.form \in {"unset", "day", "dated", "undated"}
    /\ cached.mode \in {"nothing", "unsaid", "once", "loop"}
    /\ order.kind \in {"none", "set", "resume", "free", "restart"}
    /\ saw.mode \in {"nothing", "unsaid", "once", "loop"}
    /\ left.orders \in 0..MaxOrders /\ left.app \in 0..MaxApp

\* The orders that schedule a window by its clocks.
Windowed == order.kind \in {"set", "resume"} /\ order.op.mode # "raw"

\* An order is dated for the window open when it was built, or else the next one to start, on a
\* selected day if any: no earlier start qualifies.  Without a stop time only a start still ahead
\* counts, save for a repeating window resumed (_next_window, called by _build).
NextOccurrence ==
    Windowed =>
        LET s == order.asked.clocks[1]  e == order.asked.clocks[2]  days == order.asked.days
            ahead == order.asked.end = "limit" /\ (days = {} \/ order.kind = "set")
            stop(m) == StopOn(m \div Day, s, e)
            qualifies(m) == /\ m % Day = s /\ (days # {} => (m \div Day) % Week \in days)
                            /\ 2 * (IF ahead THEN m ELSE stop(m)) > order.built
            first == CHOOSE m \in 0..(MaxTime + Day * (Week + 2)) :
                         qualifies(m) /\ \A n \in 0..(m - 1) : ~qualifies(n)
        IN  IF order.op.mode = "once" /\ order.op.stop # None
            THEN order.op.stop = stop(first) /\ order.op.start >= first
            ELSE order.op.start = first

\* The car never starts a one-time window whose start has passed: one sent with a stop time, or to
\* restart a charge, still has its start ahead if the car gets it within half a minute, and
\* ends after it starts (_next_minute, _build).
StartsInTime ==
    order.kind # "none" /\ order.op.mode = "once" /\ (order.op.stop # None \/ order.kind = "restart") =>
        /\ now <= order.built + 1 => now < 2 * order.op.start
        /\ order.op.stop # None => order.op.start < order.op.stop

\* A resumed schedule has the clocks, the days, the mode and the stopping rule of the last usable
\* window read, whichever of its forms the car reported it in, and however often it was read
\* while the schedule was off (get_status, reported_window, preserved_operation).
ResumeFaithful ==
    order.kind = "resume" /\ Windowed =>
        LET op == order.op  a == order.asked
        IN  /\ op.end = a.end
            /\ op.mode = IF a.days = {} THEN "once" ELSE "loop"
            /\ op.mode = "loop" => /\ op.days = a.days /\ op.from = a.clocks[1]
                                   /\ op.end = "time" => op.to % Day = a.clocks[2]
            /\ op.mode = "once" => IF op.end = "time" THEN op.stop % Day = a.clocks[2]
                                   ELSE op.start % Day = a.clocks[1]

\* The status shows the clocks the car has, as far as its report tells them, and the cached window
\* keeps those last told: models.py and vehicle.py, which read a report each in its own way, agree
\* (from_results, _window_clock).
ClocksAgree ==
    /\ status.shown = status.real
    /\ (cached = NoWindow) = (saw = NoWindow)
    /\ cached # NoWindow => WindowClock(cached) = saw.clocks /\ cached.mode = saw.mode
=================================================================================
