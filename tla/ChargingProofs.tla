------------------------------ MODULE ChargingProofs ------------------------------
(***************************************************************************)
(* The charge window, for any length of a day and of a week, any offset of    *)
(* the service's clock, any windows asked for and any number of orders.       *)
(*                                                                          *)
(* _next_window looks at one day after the other: the first part shows that    *)
(* this search ends, and at the first day that fits.  The second shows what     *)
(* _build makes of that day, and the third that the client remembers of a       *)
(* report what the car meant by it, in whichever of its forms it came.          *)
(***************************************************************************)
EXTENDS Charging, FiniteSetTheorems, TLAPS

\* Some number of a set of numbers is the least.
LEMMA LeastNumber ==
    ASSUME NEW S \in SUBSET Nat, S # {}
    PROVE  \E n \in S : \A m \in S : n <= m
<1> DEFINE Below == {0..n : n \in S}
<1>1. Below \subseteq FiniteSubsetsOf(Nat) /\ Below # {}
    <2>1. \A n \in Nat : 0..n \in SUBSET Nat /\ IsFiniteSet(0..n)
        BY FS_Interval
    <2> QED
        BY <2>1 DEF FiniteSubsetsOf
<1>2. PICK x \in Below : \A y \in Below : <<y, x>> \notin StrictSubsetOrdering(Nat)
    BY <1>1, WFMin, FS_StrictSubsetOrderingWellFounded
<1>3. PICK n \in S : x = 0..n
    BY <1>2
<1>4. ASSUME NEW m \in S, m < n PROVE FALSE
    <2>1. 0..m \in SUBSET Nat /\ 0..n \in SUBSET Nat /\ 0..m \subseteq 0..n /\ 0..m # 0..n
        BY <1>4
    <2>2. <<0..m, 0..n>> \in StrictSubsetOrdering(Nat)
        BY <2>1 DEF StrictSubsetOrdering
    <2> QED
        BY <2>2, <1>2, <1>3
<1> QED
    BY <1>4

\* A search upwards through the numbers, as _next_window's loop over the days.
Search(S, f) == f = [d \in Nat |-> IF d \in S THEN d ELSE f[d + 1]]

\* There is such a search, whatever it looks for.
LEMMA SearchExists ==
    ASSUME NEW S \in SUBSET Nat
    PROVE  \E f : Search(S, f)
<1> DEFINE From(d) == {m \in S : m >= d}
           Least(d) == CHOOSE n \in From(d) : \A m \in From(d) : n <= m
           f == [d \in Nat |-> IF From(d) # {} THEN Least(d) ELSE 0]
<1>1. ASSUME NEW d \in Nat, d \in S PROVE Least(d) = d
    <2>1. d \in From(d) /\ \A m \in From(d) : d <= m
        BY <1>1
    <2>2. Least(d) \in From(d) /\ \A m \in From(d) : Least(d) <= m
        BY <2>1
    <2> QED
        BY <2>1, <2>2
<1>2. ASSUME NEW d \in Nat, d \notin S PROVE From(d) = From(d + 1)
    <2>1. \A m \in S : m >= d <=> m >= d + 1
        BY <1>2
    <2> QED
        BY <2>1
<1>3. \A d \in Nat : f[d] = IF d \in S THEN d ELSE f[d + 1]
    <2> SUFFICES ASSUME NEW d \in Nat PROVE f[d] = IF d \in S THEN d ELSE f[d + 1]
        OBVIOUS
    <2>1. CASE d \in S
        <3>1. From(d) # {}
            BY <2>1
        <3> QED
            BY <2>1, <3>1, <1>1
    <2>2. CASE d \notin S
        <3>1. From(d) = From(d + 1)
            BY <2>2, <1>2
        <3>2. Least(d) = Least(d + 1)
            BY <3>1
        <3> HIDE DEF From, Least
        <3> QED
            BY <2>2, <3>1, <3>2
    <2> QED
        BY <2>1, <2>2
<1>4. f = [d \in Nat |-> f[d]]
    OBVIOUS
<1> HIDE DEF f
<1>5. Search(S, f)
    BY <1>3, <1>4 DEF Search
<1> QED
    BY <1>5

\* A search that can succeed ends at the first number it looks for.
LEMMA SearchFinds ==
    ASSUME NEW S \in SUBSET Nat, NEW f, Search(S, f), NEW k \in Nat, NEW n \in S, k <= n
    PROVE  f[k] \in S /\ k <= f[k] /\ \A m \in S : k <= m => f[k] <= m
<1> DEFINE From == {m \in S : k <= m}
<1>1. PICK w \in From : \A m \in From : w <= m
    <2>1. From \in SUBSET Nat /\ From # {}
        OBVIOUS
    <2> HIDE DEF From
    <2> QED
        BY <2>1, LeastNumber
<1>2. \A j \in Nat : f[j] = IF j \in S THEN j ELSE f[j + 1]
    BY DEF Search
<1> DEFINE Wrong == {i \in 0..(w - k) : f[w - i] # w}
<1>3. Wrong = {}
    <2> SUFFICES ASSUME Wrong # {} PROVE FALSE
        OBVIOUS
    <2>1. PICK i \in Wrong : \A j \in Wrong : i <= j
        <3>1. Wrong \in SUBSET Nat
            OBVIOUS
        <3> HIDE DEF Wrong
        <3> QED
            BY <3>1, LeastNumber
    <2>2. i # 0
        BY <1>1, <1>2
    <2>3. w - i \in Nat /\ w - i \notin S
        BY <1>1, <2>2
    <2>4. i - 1 \in 0..(w - k) /\ i - 1 \notin Wrong
        BY <2>1, <2>2
    <2>5. f[w - (i - 1)] = w
        BY <2>4
    <2>6. (w - i) + 1 = w - (i - 1)
        BY <1>1
    <2> QED
        BY <1>2, <2>1, <2>3, <2>5, <2>6
<1>4. f[k] = w
    <2>1. w - k \in 0..(w - k) /\ w - (w - k) = k
        BY <1>1
    <2> QED
        BY <1>3, <2>1
<1> QED
    BY <1>1, <1>4
-----------------------------------------------------------------------------------
(* The day of a window, and what is built of it *)

\* A day fits if it is selected and its window is still open, or still ahead (_next_window).
Fits(s, e, days, t, openNow) ==
    {d \in Nat : /\ days = {} \/ d % Week \in days
                 /\ t < 2 * (IF openNow THEN StopOn(d, s, e) ELSE StartOn(d, s))}

\* A minute is so many days and a clock.
LEMMA MinuteOfDay ==
    ASSUME NEW d \in Int, NEW c \in Clock
    PROVE  (d * Day + c) \div Day = d /\ (d * Day + c) % Day = c
BY WindowAssumption DEF Clock

\* The day of a moment, counted in half minutes.
LEMMA Today ==
    ASSUME NEW t \in Nat
    PROVE  /\ t \div (2 * Day) \in Nat
           /\ 2 * ((t \div (2 * Day)) * Day) <= t
           /\ t < 2 * ((t \div (2 * Day)) * Day + Day)
<1> DEFINE both == 2 * Day
           d == t \div both
<1>1. both \in Nat \ {0} /\ Day \in Nat
    BY WindowAssumption
<1> HIDE DEF both
<1>2. t = d * both + (t % both) /\ t % both \in 0..(both - 1) /\ d \in Nat
    BY <1>1
<1> HIDE DEF d
<1>3. d * both = 2 * (d * Day) /\ d * Day \in Nat
    BY <1>1, <1>2 DEF both
<1>4. 2 * (d * Day) <= t /\ t < 2 * (d * Day + Day)
    BY <1>1, <1>2, <1>3 DEF both
<1> QED
    BY <1>2, <1>4 DEF both, d

\* A later day starts at least a day later.
LEMMA DaysApart ==
    ASSUME NEW d \in Int, NEW n \in Int, d < n
    PROVE  d * Day + Day <= n * Day
<1> DEFINE k == n - d - 1
<1>1. k \in Nat /\ n = d + 1 + k
    OBVIOUS
<1> HIDE DEF k
<1>2. Day \in Nat
    BY WindowAssumption
<1>3. k * Day \in Nat
    BY <1>1, <1>2
<1>4. (d + 1 + k) * Day = d * Day + Day + k * Day
    BY <1>1, <1>2
<1>5. d * Day \in Int
    BY <1>2
<1> QED
    BY <1>1, <1>2, <1>3, <1>4, <1>5

\* The first of a week's days that is one of days comes within a week.
LEMMA WithinWeek ==
    ASSUME NEW today \in Nat, NEW w \in 0..(Week - 1)
    PROVE  \E d \in (today + 1)..(today + Week) : d % Week = w
<1>1. Week \in Nat \ {0}
    BY WindowAssumption
<1> DEFINE r == today % Week
           q == today \div Week
<1>2. r \in 0..(Week - 1) /\ q \in Nat /\ today = q * Week + r
    BY <1>1
<1> HIDE DEF r, q
<1>3. CASE w > r
    <2>1. q * Week + w \in (today + 1)..(today + Week) /\ (q * Week + w) % Week = w
        BY <1>1, <1>2, <1>3
    <2> QED
        BY <2>1
<1>4. CASE w <= r
    <2>1. (q + 1) * Week + w \in (today + 1)..(today + Week)
        BY <1>1, <1>2, <1>4
    <2>2. ((q + 1) * Week + w) % Week = w
        BY <1>1, <1>2
    <2> QED
        BY <2>1, <2>2
<1> QED
    BY <1>2, <1>3, <1>4

\* _next_window finds the first day of all that fits, and within a week of the next midnight.
LEMMA NextDayFirst ==
    ASSUME NEW s \in Clock, NEW e \in Clock, NEW days \in SUBSET (0..(Week - 1)),
           NEW t \in Nat, t >= 6 * Day, NEW openNow \in BOOLEAN
    PROVE  LET d == NextDay(s, e, days, t, openNow)
           IN  /\ d \in Fits(s, e, days, t, openNow)
               /\ d <= t \div (2 * Day) + Week
               /\ \A n \in Fits(s, e, days, t, openNow) : d <= n
<1> DEFINE S == Fits(s, e, days, t, openNow)
           today == t \div (2 * Day)
           first == FirstDay(t)
<1>1. today \in Nat /\ 2 * (today * Day) <= t /\ t < 2 * (today * Day + Day)
    BY Today
<1>2. first \in Nat /\ first = today - 1
    <2>1. today # 0
        BY <1>1, WindowAssumption
    <2> QED
        BY <1>1, <2>1 DEF FirstDay
<1>3. S \in SUBSET Nat
    BY DEF Fits
<1>4. PICK n \in S : first <= n /\ n <= today + Week
    <2>1. PICK d \in (today + 1)..(today + Week) : days = {} \/ d % Week \in days
        <3>1. CASE days = {}
            BY <1>1, <3>1, WindowAssumption
        <3>2. CASE days # {}
            BY <1>1, <3>2, WithinWeek
        <3> QED
            BY <3>1, <3>2
    <2>2. d \in Nat /\ today * Day + Day <= d * Day
        BY <1>1, <2>1, DaysApart
    <2>3. d \in S
        BY <1>1, <2>1, <2>2, WindowAssumption DEF Fits, StopOn, StartOn, Clock
    <2> QED
        BY <1>1, <1>2, <2>1, <2>3
<1>5. NextDay(s, e, days, t, openNow) = (CHOOSE f : Search(S, f))[first]
    <2> DEFINE f == CHOOSE f : f = [d \in Nat |->
                        IF /\ days = {} \/ d % Week \in days
                           /\ t < 2 * (IF openNow THEN StopOn(d, s, e) ELSE StartOn(d, s))
                        THEN d ELSE f[d + 1]]
    <2>1. NextDay(s, e, days, t, openNow) = f[first]
        BY DEF NextDay
    <2>2. \A g : Search(S, g) <=> g = [d \in Nat |->
                        IF /\ days = {} \/ d % Week \in days
                           /\ t < 2 * (IF openNow THEN StopOn(d, s, e) ELSE StartOn(d, s))
                        THEN d ELSE g[d + 1]]
        BY DEF Search, Fits
    <2> QED
        BY <2>1, <2>2
<1> DEFINE f == CHOOSE f : Search(S, f)
<1>6. Search(S, f)
    BY <1>3, SearchExists
<1> HIDE DEF S, today, first, f
<1>7. f[first] \in S /\ first <= f[first] /\ \A m \in S : first <= m => f[first] <= m
    BY <1>2, <1>3, <1>4, <1>6, SearchFinds
<1>8. \A m \in S : first <= m
    <2> SUFFICES ASSUME NEW m \in S, m < first PROVE FALSE
        BY <1>2, <1>3
    <2>1. m * Day + Day <= first * Day /\ first * Day + Day <= today * Day
        BY <1>1, <1>2, <1>3, DaysApart
    <2>2. t < 2 * (m * Day + 2 * Day)
        BY <1>3, WindowAssumption DEF S, Fits, StopOn, StartOn, Clock
    <2> QED
        BY <1>1, <1>2, <1>3, <2>1, <2>2, WindowAssumption
<1>9. f[first] <= n
    BY <1>4, <1>7
<1> QED
    BY <1>1, <1>3, <1>4, <1>5, <1>7, <1>8, <1>9, WindowAssumption DEF S, today, first, f
-----------------------------------------------------------------------------------
(* What the car reports, and what the client makes of it *)

Days == SUBSET (0..(Week - 1))

\* The windows a car can have: on days of the week, dated, or set while it was charging.
CarFits ==
    /\ DOMAIN car = {"mode", "end", "window"}
    /\ car.mode \in {"free", "once", "loop"} /\ car.end \in {"time", "limit"}
    /\ \/ car.window = Unset
       \/ /\ car.window.form = "day" /\ car.window.days \in Days
          /\ car.window.start \in Clock /\ car.window.stop \in Clock
       \/ /\ car.window.form = "dated"
          /\ car.window.start \in Nat /\ car.window.stop \in Nat
          /\ car.window.start >= 3 * Day /\ car.window.start <= car.window.stop
       \/ /\ car.window.form = "undated"
          /\ car.window.start \in Clock /\ car.window.stop \in Clock

\* Nobody can tell the window set while the car was charging from one that is not set, if both of
\* its clocks are among the first minutes of the day (undated_window).
Ambiguous ==
    car.window.form = "undated" /\ TrueClocks(car.window)[1] <= 1 /\ TrueClocks(car.window)[2] <= 1

\* A clock is itself whichever whole days are added.
LEMMA ClockOf ==
    /\ \A c \in Clock : c % Day = c /\ (c + Day) % Day = c
    /\ \A m \in Int : m % Day \in Clock /\ ((m - Offset) + Offset) % Day = m % Day
<1>1. \A c \in Clock : c % Day = c /\ (c + Day) % Day = c
    <2> SUFFICES ASSUME NEW c \in Clock PROVE c % Day = c /\ (c + Day) % Day = c
        OBVIOUS
    <2>1. (0 * Day + c) % Day = c /\ (1 * Day + c) % Day = c
        BY MinuteOfDay
    <2>2. 0 * Day + c = c /\ 1 * Day + c = c + Day
        BY WindowAssumption DEF Clock
    <2> QED
        BY <2>1, <2>2
<1>2. \A m \in Int : m % Day \in Clock
    BY WindowAssumption DEF Clock
<1>3. \A m \in Int : (m - Offset) + Offset = m
    BY WindowAssumption
<1> QED
    BY <1>1, <1>2, <1>3

\* The end of a window within two days is a time of the day, and has the clock of its stop.
LEMMA StopClock ==
    ASSUME NEW s \in Clock, NEW e \in Clock
    PROVE  /\ StopOn(0, s, e) \in 1..(2 * Day - 1) /\ s < StopOn(0, s, e)
           /\ StopOn(0, s, e) % Day = e
<1>1. /\ Day \in Nat /\ s \in 0..(Day - 1) /\ e \in 0..(Day - 1)
      /\ 0 * Day = 0
    BY WindowAssumption DEF Clock
<1>2. StopOn(0, s, e) = IF e <= s THEN e + Day ELSE e
    BY <1>1 DEF StopOn
<1>3. StopOn(0, s, e) \in 1..(2 * Day - 1) /\ s < StopOn(0, s, e)
    BY <1>1, <1>2
<1>4. e % Day = e /\ (e + Day) % Day = e
    BY ClockOf
<1> QED
    BY <1>2, <1>3, <1>4, Zenon

\* models.py and vehicle.py read in every report what the car has, or both that nothing is set.
LEMMA ReadsTruly ==
    ASSUME CarFits, NEW fields \in BOOLEAN
    PROVE  LET r == Report(fields, TRUE)
               clocks == TrueClocks(car.window)
           IN  IF car.window.form = "unset" \/ Ambiguous
               THEN Window(r) = NoWindow /\ ShownClocks(r) = <<None, None>>
               ELSE /\ clocks \in Clock \X Clock /\ ShownClocks(r) = clocks
                    /\ r.days \in Days
                    /\ Window(r) # NoWindow /\ WindowClock(Window(r)) = clocks
                    /\ Window(r).days = r.days /\ Window(r).end = car.end
                    /\ Window(r).mode = IF car.mode = "free" THEN "unsaid" ELSE car.mode
<1> DEFINE r == Report(fields, TRUE)
           w == car.window
<1>0. Day \in Nat /\ Day > 2 /\ Offset \in 0..(Day - 1) /\ Clock = 0..(Day - 1)
    BY WindowAssumption DEF Clock
<1>1. CASE w = Unset
    <2>1. w.form = "unset"
        BY <1>1 DEF Unset
    <2>2. r.times = <<0, 0>> /\ ~r.dated /\ r.clocks = <<0, 1>>
        BY <2>1 DEF Report
    <2> HIDE DEF r
    <2>3. NotSet(r)
        BY <2>2 DEF NotSet, Undated
    <2> QED
        BY <2>1, <2>3 DEF Window, ShownClocks, r
<1>2. CASE w.form = "day" /\ w.days \in Days /\ w.start \in Clock /\ w.stop \in Clock
    <2> DEFINE stop == StopOn(0, w.start, w.stop)
    <2>1. /\ r.times = <<w.start, stop>> /\ ~r.dated /\ r.days = w.days
          /\ r.usable /\ r.mode = car.mode /\ r.end = car.end
        BY <1>2 DEF Report
    <2>2. w.start % Day = w.start /\ w.stop % Day = w.stop
        BY <1>2, ClockOf
    <2>3. TrueClocks(w) = <<w.start, w.stop>>
        BY <1>2, <2>2, Zenon DEF TrueClocks
    <2>4. stop \in 1..(2 * Day - 1) /\ stop % Day = w.stop
        BY <1>2, StopClock
    <2> HIDE DEF r, stop
    <2>5. /\ r.times[1] = w.start /\ r.times[2] = stop
          /\ TimeOfDay(r.times[1]) /\ TimeOfDay(r.times[2]) /\ r.times[1] < Day
          /\ r.times # <<0, 0>>
        BY <1>0, <1>2, <2>1, <2>4 DEF TimeOfDay
    <2>6. ~NotSet(r) /\ ~Undated(r)
        BY <2>5 DEF NotSet, Undated
    <2>7. ShownClocks(r) = <<w.start, w.stop>>
        BY <2>1, <2>2, <2>4, <2>5, <2>6, Zenon DEF ShownClocks
    <2>8. Window(r) = [mode |-> IF r.mode = "free" THEN "unsaid" ELSE r.mode, days |-> r.days,
                       end |-> r.end, clocks |-> r.clocks, dated |-> r.dated, times |-> r.times]
        BY <2>1, <2>6, Zenon DEF Window
    <2>9. WindowClock(Window(r)) = <<w.start, w.stop>>
        <3>1. Window(r).times = r.times
            BY <2>8
        <3> QED
            BY <3>1, <2>4, <2>5, Zenon DEF WindowClock
    <2>10. w.form # "unset" /\ ~Ambiguous
        BY <1>2 DEF Ambiguous
    <2>11. /\ Window(r) # NoWindow /\ Window(r).days = r.days /\ Window(r).end = car.end
           /\ Window(r).mode = IF car.mode = "free" THEN "unsaid" ELSE car.mode
        BY <2>1, <2>8, CarFits DEF CarFits, NoWindow
    <2>12. /\ TrueClocks(w) \in Clock \X Clock /\ ShownClocks(r) = TrueClocks(w) /\ r.days \in Days
           /\ WindowClock(Window(r)) = TrueClocks(w)
        BY <1>2, <2>1, <2>3, <2>7, <2>9
    <2> QED
        BY <2>10, <2>11, <2>12, Zenon DEF r
<1>3. CASE /\ w.form = "dated" /\ w.start \in Nat /\ w.stop \in Nat
           /\ w.start >= 3 * Day /\ w.start <= w.stop
    <2>1. /\ r.times = <<w.start - Offset, w.stop - Offset>> /\ r.dated \in BOOLEAN /\ r.days = {}
          /\ r.usable /\ r.mode = car.mode /\ r.end = car.end
          /\ r.clocks = TrueClocks(w)
        BY <1>3 DEF Report
    <2>2. TrueClocks(w) = <<w.start % Day, w.stop % Day>>
        BY <1>3, Zenon DEF TrueClocks
    <2>3. /\ ((w.start - Offset) + Offset) % Day = w.start % Day /\ w.start % Day \in Clock
          /\ ((w.stop - Offset) + Offset) % Day = w.stop % Day /\ w.stop % Day \in Clock
        BY <1>3, ClockOf
    <2>4. w.start - Offset > 2 * Day /\ w.stop - Offset > 2 * Day
        <3>1. w.start \in Nat /\ w.stop \in Nat /\ w.start >= 3 * Day /\ w.start <= w.stop
            BY <1>3
        <3> QED
            BY <1>0, <3>1
    <2> HIDE DEF r
    <2>5. /\ r.times[1] = w.start - Offset /\ r.times[2] = w.stop - Offset
          /\ ~TimeOfDay(r.times[1]) /\ ~TimeOfDay(r.times[2]) /\ ~(r.times[1] < Day)
          /\ r.times # <<0, 0>>
        BY <1>0, <1>3, <2>1, <2>4 DEF TimeOfDay
    <2>6. ~NotSet(r) /\ ~Undated(r)
        BY <2>5 DEF NotSet, Undated
    <2>7. r.clocks[1] = w.start % Day /\ r.clocks[2] = w.stop % Day
        BY <2>1, <2>2
    <2>8. ShownClocks(r) = TrueClocks(w)
        BY <2>1, <2>2, <2>3, <2>5, <2>6, <2>7, Zenon DEF ShownClocks
    <2>9. Window(r) = [mode |-> IF r.mode = "free" THEN "unsaid" ELSE r.mode, days |-> r.days,
                       end |-> r.end, clocks |-> r.clocks, dated |-> r.dated, times |-> r.times]
        BY <2>1, <2>6, Zenon DEF Window
    <2>10. WindowClock(Window(r)) = TrueClocks(w)
        <3>1. Window(r).times = r.times /\ Window(r).dated = r.dated /\ Window(r).clocks = r.clocks
            BY <2>9
        <3> QED
            BY <3>1, <2>1, <2>2, <2>3, <2>5, Zenon DEF WindowClock
    <2>11. w.form # "unset" /\ ~Ambiguous /\ {} \in Days
        BY <1>3 DEF Ambiguous, Days
    <2>12. TrueClocks(w) \in Clock \X Clock
        BY <2>2, <2>3
    <2>13. /\ Window(r) # NoWindow /\ Window(r).days = r.days /\ Window(r).end = car.end
           /\ Window(r).mode = IF car.mode = "free" THEN "unsaid" ELSE car.mode
        BY <2>1, <2>9, CarFits DEF CarFits, NoWindow
    <2> QED
        BY <1>3, <2>1, <2>8, <2>9, <2>10, <2>11, <2>12, <2>13 DEF r
<1>4. CASE w.form = "undated" /\ w.start \in Clock /\ w.stop \in Clock
    <2> DEFINE stop == StopOn(0, w.start, w.stop)
    <2>1. /\ r.times = <<0, 0>> /\ ~r.dated /\ r.days = {}
          /\ r.usable /\ r.mode = car.mode /\ r.end = car.end
          /\ r.clocks = TrueClocks(w)
        BY <1>4 DEF Report
    <2>2. w.start % Day = w.start /\ w.stop % Day = w.stop
        BY <1>4, ClockOf
    <2>3. TrueClocks(w) = <<w.start, w.stop>>
        BY <1>4, <2>2, Zenon DEF TrueClocks
    <2> HIDE DEF r
    <2>4. r.clocks[1] = w.start /\ r.clocks[2] = w.stop
        BY <2>1, <2>3
    <2>5. Ambiguous <=> w.start <= 1 /\ w.stop <= 1
        BY <1>4, <2>3 DEF Ambiguous
    <2>6. CASE Ambiguous
        <3>1. NotSet(r)
            BY <1>0, <1>4, <2>1, <2>4, <2>5, <2>6 DEF NotSet, Undated
        <3> QED
            BY <2>6, <3>1 DEF Window, ShownClocks, r
    <2>7. CASE ~Ambiguous
        <3>1. Undated(r)
            BY <1>0, <1>4, <2>1, <2>4, <2>5, <2>7 DEF Undated
        <3>2. ShownClocks(r) = TrueClocks(w)
            BY <2>1, <2>3, <2>4, <3>1, Zenon DEF ShownClocks, NotSet
        <3>3. Window(r) = [mode |-> IF r.mode = "free" THEN "unsaid" ELSE r.mode, days |-> r.days,
                           end |-> r.end, clocks |-> r.clocks, dated |-> r.dated,
                           times |-> <<w.start, stop>>]
            BY <2>1, <2>4, <3>1, Zenon DEF Window, NotSet
        <3>4. stop \in 1..(2 * Day - 1) /\ stop % Day = w.stop
            BY <1>4, StopClock
        <3> HIDE DEF stop
        <3>5. WindowClock(Window(r)) = TrueClocks(w)
            <4>1. Window(r).times[1] = w.start /\ Window(r).times[2] = stop
                BY <3>3
            <4>2. w.start < Day /\ TimeOfDay(stop)
                BY <1>0, <1>4, <3>4 DEF TimeOfDay
            <4> QED
                BY <4>1, <4>2, <2>3, <3>4, Zenon DEF WindowClock
        <3>6. w.form # "unset" /\ {} \in Days
            BY <1>4 DEF Days
        <3>8. /\ Window(r) # NoWindow /\ Window(r).days = r.days /\ Window(r).end = car.end
              /\ Window(r).mode = IF car.mode = "free" THEN "unsaid" ELSE car.mode
            BY <2>1, <3>3, CarFits DEF CarFits, NoWindow
        <3>7. TrueClocks(w) \in Clock \X Clock /\ r.days \in Days
            BY <1>4, <2>1, <2>3, <3>6
        <3> QED
            BY <1>4, <2>7, <3>2, <3>5, <3>6, <3>7, <3>8, Zenon DEF r
    <2> QED
        BY <2>6, <2>7
<1> QED
    BY <1>1, <1>2, <1>3, <1>4 DEF CarFits
-----------------------------------------------------------------------------------
(* What is sent, and what the car makes of it *)

Ends == {"time", "limit"}

\* The operations the client and the app send.
OpFits(op) ==
    \/ op.mode = "free"
    \/ op.mode = "raw" /\ op.end \in Ends
    \/ /\ op.mode = "loop" /\ op.end \in Ends /\ op.days \in Days /\ op.from \in Clock
       /\ op.to \in Int
    \/ /\ op.mode = "once" /\ op.end \in Ends
       /\ op.start \in Nat /\ op.start >= 3 * Day
       /\ op.stop = None \/ (op.stop \in Nat /\ op.start < op.stop)

\* A window's start and stop, as minutes.
LEMMA WindowMinutes ==
    ASSUME NEW d \in Nat, NEW s \in Clock, NEW e \in Clock
    PROVE  /\ StartOn(d, s) \in Nat /\ StopOn(d, s, e) \in Nat
           /\ StartOn(d, s) < StopOn(d, s, e) /\ StopOn(d, s, e) <= StartOn(d, s) + Day
           /\ StartOn(d, s) \div Day = d /\ StartOn(d, s) % Day = s
           /\ StopOn(d, s, e) % Day = e
<1>1. Day \in Nat /\ s \in 0..(Day - 1) /\ e \in 0..(Day - 1) /\ d * Day \in Nat
    BY WindowAssumption DEF Clock
<1>2. /\ (d * Day + s) \div Day = d /\ (d * Day + s) % Day = s
      /\ (d * Day + e) % Day = e /\ ((d + 1) * Day + e) % Day = e
    BY MinuteOfDay
<1>3. (d + 1) * Day + e = d * Day + (e + Day)
    BY <1>1
<1>4. StartOn(d, s) = d * Day + s /\ StopOn(d, s, e) = IF e <= s THEN d * Day + (e + Day) ELSE d * Day + e
    BY DEF StartOn, StopOn
<1>5. StopOn(d, s, e) % Day = e
    BY <1>2, <1>3, <1>4, Zenon
<1>6. StartOn(d, s) \div Day = d /\ StartOn(d, s) % Day = s
    BY <1>2, <1>4, Zenon
<1> HIDE <1>2, <1>3
<1>7. /\ StartOn(d, s) \in Nat /\ StopOn(d, s, e) \in Nat
      /\ StartOn(d, s) < StopOn(d, s, e) /\ StopOn(d, s, e) <= StartOn(d, s) + Day
    BY <1>1, <1>4
<1> QED
    BY <1>5, <1>6, <1>7

\* The next whole minute is at least half a minute ahead.
LEMMA MinuteAhead ==
    ASSUME NEW t \in Nat
    PROVE  NextMinute(t) \in Nat /\ t + 2 <= 2 * NextMinute(t)
BY DEF NextMinute

\* A window's first day starts after three days at the least, if only windows ahead count.
LEMMA StartAhead ==
    ASSUME NEW s \in Clock, NEW e \in Clock, NEW days \in Days, NEW t \in Nat, t >= 6 * Day
    PROVE  LET d == NextDay(s, e, days, t, FALSE) IN d \in Nat /\ t < 2 * StartOn(d, s)
<1> DEFINE d == NextDay(s, e, days, t, FALSE)
<1>1. d \in Fits(s, e, days, t, FALSE)
    BY NextDayFirst DEF Days
<1> HIDE DEF d
<1> QED
    BY <1>1 DEF Fits, d

\* What _build returns can be sent.
LEMMA BuildFits ==
    ASSUME NEW s \in Clock, NEW e \in Clock, NEW days \in Days, NEW end \in Ends,
           NEW t \in Nat, t >= 6 * Day, NEW openNow \in BOOLEAN,
           Build(s, e, days, end, t, openNow) # Refused
    PROVE  OpFits(Build(s, e, days, end, t, openNow))
<1> DEFINE open == openNow /\ (days # {} \/ end = "time")
           day == NextDay(s, e, days, t, open)
           op == Build(s, e, days, end, t, openNow)
<1>1. Day \in Nat
    BY WindowAssumption
<1>2. day \in Nat
    BY NextDayFirst DEF Fits, Days
<1>3. /\ StartOn(day, s) \in Nat /\ StopOn(day, s, e) \in Nat /\ StopOn(0, s, e) \in Nat
      /\ StartOn(day, s) < StopOn(day, s, e)
    BY <1>2, WindowMinutes
<1>4. NextMinute(t) \in Nat /\ t + 2 <= 2 * NextMinute(t)
    BY MinuteAhead
<1>5. CASE days # {}
    <2>1. op = Loop(end, days, s, StopOn(0, s, e), StartOn(day, s))
        BY <1>5 DEF Build
    <2> QED
        BY <1>3, <2>1 DEF Loop, OpFits, None, Ends
<1>6. CASE days = {} /\ end = "limit"
    <2>1. op = Once(end, StartOn(day, s), None)
        BY <1>6 DEF Build
    <2>2. open = FALSE
        BY <1>6
    <2>3. t < 2 * StartOn(day, s)
        BY <2>2, StartAhead
    <2> HIDE DEF day
    <2>4. StartOn(day, s) >= 3 * Day
        BY <1>1, <1>3, <2>3
    <2> QED
        BY <1>3, <2>1, <2>4 DEF Once, OpFits, Ends
<1>7. CASE days = {} /\ end = "time"
    <2> DEFINE soon == Later(StartOn(day, s), NextMinute(t))
    <2>1. op = Once(end, soon, StopOn(day, s, e)) /\ soon < StopOn(day, s, e)
        BY <1>7 DEF Build
    <2>2. soon \in Nat /\ soon >= 3 * Day
        BY <1>1, <1>3, <1>4 DEF Later
    <2> HIDE DEF soon
    <2> QED
        BY <1>3, <2>1, <2>2 DEF Once, OpFits, Ends
<1> QED
    BY <1>5, <1>6, <1>7 DEF Ends

\* The car has a window it can have whatever it is sent.
LEMMA AppliedFits ==
    ASSUME CarFits, NEW op, OpFits(op), car' \in Applied(op)
    PROVE  CarFits'
<1> DEFINE saved == IF car.window.form = "unset" THEN op.start % Day ELSE car.window.stop % Day
           stop == IF op.stop # None THEN op.stop ELSE StopOn(op.start \div Day, op.start % Day, saved)
<1>1. \A m \in Int : m % Day \in Clock
    BY ClockOf
<1>2. car.window.form = "unset" \/ car.window.stop \in Int
    BY DEF CarFits, Unset, Clock
<1>3. CASE op.mode = "free"
    <2>1. car' = [car EXCEPT !.mode = "free"]
        BY <1>3 DEF Applied
    <2> QED
        BY <2>1 DEF CarFits
<1>4. CASE op.mode = "raw" /\ op.end \in Ends
    <2>1. car' = car \/ car' = [car EXCEPT !.mode = "loop", !.end = op.end]
        BY <1>4 DEF Applied
    <2> QED
        BY <1>4, <2>1 DEF CarFits, Ends
<1>5. CASE op.mode = "loop" /\ op.end \in Ends /\ op.days \in Days /\ op.from \in Clock /\ op.to \in Int
    <2>1. PICK m \in Clock : car' = [mode |-> "loop", end |-> op.end,
                                     window |-> [form |-> "day", start |-> op.from, days |-> op.days, stop |-> m]]
        <3>1. CASE op.to # None
            BY <1>1, <1>5, <3>1 DEF Applied
        <3>2. CASE op.to = None /\ car.window.form = "unset"
            BY <1>5, <3>2 DEF Applied
        <3>3. CASE op.to = None /\ car.window.form # "unset"
            BY <1>1, <1>2, <1>5, <3>3 DEF Applied
        <3> QED
            BY <3>1, <3>2, <3>3
    <2> QED
        BY <1>5, <2>1 DEF CarFits, Ends
<1>6. CASE /\ op.mode = "once" /\ op.end \in Ends
           /\ op.start \in Nat /\ op.start >= 3 * Day
           /\ op.stop = None \/ (op.stop \in Nat /\ op.start < op.stop)
    <2>1. \/ car' = [mode |-> "once", end |-> op.end,
                     window |-> [form |-> "dated", start |-> op.start, stop |-> stop]]
          \/ car' = [mode |-> "once", end |-> op.end,
                     window |-> [form |-> "undated", start |-> op.start % Day, stop |-> stop % Day]]
        BY <1>6 DEF Applied
    <2>2. stop \in Nat /\ op.start <= stop
        <3>1. CASE op.stop # None
            BY <1>6, <3>1
        <3>2. CASE op.stop = None
            <4>1. op.start % Day \in Clock /\ saved \in Clock
                BY <1>1, <1>2, <1>6
            <4>2. op.start \div Day \in Nat /\ (op.start \div Day) * Day + (op.start % Day) = op.start
                BY <1>6, WindowAssumption
            <4> HIDE DEF saved
            <4>3. stop = StopOn(op.start \div Day, op.start % Day, saved)
                BY <3>2
            <4>4. stop \in Nat /\ StartOn(op.start \div Day, op.start % Day) < stop
                BY <4>1, <4>2, <4>3, WindowMinutes
            <4>5. StartOn(op.start \div Day, op.start % Day) = op.start
                BY <4>2, Zenon DEF StartOn
            <4> QED
                BY <1>6, <4>4, <4>5
        <3> QED
            BY <3>1, <3>2
    <2> HIDE DEF stop
    <2>3. op.start % Day \in Clock /\ stop % Day \in Clock
        BY <1>1, <1>6, <2>2
    <2> QED
        BY <1>6, <2>1, <2>2, <2>3 DEF CarFits, Ends
<1> QED
    BY <1>3, <1>4, <1>5, <1>6 DEF OpFits
-----------------------------------------------------------------------------------
(* The invariant *)

\* What was sent, and what it was built from.
Ordered ==
    \/ order = NoOrder
    \/ order.kind = "free" /\ order.op = Free
    \/ /\ order.kind = "restart" /\ order.op = Restarted(order.built)
       /\ order.built \in Start..now
    \/ /\ order.kind = "resume" /\ order.op.mode = "raw" /\ order.op.end \in Ends
    \/ /\ order.kind \in {"set", "resume"}
       /\ order.asked.clocks \in Clock \X Clock /\ order.asked.days \in Days /\ order.asked.end \in Ends
       /\ order.built \in Start..now
       /\ order.op # Refused
       /\ order.op = Build(order.asked.clocks[1], order.asked.clocks[2], order.asked.days,
                           order.asked.end, order.built,
                           order.kind = "resume" \/ order.asked.end = "time")

\* The client remembers the last usable window as the car had it.
Remembered ==
    \/ cached = NoWindow /\ saw = NoWindow
    \/ /\ cached.mode = saw.mode /\ saw.mode \in {"unsaid", "once", "loop"}
       /\ cached.end = saw.end /\ saw.end \in Ends
       /\ cached.days = saw.days /\ saw.days \in Days
       /\ WindowClock(cached) = saw.clocks /\ saw.clocks \in Clock \X Clock

ChargingInv ==
    /\ now \in Start..MaxTime
    /\ CarFits /\ Ordered /\ Remembered
    /\ status.shown = status.real
    /\ DOMAIN left = {"orders", "app"} /\ left.orders \in 0..MaxOrders /\ left.app \in 0..MaxApp

\* The minutes at which a window with these clocks can start.
Starts(s, e, days, t, openNow) ==
    {m \in Nat : /\ m % Day = s /\ (days # {} => (m \div Day) % Week \in days)
                 /\ 2 * (IF openNow THEN StopOn(m \div Day, s, e) ELSE m) > t}

\* The first of all starts a window is ordered for (NextOccurrence's first).
LEMMA FirstStart ==
    ASSUME NEW s \in Clock, NEW e \in Clock, NEW days \in Days, NEW t \in Nat, t >= 6 * Day,
           t <= MaxTime, NEW openNow \in BOOLEAN
    PROVE  LET m == StartOn(NextDay(s, e, days, t, openNow), s)
               Q == Starts(s, e, days, t, openNow)
           IN  /\ m \in Q /\ m \in 0..(MaxTime + Day * (Week + 2))
               /\ \A n \in Q : m <= n
<1> DEFINE S == Fits(s, e, days, t, openNow)
           d == NextDay(s, e, days, t, openNow)
           m == StartOn(d, s)
           Q == Starts(s, e, days, t, openNow)
           today == t \div (2 * Day)
<1>1. d \in S /\ d <= today + Week /\ \A n \in S : d <= n
    BY NextDayFirst DEF Days
<1>2. d \in Nat
    BY <1>1 DEF Fits
<1>3. /\ m \in Nat /\ m \div Day = d /\ m % Day = s
    BY <1>2, WindowMinutes
<1>4. Day \in Nat \ {0} /\ Week \in Nat \ {0} /\ s \in 0..(Day - 1) /\ MaxTime \in Nat
    BY WindowAssumption, ChargingAssumption DEF Clock
<1> HIDE DEF d
<1>5. m \in Q
    BY <1>1, <1>3 DEF Fits, Starts
<1>6. m <= MaxTime + Day * (Week + 2)
    <2>1. today \in Nat /\ 2 * (today * Day) <= t
        BY Today
    <2> HIDE DEF today
    <2>2. today * Day \in Nat /\ d * Day \in Nat /\ today * Day <= MaxTime
        BY <1>2, <1>4, <2>1
    <2>3. d * Day <= (today + Week) * Day
        <3>1. CASE d = today + Week
            BY <3>1, <1>4, <2>1
        <3>2. CASE d < today + Week
            BY <1>2, <1>4, <2>1, <3>2, DaysApart
        <3> QED
            BY <1>1, <1>2, <1>4, <2>1, <3>1, <3>2
    <2>4. (today + Week) * Day = today * Day + Week * Day /\ Day * (Week + 2) = Week * Day + 2 * Day
        BY <1>4, <2>1
    <2>5. m = d * Day + s /\ Week * Day \in Nat
        BY <1>4 DEF StartOn
    <2> HIDE DEF m
    <2> QED
        BY <1>4, <2>2, <2>3, <2>4, <2>5
<1>7. ASSUME NEW n \in Q PROVE m <= n
    <2> DEFINE k == n \div Day
    <2>1. n \in Nat /\ k \in Nat /\ n = k * Day + (n % Day) /\ n % Day = s
        BY <1>4 DEF Starts
    <2>2. n = StartOn(k, s)
        BY <2>1, Zenon DEF StartOn
    <2>3. k \in S
        BY <2>1, <2>2 DEF Fits, Starts
    <2>4. d <= k
        BY <1>1, <2>3
    <2> HIDE DEF k
    <2>5. d * Day <= k * Day
        <3>1. CASE d = k
            BY <3>1, <1>4, <2>1
        <3>2. CASE d < k
            <4>1. d * Day + Day <= k * Day
                BY <1>2, <2>1, <3>2, DaysApart
            <4>2. d * Day \in Nat /\ k * Day \in Nat
                BY <1>2, <1>4, <2>1
            <4> QED
                BY <1>4, <4>1, <4>2
        <3> QED
            BY <1>2, <2>1, <2>4, <3>1, <3>2
    <2>6. m = d * Day + s /\ n = k * Day + s /\ d * Day \in Nat /\ k * Day \in Nat
        BY <1>2, <1>4, <2>1, <2>2 DEF StartOn
    <2> HIDE DEF m
    <2> QED
        BY <1>4, <2>5, <2>6
<1> QED
    BY <1>3, <1>4, <1>5, <1>6, <1>7 DEF d

\* An order for a window was built from what was asked.
LEMMA WindowedOrder ==
    ASSUME ChargingInv, Windowed
    PROVE  /\ order.kind \in {"set", "resume"}
           /\ order.asked.clocks \in Clock \X Clock /\ order.asked.days \in Days /\ order.asked.end \in Ends
           /\ order.built \in Nat /\ order.built >= 6 * Day /\ order.built <= MaxTime
           /\ order.op # Refused
           /\ order.op = Build(order.asked.clocks[1], order.asked.clocks[2], order.asked.days,
                               order.asked.end, order.built,
                               order.kind = "resume" \/ order.asked.end = "time")
<1>1. order.kind \in {"set", "resume"} /\ order.op.mode # "raw"
    BY DEF Windowed
<1>2. order # NoOrder
    BY <1>1 DEF NoOrder
<1> QED
    BY <1>1, <1>2, ChargingAssumption, WindowAssumption DEF ChargingInv, Ordered

\* _next_window, called by _build, dates an order for the window open now or the next to start.
LEMMA InvNextOccurrence == ChargingInv => NextOccurrence
<1> SUFFICES ASSUME ChargingInv, Windowed PROVE NextOccurrence
    BY DEF NextOccurrence
<1> DEFINE s == order.asked.clocks[1]
           e == order.asked.clocks[2]
           days == order.asked.days
           t == order.built
           ahead == order.asked.end = "limit" /\ (days = {} \/ order.kind = "set")
           qualifies(m) == /\ m % Day = s /\ (days # {} => (m \div Day) % Week \in days)
                           /\ 2 * (IF ahead THEN m ELSE StopOn(m \div Day, s, e)) > t
           B == MaxTime + Day * (Week + 2)
           first == CHOOSE m \in 0..B : qualifies(m) /\ \A n \in 0..(m - 1) : ~qualifies(n)
           open == (order.kind = "resume" \/ order.asked.end = "time") /\ (days # {} \/ order.asked.end = "time")
           day == NextDay(s, e, days, t, open)
           Q == {m \in Nat : qualifies(m)}
<1>1. /\ order.kind \in {"set", "resume"}
      /\ s \in Clock /\ e \in Clock /\ days \in Days /\ order.asked.end \in Ends
      /\ t \in Nat /\ t >= 6 * Day /\ t <= MaxTime
      /\ order.op # Refused
      /\ order.op = Build(s, e, days, order.asked.end, t,
                          order.kind = "resume" \/ order.asked.end = "time")
    BY WindowedOrder
<1>2. ahead <=> ~open
    BY <1>1 DEF Ends
<1>3. /\ StartOn(day, s) \in Q /\ StartOn(day, s) \in 0..B
      /\ \A n \in Q : StartOn(day, s) <= n
    <2>1. Q = Starts(s, e, days, t, open)
        BY <1>2 DEF Starts
    <2>2. open \in BOOLEAN
        OBVIOUS
    <2> HIDE DEF s, e, days, t, open, Q
    <2> QED
        BY <1>1, <2>1, <2>2, FirstStart DEF day, B
<1>4. first = StartOn(day, s)
    <2> DEFINE m == StartOn(day, s)
    <2>1. m \in 0..B /\ qualifies(m) /\ \A n \in 0..(m - 1) : ~qualifies(n)
        <3>1. m \in Nat /\ qualifies(m)
            BY <1>3
        <3>2. ASSUME NEW n \in 0..(m - 1), qualifies(n) PROVE FALSE
            <4>1. n \in Q
                BY <3>1, <3>2
            <4>2. n < m
                BY <3>1
            <4> QED
                BY <1>3, <3>1, <4>1, <4>2
        <3> QED
            BY <1>3, <3>1, <3>2
    <2>2. ASSUME NEW x \in 0..B, qualifies(x) /\ \A n \in 0..(x - 1) : ~qualifies(n)
          PROVE  x = m
        <3>1. x \in Q /\ m \in Nat
            BY <1>3, <2>2
        <3>2. m <= x
            BY <1>3, <3>1
        <3> HIDE DEF m
        <3>3. ~(m < x)
            BY <2>1, <2>2, <3>1
        <3> QED
            BY <3>1, <3>2, <3>3
    <2> HIDE DEF qualifies, B, m
    <2>3. first \in 0..B /\ qualifies(first) /\ \A n \in 0..(first - 1) : ~qualifies(n)
        BY <2>1
    <2> QED
        BY <2>2, <2>3 DEF m
<1>5. day \in Nat
    <2> HIDE DEF s, e, days, t, open
    <2>1. open \in BOOLEAN
        BY DEF open
    <2> QED
        BY <1>1, <2>1, NextDayFirst DEF Fits, Days, day
<1>6. StartOn(day, s) \in Nat /\ StartOn(day, s) \div Day = day
    BY <1>1, <1>5, WindowMinutes
<1>7. \/ days # {} /\ order.op = Loop(order.asked.end, days, s, StopOn(0, s, e), StartOn(day, s))
      \/ days = {} /\ order.asked.end = "limit" /\ order.op = Once("limit", StartOn(day, s), None)
      \/ /\ days = {} /\ order.asked.end = "time"
         /\ order.op = Once("time", Later(StartOn(day, s), NextMinute(t)), StopOn(day, s, e))
    BY <1>1 DEF Build, Ends
<1>8. NextMinute(t) \in Nat
    BY <1>1, MinuteAhead
<1>9. IF order.op.mode = "once" /\ order.op.stop # None
      THEN order.op.stop = StopOn(first \div Day, s, e) /\ order.op.start >= first
      ELSE order.op.start = first
    <2> HIDE DEF first, s, e, days, t, day
    <2>1. CASE order.op = Loop(order.asked.end, days, s, StopOn(0, s, e), StartOn(day, s))
        BY <1>4, <2>1 DEF Loop
    <2>2. CASE order.op = Once("limit", StartOn(day, s), None)
        BY <1>4, <2>2 DEF Once
    <2>3. CASE order.op = Once("time", Later(StartOn(day, s), NextMinute(t)), StopOn(day, s, e))
        <3>1. StopOn(day, s, e) \in Nat
            BY <1>1, <1>5, WindowMinutes
        <3>2. Later(StartOn(day, s), NextMinute(t)) >= StartOn(day, s)
            BY <1>6, <1>8 DEF Later
        <3> QED
            BY <1>4, <1>6, <2>3, <3>1, <3>2 DEF Once, None
    <2> QED
        BY <1>7, <2>1, <2>2, <2>3
<1> HIDE DEF s, e, days, t, qualifies, B, day
<1> QED
    BY <1>9 DEF NextOccurrence, s, e, days, t, qualifies, B

\* _build never dates a one-time window in the past, and _next_minute leaves time to send it.
LEMMA InvStartsInTime == ChargingInv => StartsInTime
<1> SUFFICES ASSUME ChargingInv, order.kind # "none", order.op.mode = "once",
                    order.op.stop # None \/ order.kind = "restart"
             PROVE  /\ now <= order.built + 1 => now < 2 * order.op.start
                    /\ order.op.stop # None => order.op.start < order.op.stop
    BY DEF StartsInTime
<1>1. now \in Nat
    BY ChargingAssumption DEF ChargingInv
<1>2. CASE order.kind = "restart"
    <2>1. order.op = Restarted(order.built) /\ order.built \in Start..now
        BY <1>2 DEF ChargingInv, Ordered, NoOrder
    <2>2. order.built \in Nat /\ NextMinute(order.built) \in Nat
          /\ order.built + 2 <= 2 * NextMinute(order.built)
        BY <2>1, MinuteAhead, ChargingAssumption
    <2> QED
        BY <1>1, <2>1, <2>2 DEF Restarted, Once
<1>3. CASE order.kind # "restart"
    <2>1. Windowed
        BY <1>3 DEF ChargingInv, Ordered, NoOrder, Free, Windowed
    <2> DEFINE s == order.asked.clocks[1]
               e == order.asked.clocks[2]
               open == (order.kind = "resume" \/ order.asked.end = "time")
                       /\ (order.asked.days # {} \/ order.asked.end = "time")
               day == NextDay(s, e, order.asked.days, order.built, open)
               soon == Later(StartOn(day, s), NextMinute(order.built))
    <2>2. /\ order.asked.clocks \in Clock \X Clock /\ order.asked.days \in Days /\ order.asked.end \in Ends
          /\ order.built \in Nat /\ order.built >= 6 * Day
          /\ order.op # Refused
          /\ order.op = Build(s, e, order.asked.days, order.asked.end, order.built,
                              order.kind = "resume" \/ order.asked.end = "time")
        BY <2>1, WindowedOrder
    <2>3. order.op = Once("time", soon, StopOn(day, s, e)) /\ soon < StopOn(day, s, e)
        BY <1>3, <2>2 DEF Build, Ends, Loop, Once
    <2>4. NextMinute(order.built) \in Nat /\ order.built + 2 <= 2 * NextMinute(order.built)
        BY <2>2, MinuteAhead
    <2>5. StartOn(day, s) \in Nat
        <3>1. day \in Nat
            <4>1. open \in BOOLEAN /\ s \in Clock /\ e \in Clock
                BY <2>2
            <4> HIDE DEF s, e, open
            <4> QED
                BY <2>2, <4>1, NextDayFirst DEF Fits, Days
        <3> QED
            BY <2>2, <3>1, WindowMinutes
    <2>6. soon \in Nat /\ NextMinute(order.built) <= soon
        BY <2>4, <2>5 DEF Later
    <2> HIDE DEF soon
    <2> QED
        BY <1>1, <2>2, <2>3, <2>4, <2>6 DEF Once
<1> QED
    BY <1>2, <1>3

\* What is resumed is what was remembered (preserved_operation).
LEMMA InvResumeFaithful == ChargingInv => ResumeFaithful
<1> SUFFICES ASSUME ChargingInv, order.kind = "resume", Windowed
             PROVE  LET op == order.op  a == order.asked
                    IN  /\ op.end = a.end
                        /\ op.mode = IF a.days = {} THEN "once" ELSE "loop"
                        /\ op.mode = "loop" => /\ op.days = a.days /\ op.from = a.clocks[1]
                                               /\ op.end = "time" => op.to % Day = a.clocks[2]
                        /\ op.mode = "once" => IF op.end = "time" THEN op.stop % Day = a.clocks[2]
                                               ELSE op.start % Day = a.clocks[1]
    BY DEF ResumeFaithful
<1> DEFINE s == order.asked.clocks[1]
           e == order.asked.clocks[2]
           days == order.asked.days
           open == days # {} \/ order.asked.end = "time"
           day == NextDay(s, e, days, order.built, open)
           soon == Later(StartOn(day, s), NextMinute(order.built))
<1>1. /\ s \in Clock /\ e \in Clock /\ days \in Days /\ order.asked.end \in Ends
      /\ order.built \in Nat /\ order.built >= 6 * Day
      /\ order.op # Refused
      /\ order.op = Build(s, e, days, order.asked.end, order.built, TRUE)
    BY WindowedOrder
<1>2. day \in Nat
    <2>1. open \in BOOLEAN
        OBVIOUS
    <2> HIDE DEF s, e, days, open
    <2> QED
        BY <1>1, <2>1, NextDayFirst DEF Fits, Days
<1>3. StartOn(day, s) % Day = s /\ StopOn(day, s, e) % Day = e /\ StopOn(0, s, e) % Day = e
    BY <1>1, <1>2, WindowMinutes, StopClock
<1>4. \/ days # {} /\ order.op = Loop(order.asked.end, days, s, StopOn(0, s, e), StartOn(day, s))
      \/ days = {} /\ order.asked.end = "limit" /\ order.op = Once("limit", StartOn(day, s), None)
      \/ days = {} /\ order.asked.end = "time" /\ order.op = Once("time", soon, StopOn(day, s, e))
    BY <1>1 DEF Build, Ends
<1> HIDE DEF day, soon
<1> QED
    BY <1>3, <1>4 DEF Loop, Once

\* The types and the agreement of the clocks are parts of the invariant.
LEMMA InvTypes == ChargingInv => TypeOK /\ ClocksAgree
<1> SUFFICES ASSUME ChargingInv PROVE TypeOK /\ ClocksAgree
    OBVIOUS
<1>1. order.kind \in {"none", "set", "resume", "free", "restart"}
    BY DEF ChargingInv, Ordered, NoOrder
<1>2. car.window.form \in {"unset", "day", "dated", "undated"}
    BY DEF ChargingInv, CarFits, Unset
<1>3. /\ cached.mode \in {"nothing", "unsaid", "once", "loop"}
      /\ saw.mode \in {"nothing", "unsaid", "once", "loop"}
    BY DEF ChargingInv, Remembered, NoWindow
<1>4. ClocksAgree
    BY DEF ChargingInv, Remembered, NoWindow, ClocksAgree
<1> QED
    BY <1>1, <1>2, <1>3, <1>4 DEF ChargingInv, CarFits, TypeOK

\* The first state: nothing is set, read or ordered.
LEMMA InvInit == Init => ChargingInv
BY ChargingAssumption DEF Init, ChargingInv, CarFits, Ordered, Remembered

\* What is on its way can be sent.
LEMMA OrderFits ==
    ASSUME ChargingInv, order # NoOrder
    PROVE  OpFits(order.op)
<1>1. CASE order.op = Free
    BY <1>1 DEF Free, OpFits
<1>2. CASE order.op = Restarted(order.built) /\ order.built \in Start..now
    <2>1. order.built \in Nat /\ order.built >= 6 * Day
        BY <1>2, ChargingAssumption, WindowAssumption DEF ChargingInv
    <2>2. NextMinute(order.built) \in Nat /\ order.built + 2 <= 2 * NextMinute(order.built)
        BY <2>1, MinuteAhead
    <2>3. NextMinute(order.built) >= 3 * Day
        BY <2>1, <2>2, WindowAssumption
    <2> QED
        BY <1>2, <2>2, <2>3 DEF Restarted, Once, OpFits, Ends
<1>3. CASE order.op.mode = "raw" /\ order.op.end \in Ends
    BY <1>3 DEF OpFits
<1>4. CASE Windowed
    <2> DEFINE s == order.asked.clocks[1]
               e == order.asked.clocks[2]
               open == order.kind = "resume" \/ order.asked.end = "time"
    <2>1. /\ s \in Clock /\ e \in Clock /\ order.asked.days \in Days /\ order.asked.end \in Ends
          /\ order.built \in Nat /\ order.built >= 6 * Day /\ open \in BOOLEAN
          /\ order.op # Refused
          /\ order.op = Build(s, e, order.asked.days, order.asked.end, order.built, open)
        BY <1>4, WindowedOrder
    <2> HIDE DEF s, e, open
    <2> QED
        BY <2>1, BuildFits
<1>5. ASSUME NEW s, NEW e, NEW days, NEW end, NEW t, NEW openNow,
             order.kind \in {"set", "resume"}, order.op = Build(s, e, days, end, t, openNow)
      PROVE  Windowed
    BY <1>5 DEF Build, Loop, Once, Refused, Windowed
<1> QED
    BY <1>1, <1>2, <1>3, <1>4, <1>5 DEF ChargingInv, Ordered

\* An order still is what was built of what was asked when time has passed.
LEMMA OrderedLater ==
    ASSUME ChargingInv, order' = order, now' \in Int, now <= now'
    PROVE  Ordered'
<1>1. Start..now \subseteq Start..now'
    BY ChargingAssumption DEF ChargingInv
<1> QED
    BY <1>1 DEF ChargingInv, Ordered

\* Every step keeps the invariant.
LEMMA InvNext == ChargingInv /\ [Next]_vars => ChargingInv'
<1> SUFFICES ASSUME ChargingInv, [Next]_vars PROVE ChargingInv'
    OBVIOUS
<1>0. /\ now \in Nat /\ now >= 6 * Day /\ now \in Start..now /\ now <= MaxTime
      /\ CarFits /\ Ordered /\ Remembered
      /\ DOMAIN left = {"orders", "app"} /\ left.orders \in 0..MaxOrders /\ left.app \in 0..MaxApp
    BY ChargingAssumption, WindowAssumption DEF ChargingInv
<1>a. ASSUME UNCHANGED <<now, order>> PROVE Ordered'
    BY <1>0, <1>a, OrderedLater
<1>b. ASSUME UNCHANGED car PROVE CarFits'
    BY <1>0, <1>b DEF CarFits
<1>c. ASSUME UNCHANGED <<cached, saw>> PROVE Remembered'
    BY <1>0, <1>c DEF Remembered
<1>d. ASSUME order' = NoOrder PROVE Ordered'
    BY <1>d DEF Ordered
<1>1. CASE Receive
    <2>1. CarFits'
        BY <1>0, <1>1, OrderFits, AppliedFits DEF Receive
    <2> QED
        BY <1>1, <1>c, <1>d, <2>1 DEF Receive, ChargingInv
<1>2. CASE Drop
    BY <1>2, <1>b, <1>c, <1>d DEF Drop, ChargingInv
<1>3. CASE WindowEnds
    <2>1. CarFits'
        BY <1>0, <1>3 DEF WindowEnds, CarFits
    <2> QED
        BY <1>3, <1>a, <1>c, <2>1 DEF WindowEnds, ChargingInv
<1>4. CASE AppChanges
    <2>1. CarFits'
        <3>1. CASE car' \in Applied(Free)
            BY <1>0, <3>1, AppliedFits DEF Free, OpFits
        <3>2. ASSUME NEW w \in AppWindows, Build(w.from, w.to, w.days, w.end, now, TRUE) # Refused,
                     car' \in Applied(Build(w.from, w.to, w.days, w.end, now, TRUE))
              PROVE  CarFits'
            <4>1. w.from \in Clock /\ w.to \in Clock /\ w.days \in Days /\ w.end \in Ends
                BY ChargingAssumption DEF Days, Ends
            <4>2. OpFits(Build(w.from, w.to, w.days, w.end, now, TRUE))
                BY <1>0, <3>2, <4>1, BuildFits
            <4> QED
                BY <1>0, <3>2, <4>2, AppliedFits
        <3> QED
            BY <1>4, <3>1, <3>2 DEF AppChanges
    <2>2. DOMAIN left' = {"orders", "app"} /\ left'.orders \in 0..MaxOrders /\ left'.app \in 0..MaxApp
        BY <1>0, <1>4, ChargingAssumption DEF AppChanges
    <2> QED
        BY <1>4, <1>a, <1>c, <2>1, <2>2 DEF AppChanges, ChargingInv
<1>5. CASE Tick
    <2>1. now' \in Start..MaxTime /\ now' \in Int /\ now <= now'
        BY <1>0, <1>5, ChargingAssumption DEF Tick
    <2>2. Ordered'
        BY <1>5, <2>1, OrderedLater DEF Tick
    <2> QED
        BY <1>5, <1>b, <1>c, <2>1, <2>2 DEF Tick, ChargingInv
<1>6. ASSUME NEW fields \in BOOLEAN, NEW usable \in BOOLEAN, ReadStatus(fields, usable) PROVE ChargingInv'
    <2> DEFINE r == Report(fields, usable)
               w == Window(r)
               clocks == TrueClocks(car.window)
               told == usable /\ car.window.form # "unset" /\ ~Ambiguous
    <2>1. /\ cached' = IF w = NoWindow THEN cached ELSE Recalled(w)
          /\ status' = [shown |-> ShownClocks(r), real |-> IF told \/ r.dated THEN clocks ELSE <<None, None>>]
          /\ saw' = IF ~told THEN saw
                    ELSE [clocks |-> clocks, end |-> car.end, days |-> r.days,
                          mode |-> IF car.mode # "free" THEN car.mode
                                   ELSE IF saw = NoWindow THEN "unsaid" ELSE saw.mode]
          /\ UNCHANGED <<now, car, order, left>>
        BY <1>6 DEF ReadStatus, Ambiguous
    <2>2. CASE ~told
        <3>1. w = NoWindow /\ ShownClocks(r) = IF r.dated THEN clocks ELSE <<None, None>>
            <4>1. CASE ~usable
                <5>1. ~r.usable
                    BY <4>1 DEF Report
                <5>2. r.dated => car.window.form = "dated" /\ r.clocks = clocks /\ clocks = <<clocks[1], clocks[2]>>
                    BY <5>1 DEF Report, TrueClocks
                <5> HIDE DEF r, clocks
                <5>3. w = NoWindow
                    BY <5>1 DEF Window
                <5>4. ~r.dated => ShownClocks(r) = <<None, None>>
                    BY <5>1 DEF ShownClocks
                <5>5. r.dated => ShownClocks(r) = clocks
                    BY <5>1, <5>2 DEF ShownClocks, NotSet
                <5> QED
                    BY <5>3, <5>4, <5>5
            <4>2. CASE usable
                <5>1. w = NoWindow /\ ShownClocks(r) = <<None, None>>
                    BY <1>0, <2>2, <4>2, ReadsTruly
                <5>2. ~r.dated
                    BY <2>2, <4>2 DEF Report, Ambiguous
                <5> QED
                    BY <5>1, <5>2
            <4> QED
                BY <4>1, <4>2
        <3>2. status'.shown = status'.real
            BY <2>1, <2>2, <3>1
        <3> QED
            BY <1>a, <1>b, <1>c, <2>1, <2>2, <3>1, <3>2 DEF ChargingInv
    <2>3. CASE told
        <3>1. /\ clocks \in Clock \X Clock /\ ShownClocks(r) = clocks
              /\ r.days \in Days
              /\ w # NoWindow /\ WindowClock(w) = clocks
              /\ w.days = r.days /\ w.end = car.end
              /\ w.mode = IF car.mode = "free" THEN "unsaid" ELSE car.mode
            BY <1>0, <2>3, ReadsTruly
        <3>2. status'.shown = status'.real
            BY <2>1, <2>3, <3>1
        <3>3. /\ saw'.clocks = clocks /\ saw'.end = car.end /\ saw'.days = r.days
              /\ saw'.mode = IF car.mode # "free" THEN car.mode
                             ELSE IF saw = NoWindow THEN "unsaid" ELSE saw.mode
            BY <2>1, <2>3
        <3>4. /\ cached' = Recalled(w)
              /\ \E m : Recalled(w) = [mode |-> m, days |-> w.days, end |-> w.end,
                                       clocks |-> w.clocks, dated |-> w.dated, times |-> w.times]
              /\ Recalled(w).mode = IF w.mode = "unsaid" /\ cached # NoWindow THEN cached.mode ELSE w.mode
            BY <2>1, <3>1 DEF Recalled, Window
        <3> HIDE DEF w, r, clocks
        <3>5. /\ cached'.days = w.days /\ cached'.end = w.end /\ cached'.times = w.times
              /\ cached'.dated = w.dated /\ cached'.clocks = w.clocks
            BY <3>4
        <3>6. WindowClock(cached)' = WindowClock(w)
            BY <3>5, Zenon DEF WindowClock
        <3>7. cached'.mode = saw'.mode /\ saw'.mode \in {"unsaid", "once", "loop"}
            BY <1>0, <3>1, <3>3, <3>4 DEF Remembered, NoWindow, CarFits
        <3>8. Remembered'
            BY <1>0, <3>1, <3>3, <3>5, <3>6, <3>7 DEF Remembered, CarFits, Ends
        <3> QED
            BY <1>a, <1>b, <2>1, <3>2, <3>8 DEF ChargingInv
    <2> QED
        BY <2>2, <2>3
<1>e. ASSUME NEW kind, NEW op, NEW asked, Send(kind, op, asked), Ordered' PROVE ChargingInv'
    <2>1. DOMAIN left' = {"orders", "app"} /\ left'.orders \in 0..MaxOrders /\ left'.app \in 0..MaxApp
        BY <1>0, <1>e, ChargingAssumption DEF Send
    <2> QED
        BY <1>b, <1>c, <1>e, <2>1 DEF Send, ChargingInv
<1>7. ASSUME NEW w \in Asked, SetChargeWindow(w) PROVE ChargingInv'
    <2>1. w.from \in Clock /\ w.to \in Clock /\ w.days \in Days /\ w.end \in Ends
        BY ChargingAssumption DEF Days, Ends
    <2>2. Ordered'
        <3>1. /\ order' = [kind |-> "set", op |-> Build(w.from, w.to, w.days, w.end, now, w.end = "time"),
                           asked |-> [clocks |-> <<w.from, w.to>>, days |-> w.days, end |-> w.end],
                           built |-> now]
              /\ now' = now
              /\ Build(w.from, w.to, w.days, w.end, now, w.end = "time") # Refused
            BY <1>7 DEF SetChargeWindow, Send
        <3> QED
            BY <1>0, <2>1, <3>1 DEF Ordered
    <2> QED
        BY <1>7, <1>e, <2>2 DEF SetChargeWindow
<1>8. ASSUME NEW end \in {"kept", "time", "limit"}, ResumeSchedule(end) PROVE ChargingInv'
    <2> DEFINE mode == IF cached.mode = "unsaid" THEN "loop" ELSE cached.mode
               stops == IF end = "kept" THEN saw.end ELSE end
               days == IF saw.mode = "once" THEN {} ELSE saw.days
               op == Preserved(cached, mode, stops, now)
    <2>1. /\ cached.mode = saw.mode /\ cached.end = saw.end /\ saw.end \in Ends
          /\ cached.days = saw.days /\ saw.days \in Days
          /\ WindowClock(cached) = saw.clocks /\ saw.clocks \in Clock \X Clock
        BY <1>0, <1>8 DEF Remembered, ResumeSchedule
    <2>2. /\ Send("resume", op, [clocks |-> saw.clocks, days |-> days, end |-> stops])
          /\ stops \in Ends /\ days \in Days
        BY <1>8, <2>1 DEF ResumeSchedule, Ends, Days
    <2>3. /\ order' = [kind |-> "resume", op |-> op,
                       asked |-> [clocks |-> saw.clocks, days |-> days, end |-> stops], built |-> now]
          /\ now' = now /\ op # Refused
        BY <2>2 DEF Send
    <2>4. op = IF saw.clocks[1] = saw.clocks[2] THEN [mode |-> "raw", as |-> mode, end |-> stops]
               ELSE Build(saw.clocks[1], saw.clocks[2], days, stops, now, TRUE)
        BY <2>1 DEF Preserved
    <2>5. Ordered'
        <3> HIDE DEF op, days, stops, mode
        <3>1. CASE saw.clocks[1] = saw.clocks[2]
            BY <2>2, <2>3, <2>4, <3>1 DEF Ordered
        <3>2. CASE saw.clocks[1] # saw.clocks[2]
            BY <1>0, <2>1, <2>2, <2>3, <2>4, <3>2 DEF Ordered
        <3> QED
            BY <3>1, <3>2
    <2> QED
        BY <1>e, <2>2, <2>5
<1>9. CASE ChargeNow
    <2>1. Ordered'
        BY <1>9 DEF ChargeNow, Send, Ordered
    <2> QED
        BY <1>9, <1>e, <2>1 DEF ChargeNow
<1>10. CASE RestartCharging
    <2>1. Ordered'
        BY <1>0, <1>10 DEF RestartCharging, Send, Ordered
    <2> QED
        BY <1>10, <1>e, <2>1 DEF RestartCharging
<1>11. CASE UNCHANGED vars
    BY <1>11, <1>a, <1>b, <1>c DEF vars, ChargingInv
<1> QED
    BY <1>1, <1>2, <1>3, <1>4, <1>5, <1>6, <1>7, <1>8, <1>9, <1>10, <1>11 DEF Next
-----------------------------------------------------------------------------------
\* In every reachable state the car, the client's memory and the order on its way fit together.
LEMMA ChargingCorrect == Spec => []ChargingInv
<1> QED
    BY InvInit, InvNext, PTL DEF Spec

\* Every part of the charge window's state keeps its type, however long the day and the week.
THEOREM ChargingTyped == Spec => []TypeOK
<1> QED
    BY ChargingCorrect, InvTypes, PTL

\* The search of _next_window ends, at the window open when an order was built or the next to start.
THEOREM ChargingNextOccurrence == Spec => []NextOccurrence
<1> QED
    BY ChargingCorrect, InvNextOccurrence, PTL

\* No one-time window is sent whose start the car would find in the past (_next_minute, _build).
THEOREM ChargingStartsInTime == Spec => []StartsInTime
<1> QED
    BY ChargingCorrect, InvStartsInTime, PTL

\* resume_schedule brings back the window last read, whichever form it was reported in.
THEOREM ChargingResumeFaithful == Spec => []ResumeFaithful
<1> QED
    BY ChargingCorrect, InvResumeFaithful, PTL

\* The status and the cached window have the clocks the car has (from_results, _window_clock).
THEOREM ChargingClocksAgree == Spec => []ClocksAgree
<1> QED
    BY ChargingCorrect, InvTypes, PTL
===================================================================================
