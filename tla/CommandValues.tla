------------------------------ MODULE CommandValues ------------------------------
(***************************************************************************)
(* The values a command may carry: what commands.py accepts and sends, and     *)
(* what capabilities.py offers of them for a car's capability list.            *)
(* Numbers are counted in quarters, so that they can lie between the halves     *)
(* and the whole degrees they are rounded to; what is no number is None.        *)
(***************************************************************************)
EXTENDS Integers, SequencesExt

None == -1000
Whole(n) == 4 * n

\* n / d, halves to the even number (Python's round).
Rounded(n, d) ==
    LET q == n \div d  r == 2 * (n % d)
    IN  IF r > d \/ (r = d /\ q % 2 = 1) THEN q + 1 ELSE q

Ceiling(n, d) == -((-n) \div d)

\* CLIMATE_TEMP_RANGE, CLIMATE_MINUTES_RANGE, FRIDGE_TEMP_RANGE in degrees and minutes.
Bounds == [temperature |-> <<18, 32>>, minutes |-> <<5, 60>>,
           refrigerate |-> <<0, 20>>, heat |-> <<35, 50>>, freeze |-> <<-15, -1>>]

\* FAN_SPEEDS, SEAT_VENTILATION_LEVELS, FRIDGE_MODES and the preconditioning modes there are.
Known == [fan |-> 1..10, seat |-> 0..3, fridge |-> {1, 2, 4}, battery |-> {0, 1}]

Within(n, bounds) == Whole(bounds[1]) <= n /\ n <= Whole(bounds[2])
---------------------------------------------------------------------------------
(* What is accepted *)

\* validate_climate and validate_fridge, validate_fan_speed and the like, by the value's kind.
Accepts(kind, n) ==
    /\ n # None
    /\ CASE kind = "minutes" -> n % 4 = 0 /\ Within(n, Bounds.minutes)
         [] kind \in DOMAIN Bounds \ {"minutes"} -> Within(n, Bounds[kind])
         [] kind \in DOMAIN Known -> n % 4 = 0 /\ n \div 4 \in Known[kind]
         [] OTHER -> n % 4 = 0 /\ n > 0

\* validate_climate: the cabin is set in half degrees.
HalfDegrees(n) == 2 * Rounded(n, 2)

\* validate_fridge: the fridge is set in whole degrees.
WholeDegrees(n) == Whole(Rounded(n, 4))

\* What is sent of an accepted value; any other than a temperature is a whole number already.
Sent(kind, n) ==
    CASE kind = "temperature" -> HalfDegrees(n)
      [] kind \in {"refrigerate", "heat", "freeze"} -> WholeDegrees(n)
      [] OTHER -> n
---------------------------------------------------------------------------------
(* What is offered: whole values; {None} where the list does not say.  An entry of a group has its
   switch, the level of the field, the limits it names and the codes it lists. *)

Unsaid == {None}
Controls == {2, 3}

\* _available: where the entries that are switched on are listed.
Available(entries) == {p \in DOMAIN entries : entries[p].on}

\* _between: the non-zero accepted values within the limits.
Between(e, accepted) ==
    IF e.low = None \/ e.high = None \/ e.low % 4 # 0 \/ e.high % 4 # 0 THEN Unsaid
    ELSE {v \in accepted : v # 0 /\ e.low <= Whole(v) /\ Whole(v) <= e.high}

\* Mutant of Span: the limits are rounded outwards.
SpanOutward(e, bounds, per) ==
    IF e.low = None \/ e.high = None THEN Unsaid
    ELSE {v \in bounds[1]..bounds[2] : e.low \div (4 * per) <= v /\ v <= Ceiling(e.high, 4 * per)}

\* _span: the whole values within the limits and the bounds; per converts the unit.
Span(e, bounds, per) ==
    IF e.low = None \/ e.high = None THEN Unsaid
    ELSE {v \in bounds[1]..bounds[2] : Ceiling(e.low, 4 * per) <= v /\ v <= e.high \div (4 * per)}

\* _codes: the listed codes there are; of outlets and air sources any positive one.
Listed(kind, e) ==
    IF e.codes = Unsaid THEN Unsaid
    ELSE {c \in e.codes : IF kind \in DOMAIN Known THEN c \in Known[kind] ELSE c > 0}

\* ranges_from_capabilities, by the kind of value.
Values(kind, e) ==
    CASE kind \in {"fan", "seat"} -> Between(e, Known[kind])
      [] kind \in DOMAIN Bounds -> Span(e, Bounds[kind], IF kind = "minutes" THEN 60 ELSE 1)
      [] OTHER -> Listed(kind, e)

\* _choices: by the first entry that is switched on and states the field; {} without control of it.
Offered(kind, entries) ==
    LET stating == {p \in Available(entries) : entries[p].level # None}
        first == entries[Min(stating)]
    IN  IF stating = {} THEN Unsaid
        ELSE IF first.level \notin Controls THEN {}
        ELSE Values(kind, first)
=================================================================================
