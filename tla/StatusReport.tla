------------------------------- MODULE StatusReport -------------------------------
(***************************************************************************)
(* models.py: what a status says of the car's body, as "yes", "no" or           *)
(* "unknown", and of its tyres.  A report lists items in any order; an item has   *)
(* the number of what it is about and its fields, a number or None, or is no       *)
(* object at all.  Flags are "absent", "valid" or "invalid".                      *)
(***************************************************************************)
EXTENDS Integers, SequencesExt

None == -1000
Answers == {"yes", "no", "unknown"}
Told(yes, no) == IF yes THEN "yes" ELSE IF no THEN "no" ELSE "unknown"

\* Where the items numbered n are listed.
Numbered(items, n) == {p \in DOMAIN items : items[p].object /\ items[p].id = n}
---------------------------------------------------------------------------------
Locks(items) == {i.lock : i \in ToSet(items)}

\* Mutant of EveryDoor: four items are four doors.
FourItems(items) == Len(items) = 4

\* The four door numbers, each once.
EveryDoor(items) == Len(items) = 4 /\ {i.id : i \in ToSet(items)} = 1..4

\* The rear locks of an Aion UT are reported as -1.
RearSentinel(items) == \A i \in ToSet(items) : i.lock = IF i.id \in {1, 2} THEN 0 ELSE -1

\* _decode_door_locks: one unlocked door is enough to say so, locked needs every door.
DoorsLocked(items, ut) ==
    IF 1 \in Locks(items) THEN "no"
    ELSE Told(EveryDoor(items) /\ (Locks(items) = {0} \/ (ut /\ RearSentinel(items))), FALSE)

\* any_open and hatch_open, of the modes they take into account.
AnyPositive(modes) == Told(\E m \in modes : m # None /\ m > 0, modes # {} /\ modes \subseteq {0})

\* any_open: items flagged invalid are left out.
AnyOpen(items) == AnyPositive({i.mode : i \in {j \in ToSet(items) : j.flag # "invalid"}})

\* _opened, of the first item with the number.
Opened(items, n) ==
    LET found == Numbered(items, n)
        first == items[Min(found)]
    IN  IF found = {} \/ first.flag = "invalid" THEN "unknown" ELSE Told(first.mode > 0, first.mode = 0)

\* hatch_open: hatch 1 is the bonnet, the others are the boot, whose 0 counts even if flagged.
HatchOpen(items, hood) ==
    LET taken == {i \in ToSet(items) : i.object /\ ((i.id = 1) = hood)}
    IN  AnyPositive({IF i.flag # "invalid" \/ i.mode = 0 THEN i.mode ELSE None : i \in taken})

\* brake_fluid_low: a positive reason of an alarm, in the items that list alarms.
BrakeFluidLow(items) ==
    LET listing == {i \in ToSet(items) : i.listed}
    IN  Told(\E i \in listing : \E r \in i.reasons : r > 0, listing # {})

\* The A/C is on if the compressor or the fan says so, off only if both do; below 0 is unknown.
AcOn(compressor, fan) ==
    Told(compressor = 1 \/ fan > 0, compressor >= 0 /\ fan >= 0)

\* _light_on
LightOn(open) == Told(open = 1, open \in {0, -1})
---------------------------------------------------------------------------------
\* A tyre or seat listed twice is not read at all.
Only(items, n) == {items[p] : p \in {q \in DOMAIN items : Numbered(items, n) = {q}}}

\* A tyre's pressure and temperature: a -1 in both is a placeholder.
Tyre(items, n) ==
    LET item == Only(items, n)
        i == CHOOSE x \in item : TRUE
    IN  IF item = {} THEN [pressure |-> None, temperature |-> None]
        ELSE [pressure |-> IF i.pflag = "invalid" \/ i.pressure < 0 THEN None ELSE i.pressure,
              temperature |-> IF i.tflag = "invalid" \/ (i.pressure = -1 /\ i.temperature = -1) THEN None
                              ELSE i.temperature]

\* A seat's ventilation: enabled, and at a strength above 0 if it states one.
SeatVentilated(items, n) ==
    LET item == Only(items, n)
        i == CHOOSE x \in item : TRUE
    IN  IF item = {} THEN "unknown"
        ELSE Told(i.wind = 1 /\ i.strength # 0, i.wind = 0 \/ (i.wind = 1 /\ i.strength = 0))
=================================================================================
