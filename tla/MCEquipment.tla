------------------------------ MODULE MCEquipment ------------------------------
(* Instances of Equipment for TLC: four cars, reports and lists of their equipment,
   damaged body reports, and capability entries with limits between the whole numbers. *)
EXTENDS Equipment

Car(fridge, steering, seat, tyre, position, lights, ut) ==
    [level |-> [fridge |-> fridge, steering |-> steering, seat |-> seat, tyre |-> tyre,
                position |-> position, lights |-> lights], ut |-> ut]

\* A car with everything, one that shows some but controls nothing, and two Aion UTs.
FourCars == {Car(3, 2, 3, 1, 1, 1, FALSE), Car(1, 0, 1, 0, 0, 0, FALSE), Car(0, 0, 2, 0, 1, 0, TRUE),
             Car(2, 0, 0, 1, 1, 1, TRUE)}

Item(reading, position, value) == [reading |-> reading, position |-> position, value |-> value]
Decoded(value, light, items) ==
    [fields |-> [f \in Fields |-> IF f = "headlights_on" THEN light ELSE value], items |-> items]

\* Everything on or off, or only one half of a location; a light and a seat that are on; and a
\* tyre in a position that no reading is named after.
SomeReports ==
    {Decoded("on", "on", {Item("seat_1_ventilation_on", 1, "on"), Item("tyre_1_pressure", 1, "on")}),
     Decoded("off", "off", {Item("seat_1_ventilation_on", 1, "off"), Item("tyre_1_pressure", 5, "on")}),
     Decoded("unknown", "on", {Item("tyre_1_pressure", 1, "unknown")}),
     [Decoded("absent", "absent", {Item("seat_1_ventilation_on", 1, "off")}) EXCEPT !.fields["latitude"] = "on"]}

\* A whole list, and lists that leave groups out, empty or without a level.
SomeManifests ==
    LET whole == [g \in Groups |-> "listed"]
    IN  {whole, [g \in Groups |-> "left out"], [g \in Groups |-> "unstated"], [whole EXCEPT !["seat"] = "empty"],
         [whole EXCEPT !["fridge"] = "left out", !["seat"] = "unstated"],
         [whole EXCEPT !["steering"] = "unstated", !["position"] = "left out", !["fridge"] = "empty"],
         [whole EXCEPT !["tyre"] = "empty", !["steering"] = "left out"]}
---------------------------------------------------------------------------------
NoObject == [object |-> FALSE, id |-> None, lock |-> None, mode |-> None, flag |-> "absent"]

\* One item lost, listed twice in another's place, no object, unknown, or flagged with a wrong mode.
Damaged(items) ==
    LET n == Len(items)
    IN  {items} \cup {RemoveAt(items, i) : i \in 1..n}
        \cup {ReplaceAt(items, i, items[j]) : i \in 1..n, j \in 1..n}
        \cup {ReplaceAt(items, i, NoObject) : i \in 1..n}
        \cup {ReplaceAt(items, i, [items[i] EXCEPT !.lock = -1, !.mode = -1]) : i \in 1..n}
        \cup {ReplaceAt(items, i, [items[i] EXCEPT !.flag = "invalid", !.mode = 1 - @]) : i \in 1..n}

Doors(locked, open, ut) ==
    LET item(n) == [object |-> TRUE, id |-> n, flag |-> "valid", mode |-> IF n \in open THEN 1 ELSE 0,
                    lock |-> IF ut /\ n > 2 THEN -1 ELSE IF n \in locked THEN 0 ELSE 1]
    IN  {[kind |-> "doors", items |-> items, ut |-> ut, locked |-> locked, open |-> open] :
             items \in Damaged([n \in 1..4 |-> item(n)])}

\* The front locks of an Aion UT are reported, and the rear ones follow them.
DoorReports ==
    UNION {Doors(locked, open, FALSE) : locked \in SUBSET (1..4), open \in {{}, {2}}}
    \cup UNION {Doors(locked, {}, TRUE) : locked \in {{}, {1}, {2}, 1..4}}

\* A hatch as it is, flagged invalid, or flagged with a mode that is none; a closed one is 0.
Hatch(id, open) ==
    LET item(mode, flag) == [object |-> TRUE, id |-> id, mode |-> mode, flag |-> flag]
    IN  {item(IF open THEN 1 ELSE 0, "valid"), item(2, "invalid"), item(-1, "valid")}
        \cup (IF open THEN {} ELSE {item(0, "invalid")})
HatchReports ==
    UNION {{[kind |-> "hatches", items |-> items, open |-> {}, bonnet |-> bonnet, boot |-> boot] :
                items \in {<<b, h>> : b \in Hatch(1, bonnet), h \in Hatch(3, boot)}
                          \cup {<<h>> : h \in Hatch(None, boot)}} : bonnet \in BOOLEAN, boot \in BOOLEAN}

\* Tyres as they are, as placeholders, flagged, and one listed under two others' number.
TyreItem(id, pressure, temperature, pflag, tflag) ==
    [object |-> TRUE, id |-> id, pressure |-> pressure, temperature |-> temperature,
     pflag |-> pflag, tflag |-> tflag, flag |-> "absent"]
TyreReports ==
    LET pressure == <<240, 250, 0, 230>>  temperature == <<-1, 20, 5, -1>>
        true(n) == TyreItem(n, pressure[n], temperature[n], "valid", "valid")
        forms(n) == {true(n), TyreItem(n, -1, -1, "absent", "absent"), TyreItem(n, 9, 9, "invalid", "invalid"),
                     TyreItem(n, -1, temperature[n], "valid", IF temperature[n] = -1 THEN "invalid" ELSE "valid")}
        whole == {<<a, b>> : a \in forms(1), b \in forms(2)} \cup {<<a, b>> : a \in forms(3), b \in forms(4)}
        twice == {<<true(1), [true(2) EXCEPT !.id = 1], [true(4) EXCEPT !.id = 1]>>,
                  <<[true(2) EXCEPT !.id = 1], true(1), true(3)>>}
    IN  {[kind |-> "tyres", items |-> items, open |-> {}, pressure |-> pressure, temperature |-> temperature] :
             items \in whole \cup twice}

\* A seat's strength may be left out, and its enable code may be one nobody knows.
SeatItem(id, wind, strength) ==
    [object |-> TRUE, id |-> id, wind |-> wind, strength |-> strength, flag |-> "absent"]
SeatReports ==
    LET forms(n, on) == IF on THEN {SeatItem(n, 1, 2), SeatItem(n, 1, None), SeatItem(n, 2, 1)}
                        ELSE {SeatItem(n, 1, 0), SeatItem(n, 0, 2), SeatItem(n, 0, None), SeatItem(n, 2, 1)}
    IN  UNION {{[kind |-> "seats", items |-> items, open |-> {}, on |-> on] :
                    items \in {<<a, b>> : a \in forms(1, 1 \in on), b \in forms(2, 2 \in on)}
                              \cup {<<b, a, [a EXCEPT !.id = 2]>> : a \in forms(1, 1 \in on), b \in forms(2, 2 \in on)}} :
                   on \in SUBSET {1, 2}}

BrakeReports ==
    {[kind |-> "brakes", open |-> {}, low |-> low,
      items |-> <<[listed |-> listed, reasons |-> IF low THEN {0, 4} ELSE {None, 0}, flag |-> "absent", id |-> None]>>] :
         low \in BOOLEAN, listed \in BOOLEAN}

\* The compressor, the fan and a light, each as it is or left out; an unlit light may read -1.
SwitchReports ==
    UNION {{[kind |-> "switches", items |-> <<>>, open |-> {}, compressor |-> c, fan |-> f, light |-> l,
             on |-> compressor = 1 \/ fan > 0, lit |-> lit] :
                c \in {compressor, -1, None}, f \in {fan, -1, None}, l \in {IF lit THEN 1 ELSE -1, 0 + (IF lit THEN 1 ELSE 0), 7}} :
               compressor \in {0, 1}, fan \in {0, 3}, lit \in BOOLEAN}

SomeBodies == DoorReports \cup HatchReports \cup TyreReports \cup SeatReports \cup BrakeReports \cup SwitchReports
---------------------------------------------------------------------------------
Entry(on, level, low, high, codes) == [on |-> on, level |-> level, low |-> low, high |-> high, codes |-> codes]

\* An entry alone, after a switched-off one, and after one that does not state the field.
Around(e) ==
    {<<e>>, <<[e EXCEPT !.on = FALSE, !.low = 0, !.high = 400, !.codes = {1, 2}], e>>, <<[e EXCEPT !.level = None], e>>}

Limits(kind, lows, highs) ==
    {[kind |-> kind, entries |-> entries] :
         entries \in UNION {Around(Entry(on, level, low, high, V!Unsaid)) :
                                on \in BOOLEAN, level \in {1, 3}, low \in lows \cup {None}, high \in highs}}
Listings(kind) ==
    {[kind |-> kind, entries |-> entries] :
         entries \in UNION {Around(Entry(TRUE, level, None, None, codes)) :
                                level \in {0, 2}, codes \in {V!Unsaid, {0, 1, 5}, {-1, 2, 60}}}}

SomeLists ==
    Limits("temperature", {64, 73}, {125, 140}) \cup Limits("minutes", {240, 1322}, {7239, 14400})
    \cup Limits("refrigerate", {-8, 1}, {81, 30}) \cup Limits("freeze", {-62, -43}, {-5, 3})
    \cup Limits("fan", {4, 30}, {28}) \cup Limits("seat", {0, 4}, {12})
    \cup Listings("fridge") \cup Listings("battery") \cup Listings("outlet")
=================================================================================
