--------------------------------- MODULE Equipment ---------------------------------
(***************************************************************************)
(* What a caller knows of one car: capabilities.py's Capabilities, the evidence *)
(* it collects from decoded reports, from the capability list and from the        *)
(* results of commands, kept over restarts; and next to it what a report says of   *)
(* the car's body (StatusReport) and which values its list offers (CommandValues).  *)
(* The car, the service and the caller, who hands each answer to its method, are    *)
(* external.                                                                *)
(***************************************************************************)
EXTENDS StatusReport, CommandResult

V == INSTANCE CommandValues

CONSTANTS
    Cars,           \* cars: what is fitted, and whether the model is given as an Aion UT
    MinGroups,      \* _MIN_GROUPS
    Reports,        \* decoded status reports: fields, and the items of seats and tyres
    Manifests,       \* capability lists: how each deals with the groups
    Bodies,         \* reports of the car's body, each with what it is true of
    Lists           \* entries of a capability list, each with the kind of value they limit

VARIABLES
    car,        \* what is really fitted: levels 0 none, 1 read, 2 control, 3 both
    evidence,   \* Capabilities: readings, commands, flags (_equipment)
    order,      \* the command under way, and how far the car is with it
    holds,      \* a body report or a list of values the caller is looking at
    \* Read by properties only:
    applied,    \* commands the car really did
    posed,      \* readings that were reported of what is not fitted
    told        \* told[g]: what the lists that count have said last of a group, and if rightly

history == <<applied, posed, told>>
vars == <<car, evidence, order, holds, history>>

\* Position 1 stands for the four positions of seats and tyres, which are treated alike.
ItemReadings == {"seat_1_ventilation_on", "tyre_1_pressure"}
Fields == {"latitude", "longitude", "headlights_on", "fridge_mode", "steering_heat_on"}
Readings == Fields \cup ItemReadings
Features == Readings \cup {"location", "fridge", "steering_heat", "seat_1_ventilation"}
Commands == {"fridge-on", "fridge-off", "seat-1-ventilation-on"}
READ == {1, 3}
CONTROL == {2, 3}
SWITCH == {1, 2, 3}     \* granted by the group's own switch, controlCapability

\* EQUIPMENT_READINGS, COMMAND_FEATURES and _CAPABILITY_FEATURES.
ReadingsOf(f) ==
    CASE f = "location" -> {"latitude", "longitude"}
      [] f = "fridge" -> {"fridge_mode"}
      [] f = "steering_heat" -> {"steering_heat_on"}
      [] OTHER -> {}
FeatureOf(c) == IF c = "seat-1-ventilation-on" THEN "seat_1_ventilation" ELSE "fridge"
GroupOf(f) ==
    CASE f \in {"location", "latitude", "longitude"} -> "position"
      [] f \in {"fridge", "fridge_mode"} -> "fridge"
      [] f \in {"steering_heat", "steering_heat_on"} -> "steering"
      [] f \in {"seat_1_ventilation", "seat_1_ventilation_on"} -> "seat"
      [] f = "tyre_1_pressure" -> "tyre"
      [] OTHER -> "lights"
LevelsOf(f) ==
    CASE f \in {"fridge", "seat_1_ventilation"} -> CONTROL
      [] f \in {"steering_heat", "steering_heat_on"} -> SWITCH
      [] OTHER -> READ
Groups == {"fridge", "steering", "seat", "tyre", "position"}
Listable == Features \ {"headlights_on"}
Values == {"absent", "unknown", "off", "on"}

\* How a list deals with a group: it lists it with its level, without saying its level, as an
\* empty list, or not at all.
Manners == {"listed", "unstated", "empty", "left out"}

ASSUME EquipmentAssumption ==
    /\ MinGroups \in Nat
    /\ \A c \in Cars : c.level \in [Groups \cup {"lights"} -> 0..3] /\ c.ut \in BOOLEAN
    /\ Manifests \subseteq [Groups -> Manners]
    /\ \A r \in Reports :
          /\ r.fields \in [Fields -> Values]
          /\ r.items \subseteq [reading : ItemReadings, position : Nat, value : Values]

\* Each item tells the truth as far as it is valid; a tyre or seat only if no other item has its
\* number.  The rear doors of an Aion UT are locked with its front doors.
TrueDoor(i, b) ==
    /\ i.mode \in Int
    /\ i.lock = 0 => i.id \in b.locked
    /\ i.lock = 1 => i.id \in (1..4) \ b.locked
    /\ i.flag # "invalid" /\ i.mode >= 0 => (i.mode > 0) = (i.id \in b.open)
TrueHatch(i, b) ==
    LET open == IF i.id = 1 THEN b.bonnet ELSE b.boot
    IN  i.mode \in Int /\ (i.mode = 0 => ~open) /\ (i.mode > 0 /\ i.flag # "invalid" => open)
TrueTyre(i, b) ==
    /\ i.pressure \in Int /\ i.temperature \in Int
    /\ i.pflag # "invalid" /\ i.pressure >= 0 => i.pressure = b.pressure[i.id]
    /\ i.tflag # "invalid" /\ <<i.pressure, i.temperature>> # <<-1, -1>> =>
           i.temperature \in {None, b.temperature[i.id]}
TrueSeat(i, b) == i.wind \in {0, 1} => (i.wind = 1 /\ i.strength # 0) = (i.id \in b.on)
TrueBrake(i, b) == i.listed => i.reasons \subseteq Int /\ ((\E r \in i.reasons : r > 0) = b.low)
TrueSwitches(b) ==
    /\ b.compressor \in Int /\ b.fan \in Int
    /\ b.compressor = 1 \/ b.fan > 0 => b.on
    /\ b.compressor >= 0 /\ b.compressor # 1 /\ b.fan = 0 => ~b.on
    /\ (b.light = 1 => b.lit) /\ (b.light \in {0, -1} => ~b.lit)

ASSUME BodyAssumption ==
    \A b \in Bodies :
        LET given == ToSet(b.items)
            alone == UNION {Only(b.items, n) : n \in 1..4}
        IN  /\ b.items \in Seq(given)
            /\ CASE b.kind = "doors" ->
                        /\ b.locked \subseteq 1..4 /\ b.ut \in BOOLEAN /\ \A i \in given : TrueDoor(i, b)
                        /\ b.ut /\ {1, 2} \subseteq b.locked => b.locked = 1..4
                 [] b.kind = "hatches" -> \A i \in given : i.object => TrueHatch(i, b)
                 [] b.kind = "tyres" -> \A i \in alone : TrueTyre(i, b)
                 [] b.kind = "seats" -> \A i \in alone : TrueSeat(i, b)
                 [] b.kind = "brakes" -> \A i \in given : TrueBrake(i, b)
                 [] OTHER -> TrueSwitches(b)

\* The entries of a list that are switched on and state a field say the same of it.
ASSUME ListAssumption ==
    \A l \in Lists :
        LET stating == {i \in ToSet(l.entries) : i.on /\ i.level # None}
        IN  /\ l.entries \in Seq(ToSet(l.entries))
            /\ \A i, j \in stating : i = j
            /\ \A i \in stating : i.low \in Int /\ i.high \in Int /\ i.codes \subseteq Int

Fresh == [readings |-> {}, commands |-> {}, flags |-> <<>>]
NoOrder == [name |-> "none", stage |-> "none"]
Nothing == [kind |-> "nothing"]

Init ==
    /\ car \in Cars
    /\ evidence = Fresh
    /\ order = NoOrder /\ holds = Nothing
    /\ applied = {} /\ posed = {} /\ told = [g \in Groups |-> "nothing"]
---------------------------------------------------------------------------------
(* Capabilities *)

\* _known, and _SEEN_WHEN_ON: a light proves itself only when it is on.
Evident(f, value) == value = "on" \/ (value = "off" /\ f # "headlights_on")

\* What a report has of a reading: a field, or the items of a seat or tyre by their position,
\* never by their place in the list.
Given(report, f) ==
    IF f \in Fields THEN {report.fields[f]}
    ELSE {i.value : i \in {j \in report.items : j.reading = f /\ j.position = 1}}

\* observe
Observed(report) == {f \in Readings : \E value \in Given(report, f) : Evident(f, value)}

\* _flag: unknown if no available entry states the field, unless it is the group's own switch.
Flag(entries, levels) ==
    LET on == {e \in ToSet(entries) : e.on}
        stating == {e \in on : e.level # None}
        named == IF levels = SWITCH THEN on # {} ELSE \E e \in stating : e.level \in levels
    IN  Told(named, ~named /\ (stating # {} \/ on = {}))

\* The groups of an answer are lists, some of them empty.
Size(answer) == Cardinality(DOMAIN answer.groups) + answer.others

\* Mutant of Complete: an answer is taken however small it is.
CompleteAlways(answer) == TRUE

\* _remote_groups: an answer of too few groups is not relied on.
Complete(answer) == Size(answer) >= MinGroups

\* _available: the entries of a group that is not in the answer are none.
EntriesOf(answer, g) == IF g \in DOMAIN answer.groups THEN answer.groups[g] ELSE <<>>

\* equipment_from_capabilities
FlagsOf(answer) ==
    LET said(f) == Flag(EntriesOf(answer, GroupOf(f)), LevelsOf(f))
        listed == {f \in Listable : Complete(answer) /\ said(f) # "unknown"}
    IN  [f \in listed |-> said(f)]

\* observe_equipment
Merged(flags, new, replace) ==
    LET kept == IF replace THEN {} ELSE DOMAIN flags \ DOMAIN new
    IN  [f \in kept \cup DOMAIN new |-> IF f \in DOMAIN new THEN new[f] ELSE flags[f]]

\* Mutant of Restored: names of another version are kept.
RestoredAll(s) == IF s.version # 1 THEN Fresh ELSE s.state

\* restore, into a new object: only what this version knows.
Restored(s) ==
    IF s.version # 1 THEN Fresh
    ELSE [readings |-> s.state.readings \cap Readings, commands |-> s.state.commands \cap Commands,
          flags |-> [f \in DOMAIN s.state.flags \cap Features |-> s.state.flags[f]]]

Support(state, source) == [state |-> state, source |-> source]

\* A location needs both its readings, other equipment one of its readings.
Read(f) ==
    \/ f \in evidence.readings
    \/ f = "location" /\ ReadingsOf(f) \subseteq evidence.readings
    \/ f # "location" /\ ReadingsOf(f) \cap evidence.readings # {}

Flagged(f) == IF evidence.flags[f] = "yes" THEN "supported" ELSE "unsupported"

\* feature: flags first, then readings, confirmed commands, and the model's default.
Feature(f) ==
    IF f \in DOMAIN evidence.flags THEN Support(Flagged(f), "vehicle_equipment")
    ELSE IF Read(f) THEN Support("supported", "observed_telemetry")
    ELSE IF \E c \in evidence.commands : FeatureOf(c) = f THEN Support("supported", "confirmed_command")
    ELSE IF car.ut /\ f \in {"fridge", "steering_heat", "tyre_1_pressure"} THEN
        Support("unsupported", "model_default")
    ELSE Support("unknown", "not_observed")

\* command: each is confirmed for itself, unless the list denies its equipment.
Command(c) ==
    LET equipment == Feature(FeatureOf(c))
    IN  IF equipment = Support("unsupported", "vehicle_equipment") THEN equipment
        ELSE IF c \in evidence.commands THEN Support("supported", "confirmed_command")
        ELSE IF equipment.state = "unsupported" THEN equipment
        ELSE Support("unknown", "not_confirmed")
---------------------------------------------------------------------------------
(* What the car and the service may answer *)

Level(f) == car.level[GroupOf(f)]

\* A report may show a value of what is not fitted, but no light that is not fitted is ever on.
CanReport(report) == report.fields["headlights_on"] = "on" => Level("headlights_on") > 0

\* A group that is not fitted is switched off, and its level then is a default of a template.
Entries(g, manner) ==
    LET level == IF car.level[g] = 0 THEN 3 ELSE car.level[g]
    IN  IF manner \in {"empty", "left out"} THEN <<>>
        ELSE <<[on |-> car.level[g] > 0, level |-> IF manner = "listed" THEN level ELSE None]>>

\* A list with its groups dealt with in some manner, and few or many others.
List(manner, others) ==
    [groups |-> [g \in {x \in Groups : manner[x] # "left out"} |-> Entries(g, manner[g])],
     others |-> others]

\* What a list says of a group: wrongly nothing is there, if it lists no entry of what is fitted.
Saying(manner, g) ==
    IF car.level[g] = 0 THEN "right"
    ELSE CASE manner[g] = "listed" -> "right"
           [] manner[g] = "unstated" -> IF g = "steering" THEN "right" ELSE "nothing"
           [] OTHER -> "wrong"

Answer(success, code) == [object |-> TRUE, success |-> success, codes |-> <<code>>, items |-> <<>>]

\* The reply to a command, and the result of one at each of its stages.
Replies == {Answer("applied", "odd"), Answer("absent", "ongoing"), Answer("refused", "applied")}
Results(stage) ==
    CASE stage = "under way" -> {Answer("absent", "ongoing"), Answer("applied", "ongoing")}
      [] stage = "done" -> {Answer("applied", "absent"), Answer("absent", "applied"), Answer("absent", "odd")}
      [] OTHER -> {Answer("refused", "applied"), Answer("absent", "refused"), Answer("absent", "odd")}
---------------------------------------------------------------------------------
ReadStatus ==
    /\ holds = Nothing
    /\ \E report \in Reports :
          /\ CanReport(report)
          /\ evidence' = [evidence EXCEPT !.readings = @ \cup Observed(report)]
          /\ posed' = posed \cup {f \in Readings : Level(f) = 0 /\ Given(report, f) \cap {"off", "on"} # {}}
    /\ UNCHANGED <<car, order, holds, applied, told>>

ReadCapabilities ==
    /\ holds = Nothing
    /\ \E manner \in Manifests, others \in {0, MinGroups}, replace \in BOOLEAN :
          LET answer == List(manner, others)
              counts(g) == Size(answer) >= MinGroups /\ Saying(manner, g) # "nothing"
          IN  /\ evidence' = [evidence EXCEPT !.flags = Merged(@, FlagsOf(answer), replace)]
              /\ told' = [g \in Groups |-> IF counts(g) THEN Saying(manner, g)
                                            ELSE IF replace THEN "nothing" ELSE told[g]]
    /\ UNCHANGED <<car, order, holds, applied, posed>>

\* A command is sent and accepted, or refused at once.
SendCommand(c, reply) ==
    /\ holds = Nothing /\ order = NoOrder
    /\ order' = IF Accepted(reply) THEN [name |-> c, stage |-> "under way"] ELSE NoOrder
    /\ UNCHANGED <<car, evidence, holds, history>>

\* The car applies it, if it can be controlled, or refuses it.
CarDoes ==
    /\ order.stage = "under way"
    /\ \/ /\ Level(FeatureOf(order.name)) \in CONTROL
          /\ order' = [order EXCEPT !.stage = "done"]
          /\ applied' = applied \cup {order.name}
       \/ order' = [order EXCEPT !.stage = "refused"] /\ UNCHANGED applied
    /\ UNCHANGED <<car, evidence, holds, posed, told>>

\* The result is asked for until there is one; a success is confirmed (confirm_command).
PollResult(m) ==
    /\ holds = Nothing /\ order # NoOrder /\ m \in Results(order.stage)
    /\ order' = IF Polled(m) = "executing" THEN order ELSE NoOrder
    /\ evidence' = IF Polled(m) = "applied" THEN [evidence EXCEPT !.commands = @ \cup {order.name}]
                   ELSE evidence
    /\ UNCHANGED <<car, holds, history>>

\* The caller starts again, from what it stored (export_state) or from what another version did.
Restart ==
    /\ holds = Nothing
    /\ \E version \in 1..2, odd \in {{}, {"odd"}} :
          /\ evidence' = Restored([version |-> version,
                                   state |-> [evidence EXCEPT !.readings = @ \cup odd, !.commands = @ \cup odd]])
          /\ posed' = IF version = 1 THEN posed ELSE {}
          /\ told' = IF version = 1 THEN told ELSE [g \in Groups |-> "nothing"]
    /\ order' = NoOrder
    /\ UNCHANGED <<car, holds, applied>>

\* The caller looks at a body report or at the values a list offers, and puts it away.
ReadBody(b) ==
    /\ evidence = Fresh /\ order = NoOrder /\ holds = Nothing
    /\ holds' = [kind |-> "body", report |-> b]
    /\ UNCHANGED <<car, evidence, order, history>>

ReadRanges(l) ==
    /\ evidence = Fresh /\ order = NoOrder /\ holds = Nothing
    /\ holds' = [kind |-> "ranges", list |-> l, offered |-> V!Offered(l.kind, l.entries)]
    /\ UNCHANGED <<car, evidence, order, history>>

PutAway ==
    /\ holds # Nothing
    /\ holds' = Nothing
    /\ UNCHANGED <<car, evidence, order, history>>

Next ==
    \/ ReadStatus \/ ReadCapabilities \/ CarDoes \/ Restart \/ PutAway
    \/ \E c \in Commands, reply \in Replies : SendCommand(c, reply)
    \/ \E m \in Results(order.stage) : PollResult(m)
    \/ \E b \in Bodies : ReadBody(b)
    \/ \E l \in Lists : ReadRanges(l)

Spec == Init /\ [][Next]_vars
---------------------------------------------------------------------------------
\* Every part of the state has its type.
TypeOK ==
    /\ car \in Cars
    /\ evidence.readings \subseteq Readings /\ evidence.commands \subseteq Commands
    /\ DOMAIN evidence.flags \subseteq Features /\ \A f \in DOMAIN evidence.flags : evidence.flags[f] \in {"yes", "no"}
    /\ order.name \in Commands \cup {"none"} /\ order.stage \in {"none", "under way", "done", "refused"}
    /\ holds.kind \in {"nothing", "body", "ranges"}
    /\ applied \subseteq Commands /\ posed \subseteq Readings
    /\ told \in [Groups -> {"nothing", "right", "wrong"}]

\* A value of a reading is taken to show its equipment, a light only if it is on, and a
\* location only by both its readings.
Posing(f) ==
    /\ f # "headlights_on"
    /\ IF f = "location" THEN {"latitude", "longitude"} \subseteq posed
       ELSE ({f} \cup ReadingsOf(f)) \cap posed # {}

\* Whatever mix of reports, lists, restarts and results it has seen, the library is wrong of a car
\* only where it was told so.  What a list says of a group decides, whatever the readings show: it is
\* right of a group it lists, and unsupported is wrong only of one that an answer with enough groups
\* left out or empty.  Without a list only what is fitted, or was reported by a reading of its
\* own though it is not, is supported: never a seat's ventilation because it reads as off, nor a light
\* that was not on.  A command is supported only if the car has done it (feature, command).
SupportSound ==
    /\ \A f \in Listable :
          CASE told[GroupOf(f)] = "right" -> (Feature(f).state = "supported") = (Level(f) \in LevelsOf(f))
            [] told[GroupOf(f)] = "wrong" -> Feature(f).state = "unsupported"
            [] OTHER -> Feature(f).source # "vehicle_equipment"
    /\ \A f \in Features : Feature(f).state = "supported" => Level(f) > 0 \/ Posing(f)
    /\ \A c \in Commands :
          Command(c).state = "supported" => c \in applied /\ Feature(FeatureOf(c)).state = "supported"

Agrees(answer, fact) == (answer = "yes" => fact) /\ (answer = "no" => ~fact)

\* What a damaged report says of the car.  Whatever of it is missing, listed twice, flagged or no
\* object, locked is said only of four locked doors, off only of what is off, a tyre has its own values
\* or none, and no single door contradicts the whole.  Open is said only if a door is; but that none is
\* says no more than it does of the doors listed validly: of an open one that is missing or flagged
\* it says nothing (from_results, any_open).
DecodedTruth ==
    holds.kind = "body" =>
        LET b == holds.report  items == b.items
            open == {items[i].id : i \in {j \in DOMAIN items : items[j].flag # "invalid" /\ items[j].id \in b.open}}
        IN  CASE b.kind = "doors" ->
                     /\ Agrees(DoorsLocked(items, b.ut), b.locked = 1..4)
                     /\ Agrees(AnyOpen(items), open # {})
                     /\ \A n \in 1..4 : /\ Agrees(Opened(items, n), n \in b.open)
                                        /\ Opened(items, n) = "yes" => AnyOpen(items) = "yes"
              [] b.kind = "hatches" -> Agrees(HatchOpen(items, TRUE), b.bonnet) /\ Agrees(HatchOpen(items, FALSE), b.boot)
              [] b.kind = "tyres" -> \A n \in 1..4 : /\ Tyre(items, n).pressure \in {None, b.pressure[n]}
                                                    /\ Tyre(items, n).temperature \in {None, b.temperature[n]}
              [] b.kind = "seats" -> \A n \in 1..4 : Agrees(SeatVentilated(items, n), n \in b.on)
              [] b.kind = "brakes" -> Agrees(BrakeFluidLow(items), b.low)
              [] OTHER -> Agrees(AcOn(b.compressor, b.fan), b.on) /\ Agrees(LightOn(b.light), b.lit)

\* What the car takes of a value by the limits or codes of an entry.
Takes(kind, e, v) ==
    CASE kind \in DOMAIN V!Bounds -> LET sent == IF kind = "minutes" THEN 60 * v ELSE v
                                    IN  e.low <= V!Whole(sent) /\ V!Whole(sent) <= e.high
      [] kind \in {"fan", "seat"} -> v # 0 /\ e.low <= V!Whole(v) /\ V!Whole(v) <= e.high
      [] OTHER -> v \in e.codes

\* Whether an entry says which values of a kind the car takes.
Says(kind, e) ==
    CASE kind \in DOMAIN V!Bounds -> e.low # None /\ e.high # None
      [] kind \in {"fan", "seat"} -> e.low # None /\ e.high # None /\ e.low % 4 = 0 /\ e.high % 4 = 0
      [] OTHER -> e.codes # V!Unsaid

\* Of the whole values exactly those are offered that the library accepts and the switched-on list
\* takes, none is lost or added by rounding or units, and checking a value again, as
\* build_body does, changes nothing (ranges_from_capabilities, validate_climate, validate_fridge).
ExactlyOf(values, quarters) ==
    holds.kind = "ranges" =>
        LET kind == holds.list.kind
            on == {e \in ToSet(holds.list.entries) : e.on /\ e.level \in V!Controls}
        IN  /\ IF holds.offered = V!Unsaid THEN \A e \in on : ~Says(kind, e)
               ELSE \A v \in values : v \in holds.offered <=>
                        V!Accepts(kind, V!Whole(v)) /\ \E e \in on : Takes(kind, e, v)
            /\ \A n \in quarters : V!Accepts(kind, n) =>
                   V!Accepts(kind, V!Sent(kind, n)) /\ V!Sent(kind, V!Sent(kind, n)) = V!Sent(kind, n)

\* So it is of the values from -20 to 70 and of every quarter between them.
OfferedExactly == ExactlyOf(-20..70, -80..280)
=================================================================================
