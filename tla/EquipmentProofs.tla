----------------------------- MODULE EquipmentProofs -----------------------------
(***************************************************************************)
(* What is said of a car is true of it, whatever car it is: what is called        *)
(* supported, for any mix of reports, lists, restarts and results of commands;   *)
(* what a report of its body is decoded to; and the values its list offers.     *)
(*                                                                          *)
(* Each kind of evidence is sound for itself: a reading is of what is fitted, or  *)
(* was reported though it is not; the flags of a group are what the last list     *)
(* that counts said of it; a confirmed command was done by the car, and only by  *)
(* one that can.  Lists that are too small and stored names of another version    *)
(* add nothing; merging and restoring keep all this.                            *)
(*                                                                          *)
(* A report is decoded item by item: what is said of an item is true of the        *)
(* position it is read from, and what is said of the car needs the four doors to   *)
(* be found, which four numbers in four positions are.                            *)
(*                                                                          *)
(* Values are compared in quarters: a limit rounded inwards lets through exactly   *)
(* the whole numbers between the limits, in the unit the value is sent in.        *)
(***************************************************************************)
EXTENDS Equipment, FiniteSetTheorems, TLAPS

Stages == {"none", "under way", "done", "refused"}

\* The parts of the state that the evidence depends on.
Kinds ==
    /\ car \in Cars
    /\ DOMAIN evidence = {"readings", "commands", "flags"}
    /\ evidence.readings \subseteq Readings
    /\ evidence.commands \subseteq Commands
    /\ order \in [name : Commands \cup {"none"}, stage : Stages]
    /\ holds.kind \in {"nothing", "body", "ranges"}
    /\ applied \subseteq Commands /\ posed \subseteq Readings
    /\ told \in [Groups -> {"nothing", "right", "wrong"}]

\* What a list should say of an equipment.
Can(f) == IF Level(f) \in LevelsOf(f) THEN "yes" ELSE "no"

ReadingsTrue == \A f \in evidence.readings : Level(f) > 0 \/ (f \in posed /\ f # "headlights_on")

\* What a list said of an equipment, if it said anything.
Meant(said, f) == IF said = "right" THEN Can(f) ELSE "no"

FlagsTrue ==
    /\ DOMAIN evidence.flags \subseteq Listable
    /\ \A f \in Listable :
          /\ f \in DOMAIN evidence.flags <=> told[GroupOf(f)] # "nothing"
          /\ f \in DOMAIN evidence.flags => evidence.flags[f] = Meant(told[GroupOf(f)], f)

CommandsTrue ==
    /\ evidence.commands \subseteq applied
    /\ \A c \in applied : Level(FeatureOf(c)) \in CONTROL

\* Only a command under way, done or refused has a name; one that is done has been done.
OrderTrue ==
    /\ order.stage = "none" <=> order.name = "none"
    /\ order.stage = "done" => order.name \in applied

EvidenceInv == Kinds /\ ReadingsTrue /\ FlagsTrue /\ CommandsTrue /\ OrderTrue
----------------------------------------------------------------------------------
\* A level is one of four.
LEMMA Levels ==
    ASSUME car \in Cars, NEW f \in Features
    PROVE  Level(f) \in 0..3
BY EquipmentAssumption DEF Level, GroupOf, Features, Readings, Groups

\* A listed equipment has its group among those of a list, and one of the levels that grant it.
LEMMA Grouped ==
    ASSUME NEW f \in Listable
    PROVE  /\ GroupOf(f) \in Groups /\ LevelsOf(f) \in {READ, CONTROL, SWITCH}
           /\ LevelsOf(f) = SWITCH <=> GroupOf(f) = "steering"
<1>1. READ # SWITCH /\ CONTROL # SWITCH
    BY DEF READ, CONTROL, SWITCH
<1> QED
    BY <1>1 DEF Listable, Features, Readings, Fields, ItemReadings, GroupOf, Groups, LevelsOf

\* A reading that is taken from a report is of what is fitted, or is posed by it (observe).
LEMMA ObservedTrue ==
    ASSUME car \in Cars, NEW report, CanReport(report), NEW f \in Observed(report)
    PROVE  /\ f \in Readings
           /\ Level(f) > 0 \/ (f # "headlights_on" /\ Level(f) = 0 /\ Given(report, f) \cap {"off", "on"} # {})
<1>1. PICK value \in Given(report, f) : f \in Readings /\ Evident(f, value)
    BY DEF Observed
<1>2. Level(f) \in 0..3
    BY <1>1, Levels DEF Features
<1>3. value \in {"off", "on"}
    BY <1>1 DEF Evident
<1>4. ASSUME f = "headlights_on" PROVE Level(f) > 0
    <2>1. value = "on" /\ Given(report, f) = {report.fields["headlights_on"]}
        BY <1>1, <1>4 DEF Evident, Given, Fields
    <2> QED
        BY <1>1, <1>4, <2>1 DEF CanReport
<1> QED
    BY <1>1, <1>2, <1>3, <1>4

LEMMA OneEntry == ASSUME NEW e PROVE ToSet(<<e>>) = {e}
<1>1. DOMAIN <<e>> = {1} /\ <<e>>[1] = e
    OBVIOUS
<1> QED
    BY <1>1 DEF ToSet

\* What the entries of a group say of an equipment is what the list says of the group (_flag).
LEMMA FlagTrue ==
    ASSUME car \in Cars, NEW manner \in [Groups -> Manners], NEW f \in Listable
    PROVE  LET g == GroupOf(f)
           IN  Flag(Entries(g, manner[g]), LevelsOf(f)) =
                   IF Saying(manner, g) = "nothing" THEN "unknown" ELSE Meant(Saying(manner, g), f)
<1> DEFINE g == GroupOf(f)
           levels == LevelsOf(f)
           entries == Entries(g, manner[g])
           on == {e \in ToSet(entries) : e.on}
           stating == {e \in on : e.level # None}
<1>1. /\ g \in Groups /\ manner[g] \in Manners
      /\ levels \in {READ, CONTROL, SWITCH} /\ (levels = SWITCH <=> g = "steering")
    BY Grouped
<1>2. car.level[g] \in 0..3 /\ Level(f) = car.level[g]
    BY <1>1, EquipmentAssumption DEF Level
<1>3. Flag(entries, levels) =
          LET named == IF levels = SWITCH THEN on # {} ELSE \E e \in stating : e.level \in levels
          IN  Told(named, ~named /\ (stating # {} \/ on = {}))
    BY DEF Flag
<1> HIDE DEF g, levels
<1>4. 0 \notin levels
    BY <1>1 DEF READ, CONTROL, SWITCH
<1>5. Can(f) = IF car.level[g] \in levels THEN "yes" ELSE "no"
    BY <1>2 DEF Can, levels
\* The entry of a group that is listed.
<1> DEFINE level == IF car.level[g] = 0 THEN 3 ELSE car.level[g]
           e == [on |-> car.level[g] > 0, level |-> IF manner[g] = "listed" THEN level ELSE None]
<1>e. ASSUME manner[g] \notin {"empty", "left out"} PROVE ToSet(entries) = {e}
    <2>1. entries = <<e>>
        BY <1>e DEF Entries
    <2> QED
        BY <2>1, OneEntry
<1>s. (e.on <=> car.level[g] > 0) /\ e.level = IF manner[g] = "listed" THEN level ELSE None
    OBVIOUS
<1> HIDE DEF e
<1>o. ASSUME manner[g] \notin {"empty", "left out"} PROVE on = IF car.level[g] > 0 THEN {e} ELSE {}
    <2>1. \A x : x \in on <=> x = e /\ e.on
        BY <1>e, <1>o, Zenon
    <2> HIDE DEF on
    <2> QED
        BY <2>1, <1>s
\* No entry that is on: not fitted, empty or left out.
<1>6. CASE car.level[g] = 0 \/ manner[g] \in {"empty", "left out"}
    <2>1. on = {}
        <3>1. CASE manner[g] \in {"empty", "left out"}
            <4>1. entries = <<>>
                BY <3>1 DEF Entries
            <4>2. ToSet(entries) = {}
                BY <4>1 DEF ToSet
            <4> QED
                BY <4>2
        <3>2. CASE car.level[g] = 0 /\ manner[g] \notin {"empty", "left out"}
            <4>0. car.level[g] = 0
                BY <3>2, Zenon
            <4> HIDE DEF e, on, stating
            <4>1. ~(car.level[g] > 0)
                BY <4>0
            <4> QED
                BY <1>o, <3>2, <4>1, Zenon
        <3> QED
            BY <1>6, <3>1, <3>2
    <2>2. stating = {}
        BY <2>1
    <2>3. Flag(entries, levels) = "no"
        BY <1>3, <2>1, <2>2 DEF Told
    <2>4. car.level[g] = 0 => Can(f) = "no"
        BY <1>4, <1>5
    <2>5. /\ car.level[g] = 0 => Saying(manner, g) = "right"
          /\ car.level[g] # 0 => Saying(manner, g) = "wrong"
        BY <1>6 DEF Saying
    <2>6. Meant(Saying(manner, g), f) = "no" /\ Saying(manner, g) # "nothing"
        BY <2>4, <2>5 DEF Meant
    <2> QED
        BY <2>3, <2>6 DEF g, levels
\* One entry that is on, with the level or without.
<1>7. CASE car.level[g] # 0 /\ manner[g] = "listed"
    <2>1. e.level = car.level[g] /\ e.level # None
        BY <1>2, <1>7, <1>s DEF None
    <2>2. on = {e}
        BY <1>2, <1>7, <1>o
    <2>3. on = {e} /\ stating = {e}
        BY <2>1, <2>2
    <2>4. levels = SWITCH => car.level[g] \in levels
        BY <1>2, <1>7 DEF SWITCH
    <2>5. Flag(entries, levels) = Can(f)
        BY <1>3, <1>5, <2>1, <2>3, <2>4 DEF Told
    <2>6. Saying(manner, g) = "right"
        BY <1>7 DEF Saying
    <2> QED
        BY <2>5, <2>6 DEF Meant, g, levels
<1>8. CASE car.level[g] # 0 /\ manner[g] = "unstated"
    <2>1. e.level = None
        BY <1>8, <1>s
    <2>2. on = {e}
        BY <1>2, <1>8, <1>o
    <2>3. on = {e} /\ stating = {}
        BY <2>1, <2>2
    <2>4. CASE g = "steering"
        <3>1. Flag(entries, levels) = "yes"
            BY <1>1, <1>3, <2>3, <2>4 DEF Told
        <3>2. Can(f) = "yes"
            BY <1>1, <1>2, <1>5, <1>8, <2>4 DEF SWITCH
        <3>3. Saying(manner, g) = "right"
            BY <1>8, <2>4 DEF Saying
        <3> QED
            BY <3>1, <3>2, <3>3 DEF Meant, g, levels
    <2>5. CASE g # "steering"
        <3>1. Flag(entries, levels) = "unknown"
            BY <1>1, <1>3, <2>3, <2>5 DEF Told
        <3>2. Saying(manner, g) = "nothing"
            BY <1>8, <2>5 DEF Saying
        <3> QED
            BY <3>1, <3>2 DEF g, levels
    <2> QED
        BY <2>4, <2>5
<1> QED
    BY <1>1, <1>6, <1>7, <1>8 DEF Manners

\* The result of a command the car refused never reads as applied (interpret).
LEMMA RefusalNotApplied ==
    ASSUME NEW m \in {Answer("refused", "applied"), Answer("absent", "refused"), Answer("absent", "odd")}
    PROVE  Polled(m) # "applied"
<1>1. m.codes[1] # "ongoing"
    BY DEF Answer
<1>2. CASE m = Answer("refused", "applied")
    BY <1>1, <1>2 DEF Answer, Polled, Outcome
<1>3. CASE m = Answer("absent", "refused") \/ m = Answer("absent", "odd")
    <2>1. {i \in DOMAIN m.codes : m.codes[i] # "absent"} = {1}
        BY <1>3 DEF Answer
    <2>2. Min({1}) = 1
        BY DEF Min
    <2>3. Code(m) = m.codes[1]
        BY <2>1, <2>2 DEF Code
    <2>4. m.codes[1] \in {"refused", "odd"}
        BY <1>3 DEF Answer
    <2>5. m.success = "absent"
        BY <1>3 DEF Answer
    <2> QED
        BY <1>1, <2>3, <2>4, <2>5 DEF Polled, Outcome
<1> QED
    BY <1>2, <1>3

\* A list that counts says of each equipment what it says of its group, one that is too small
\* nothing (equipment_from_capabilities).
LEMMA ListTrue ==
    ASSUME car \in Cars, NEW manner \in [Groups -> Manners], NEW others
    PROVE  LET answer == List(manner, others)
               new == FlagsOf(answer)
               says(g) == Size(answer) >= MinGroups /\ Saying(manner, g) # "nothing"
           IN  /\ DOMAIN new \subseteq Listable
               /\ \A f \in Listable :
                      /\ f \in DOMAIN new <=> says(GroupOf(f))
                      /\ f \in DOMAIN new => new[f] = Meant(Saying(manner, GroupOf(f)), f)
<1> DEFINE answer == List(manner, others)
           said(f) == Flag(EntriesOf(answer, GroupOf(f)), LevelsOf(f))
           listed == {f \in Listable : Complete(answer) /\ said(f) # "unknown"}
<1>1. FlagsOf(answer) = [f \in listed |-> said(f)]
    BY DEF FlagsOf
<1>2. ASSUME NEW f \in Listable
      PROVE  said(f) = IF Saying(manner, GroupOf(f)) = "nothing" THEN "unknown" ELSE Meant(Saying(manner, GroupOf(f)), f)
    <2> DEFINE g == GroupOf(f)
    <2>1. g \in Groups
        BY Grouped
    <2>2. EntriesOf(answer, g) = Entries(g, manner[g])
        <3>1. answer.groups = [x \in {y \in Groups : manner[y] # "left out"} |-> Entries(x, manner[x])]
            BY DEF List
        <3>2. manner[g] = "left out" => Entries(g, manner[g]) = <<>>
            BY DEF Entries
        <3> QED
            BY <2>1, <3>1, <3>2 DEF EntriesOf
    <2> QED
        BY <2>2, FlagTrue
<1>3. \A f \in Listable : Meant(Saying(manner, GroupOf(f)), f) # "unknown"
    BY DEF Meant, Can
<1> HIDE DEF answer, said
<1>4. \A f \in Listable : f \in listed <=> Complete(answer) /\ Saying(manner, GroupOf(f)) # "nothing"
    BY <1>2, <1>3
<1>5. \A f \in listed : said(f) = Meant(Saying(manner, GroupOf(f)), f)
    BY <1>2, <1>4
<1>6. Complete(answer) <=> Size(answer) >= MinGroups
    BY DEF Complete
<1> HIDE DEF listed
<1>7. listed \subseteq Listable
    BY DEF listed
<1> QED
    BY <1>1, <1>4, <1>5, <1>6, <1>7 DEF answer
----------------------------------------------------------------------------------
(* What is decoded of a body report *)

LEMMA LeastNumber ==
    ASSUME NEW S \in SUBSET Nat, S # {}
    PROVE  \E n \in S : \A m \in S : n <= m
<1> DEFINE Below == {0..n : n \in S}
<1>1. Below \subseteq FiniteSubsetsOf(Nat) /\ Below # {}
    <2>1. \A n \in Nat : 0..n \in SUBSET Nat /\ IsFiniteSet(0..n)
        BY FS_Interval
    <2> QED
        BY <2>1 DEF FiniteSubsetsOf
<1>2. PICK x \in Below : \A y \in Below : <<y, x>> \notin StrictSubsetOrdering(Nat)
    BY <1>1, WFMin, FS_StrictSubsetOrderingWellFounded
<1>3. PICK n \in S : x = 0..n
    BY <1>2
<1>4. ASSUME NEW m \in S, m < n PROVE FALSE
    <2>1. 0..m \in SUBSET Nat /\ 0..n \in SUBSET Nat /\ 0..m \subseteq 0..n /\ 0..m # 0..n
        BY <1>4
    <2>2. <<0..m, 0..n>> \in StrictSubsetOrdering(Nat)
        BY <2>1 DEF StrictSubsetOrdering
    <2> QED
        BY <2>2, <1>2, <1>3
<1> QED
    BY <1>4

\* The first of some positions of a list is one of them.
LEMMA FirstPosition ==
    ASSUME NEW list, list \in Seq(ToSet(list)), NEW positions \in SUBSET DOMAIN list, positions # {}
    PROVE  Min(positions) \in positions
<1>1. positions \in SUBSET Nat
    OBVIOUS
<1> QED
    BY <1>1, LeastNumber DEF Min

\* Of four doors and their locks (_decode_door_locks, any_open, _opened).
LEMMA DoorsTrue ==
    ASSUME NEW b \in Bodies, b.kind = "doors"
    PROVE  LET items == b.items
               open == {items[i].id : i \in {j \in DOMAIN items : items[j].flag # "invalid" /\ items[j].id \in b.open}}
           IN  /\ Agrees(DoorsLocked(items, b.ut), b.locked = 1..4)
               /\ Agrees(AnyOpen(items), open # {})
               /\ \A n \in 1..4 : /\ Agrees(Opened(items, n), n \in b.open)
                                  /\ Opened(items, n) = "yes" => AnyOpen(items) = "yes"
<1> DEFINE items == b.items
<1>1. /\ items \in Seq(ToSet(items))
      /\ b.locked \subseteq 1..4 /\ b.ut \in BOOLEAN
      /\ \A i \in ToSet(items) : TrueDoor(i, b)
      /\ b.ut /\ {1, 2} \subseteq b.locked => b.locked = 1..4
    BY BodyAssumption
<1>2. \A p \in DOMAIN items : items[p] \in ToSet(items)
    BY DEF ToSet
<1>3. Agrees(DoorsLocked(items, b.ut), b.locked = 1..4)
    <2>1. CASE 1 \in Locks(items)
        <3>1. PICK i \in ToSet(items) : i.lock = 1
            BY <2>1 DEF Locks
        <3>2. i.id \in (1..4) \ b.locked
            BY <1>1, <3>1 DEF TrueDoor
        <3> QED
            BY <2>1, <3>2 DEF DoorsLocked, Agrees
    <2>2. CASE 1 \notin Locks(items) /\ EveryDoor(items) /\ Locks(items) = {0}
        <3>1. \A i \in ToSet(items) : i.id \in b.locked
            BY <1>1, <2>2 DEF Locks, TrueDoor
        <3>2. 1..4 \subseteq b.locked
            BY <2>2, <3>1 DEF EveryDoor
        <3> QED
            BY <1>1, <2>2, <3>2 DEF DoorsLocked, Told, Agrees
    <2>3. CASE 1 \notin Locks(items) /\ EveryDoor(items) /\ b.ut /\ RearSentinel(items)
        <3>1. \A i \in ToSet(items) : i.id \in {1, 2} => i.id \in b.locked
            BY <1>1, <2>3 DEF RearSentinel, TrueDoor
        <3>2. {1, 2} \subseteq b.locked
            BY <2>3, <3>1 DEF EveryDoor
        <3> QED
            BY <1>1, <2>3, <3>2 DEF DoorsLocked, Told, Agrees
    <2> QED
        BY <2>1, <2>2, <2>3 DEF DoorsLocked, Told, Agrees
<1> DEFINE valid == {j \in ToSet(items) : j.flag # "invalid"}
           modes == {i.mode : i \in valid}
<1>4. AnyOpen(items) = AnyPositive(modes)
    BY DEF AnyOpen
<1>5. \A i \in valid : i.mode \in Int /\ (i.mode >= 0 => ((i.mode > 0) <=> i.id \in b.open))
    BY <1>1 DEF TrueDoor
<1>6. AnyOpen(items) = "yes" <=> \E i \in valid : i.mode > 0
    BY <1>4, <1>5 DEF AnyPositive, Told, None
<1>7. Agrees(AnyOpen(items), \E i \in valid : i.id \in b.open)
    <2>1. AnyOpen(items) = "no" => \A i \in valid : i.mode = 0
        BY <1>4 DEF AnyPositive, Told
    <2> QED
        BY <1>5, <1>6, <2>1 DEF Agrees
<1>8. ASSUME NEW n \in 1..4
      PROVE  Agrees(Opened(items, n), n \in b.open) /\ (Opened(items, n) = "yes" => AnyOpen(items) = "yes")
    <2> DEFINE found == Numbered(items, n)
               first == items[Min(found)]
    <2>1. CASE found = {} \/ first.flag = "invalid"
        BY <2>1 DEF Opened, Agrees
    <2>2. CASE found # {} /\ first.flag # "invalid"
        <3>1. Min(found) \in found
            BY <1>1, <2>2, FirstPosition DEF Numbered
        <3>2. first \in valid /\ first.id = n
            BY <1>2, <2>2, <3>1 DEF Numbered
        <3>3. Opened(items, n) = Told(first.mode > 0, first.mode = 0)
            BY <2>2 DEF Opened
        <3> HIDE DEF first, valid
        <3>4. first.mode \in Int /\ (first.mode >= 0 => ((first.mode > 0) <=> n \in b.open))
            BY <1>5, <3>2
        <3>5. Opened(items, n) = "yes" => first.mode > 0
            BY <3>3 DEF Told
        <3>6. Opened(items, n) = "no" => first.mode = 0
            BY <3>3 DEF Told
        <3> QED
            BY <1>6, <3>2, <3>4, <3>5, <3>6 DEF Agrees
    <2> QED
        BY <2>1, <2>2
<1>9. {items[i].id : i \in {j \in DOMAIN items : items[j].flag # "invalid" /\ items[j].id \in b.open}} # {}
          <=> \E i \in valid : i.id \in b.open
    BY DEF ToSet
<1> QED
    BY <1>3, <1>7, <1>8, <1>9

\* Of the bonnet and the boot (hatch_open).
LEMMA HatchesTrue ==
    ASSUME NEW b \in Bodies, b.kind = "hatches"
    PROVE  Agrees(HatchOpen(b.items, TRUE), b.bonnet) /\ Agrees(HatchOpen(b.items, FALSE), b.boot)
<1>1. \A i \in ToSet(b.items) : i.object => TrueHatch(i, b)
    BY BodyAssumption
<1>2. ASSUME NEW hood \in BOOLEAN
      PROVE  /\ HatchOpen(b.items, hood) = "yes" => IF hood THEN b.bonnet ELSE b.boot
             /\ HatchOpen(b.items, hood) = "no" => ~ (IF hood THEN b.bonnet ELSE b.boot)
    <2> DEFINE taken == {i \in ToSet(b.items) : i.object /\ ((i.id = 1) = hood)}
               read(i) == IF i.flag # "invalid" \/ i.mode = 0 THEN i.mode ELSE None
    <2>1. HatchOpen(b.items, hood) = AnyPositive({read(i) : i \in taken})
        BY DEF HatchOpen
    <2>2. HatchOpen(b.items, hood) = "yes" => \E i \in taken : read(i) # None /\ read(i) > 0
        BY <2>1 DEF AnyPositive, Told
    <2>3. HatchOpen(b.items, hood) = "no" => \E i \in taken : read(i) = 0
        BY <2>1 DEF AnyPositive, Told
    <2>4. \A i \in taken : /\ read(i) # None /\ read(i) > 0 => IF hood THEN b.bonnet ELSE b.boot
                           /\ read(i) = 0 => ~ (IF hood THEN b.bonnet ELSE b.boot)
        BY <1>1 DEF None, TrueHatch
    <2> QED
        BY <2>2, <2>3, <2>4
<1> QED
    BY <1>2 DEF Agrees

\* The one item with a number is listed, and no two items are it.
LEMMA OnlyOne ==
    ASSUME NEW items, NEW n, Only(items, n) # {}
    PROVE  \E i \in ToSet(items) : i.id = n /\ Only(items, n) = {i}
<1>1. PICK p \in DOMAIN items : Numbered(items, n) = {p}
    BY DEF Only
<1>2. Only(items, n) = {items[p]}
    BY <1>1 DEF Only
<1>3. items[p].id = n /\ items[p] \in ToSet(items)
    BY <1>1 DEF Numbered, ToSet
<1> QED
    BY <1>2, <1>3

\* Of four tyres (from_results): whatever is listed of a tyre, it is given its own values or none.
LEMMA TyresTrue ==
    ASSUME NEW b \in Bodies, b.kind = "tyres", NEW n \in 1..4
    PROVE  /\ Tyre(b.items, n).pressure \in {None, b.pressure[n]}
           /\ Tyre(b.items, n).temperature \in {None, b.temperature[n]}
<1>1. CASE Only(b.items, n) = {}
    BY <1>1 DEF Tyre
<1>2. CASE Only(b.items, n) # {}
    <2>1. PICK i \in ToSet(b.items) : i.id = n /\ Only(b.items, n) = {i}
        BY <1>2, OnlyOne
    <2>2. TrueTyre(i, b)
        BY <2>1, BodyAssumption
    <2>3. (CHOOSE x \in {i} : TRUE) = i
        OBVIOUS
    <2>4. /\ Tyre(b.items, n).pressure = IF i.pflag = "invalid" \/ i.pressure < 0 THEN None ELSE i.pressure
          /\ Tyre(b.items, n).temperature =
                 IF i.tflag = "invalid" \/ (i.pressure = -1 /\ i.temperature = -1) THEN None ELSE i.temperature
        BY <2>1, <2>3 DEF Tyre
    <2> QED
        BY <2>1, <2>2, <2>4 DEF TrueTyre
<1> QED
    BY <1>1, <1>2

\* Of four seats (from_results).
LEMMA SeatsTrue ==
    ASSUME NEW b \in Bodies, b.kind = "seats", NEW n \in 1..4
    PROVE  Agrees(SeatVentilated(b.items, n), n \in b.on)
<1>1. CASE Only(b.items, n) = {}
    BY <1>1 DEF SeatVentilated, Agrees
<1>2. CASE Only(b.items, n) # {}
    <2>1. PICK i \in ToSet(b.items) : i.id = n /\ Only(b.items, n) = {i}
        BY <1>2, OnlyOne
    <2>2. TrueSeat(i, b)
        BY <2>1, BodyAssumption
    <2>3. (CHOOSE x \in {i} : TRUE) = i
        OBVIOUS
    <2>4. SeatVentilated(b.items, n) =
              Told(i.wind = 1 /\ i.strength # 0, i.wind = 0 \/ (i.wind = 1 /\ i.strength = 0))
        BY <2>1, <2>3 DEF SeatVentilated
    <2> QED
        BY <2>1, <2>2, <2>4 DEF TrueSeat, Told, Agrees
<1> QED
    BY <1>1, <1>2

\* Of the brake fluid (brake_fluid_low).
LEMMA BrakesTrue ==
    ASSUME NEW b \in Bodies, b.kind = "brakes"
    PROVE  Agrees(BrakeFluidLow(b.items), b.low)
<1>1. \A i \in ToSet(b.items) : TrueBrake(i, b)
    BY BodyAssumption
<1> DEFINE listing == {i \in ToSet(b.items) : i.listed}
           alarm == \E i \in listing : \E r \in i.reasons : r > 0
<1>2. \A i \in listing : (\E r \in i.reasons : r > 0) <=> b.low
    BY <1>1 DEF TrueBrake
<1>3. BrakeFluidLow(b.items) = Told(alarm, listing # {})
    BY DEF BrakeFluidLow
<1> HIDE DEF listing
<1> QED
    BY <1>2, <1>3 DEF Told, Agrees

\* Of the air conditioning and a light (from_results, _light_on).
LEMMA SwitchesTrue ==
    ASSUME NEW b \in Bodies, b.kind \notin {"doors", "hatches", "tyres", "seats", "brakes"}
    PROVE  Agrees(AcOn(b.compressor, b.fan), b.on) /\ Agrees(LightOn(b.light), b.lit)
<1>1. TrueSwitches(b)
    BY BodyAssumption
<1> QED
    BY <1>1 DEF TrueSwitches, AcOn, LightOn, Told, Agrees
----------------------------------------------------------------------------------
(* Which values are accepted, sent and offered *)

\* A value is rounded to the half degree or the degree nearest to it, and one that is a half or
\* a whole degree to itself (Python's round).
LEMMA Rounding ==
    ASSUME NEW n \in Int, NEW d \in {2, 4}
    PROVE  /\ V!Rounded(n, d) \in Int
           /\ d * V!Rounded(n, d) - n \in -(d \div 2)..(d \div 2)
           /\ n % d = 0 => d * V!Rounded(n, d) = n
<1>1. CASE d = 2
    BY <1>1 DEF V!Rounded
<1>2. CASE d = 4
    BY <1>2 DEF V!Rounded
<1> QED
    BY <1>1, <1>2

\* A limit divided and rounded inwards bounds the same whole values (_span).
LEMMA Inwards ==
    ASSUME NEW low \in Int, NEW v \in Int, NEW d \in {4, 240}
    PROVE  /\ V!Ceiling(low, d) <= v <=> low <= d * v
           /\ v <= low \div d <=> d * v <= low
<1>1. CASE d = 4
    BY <1>1 DEF V!Ceiling
<1>2. CASE d = 240
    BY <1>2 DEF V!Ceiling
<1> QED
    BY <1>1, <1>2

\* What is sent of an accepted value is accepted, and sent as it is (validate_climate, validate_fridge).
LEMMA SentAccepted ==
    ASSUME NEW kind, NEW n \in Int, V!Accepts(kind, n)
    PROVE  V!Accepts(kind, V!Sent(kind, n)) /\ V!Sent(kind, V!Sent(kind, n)) = V!Sent(kind, n)
<1>1. CASE kind = "temperature"
    <2> DEFINE r == V!Rounded(n, 2)
    <2>1. V!Sent(kind, n) = 2 * r
        BY <1>1 DEF V!Sent, V!HalfDegrees
    <2>2. r \in Int /\ 2 * r - n \in -1..1
        BY Rounding
    <2>3. 72 <= n /\ n <= 128
        BY <1>1 DEF V!Accepts, V!Bounds, V!Known, V!Within, V!Whole
    <2> HIDE DEF r
    <2>4. 72 <= 2 * r /\ 2 * r <= 128
        BY <2>2, <2>3
    <2>5. V!Accepts(kind, 2 * r)
        BY <1>1, <2>2, <2>4 DEF V!Accepts, V!Bounds, V!Known, V!Within, V!Whole, V!None
    <2>6. V!Sent(kind, 2 * r) = 2 * r
        <3>1. (2 * r) % 2 = 0 /\ 2 * r \in Int
            BY <2>2
        <3>2. 2 * V!Rounded(2 * r, 2) = 2 * r
            BY <3>1, Rounding
        <3> QED
            BY <1>1, <3>2 DEF V!Sent, V!HalfDegrees
    <2> QED
        BY <2>1, <2>5, <2>6
<1>2. CASE kind \in {"refrigerate", "heat", "freeze"}
    <2> DEFINE r == V!Rounded(n, 4)
    <2>1. \A m : V!Sent(kind, m) = 4 * V!Rounded(m, 4)
        BY <1>2 DEF V!Sent, V!WholeDegrees, V!Whole
    <2>2. r \in Int /\ 4 * r - n \in -2..2
        BY Rounding
    <2>3. (4 * r) % 4 = 0 /\ 4 * r \in Int
        BY <2>2
    <2> HIDE DEF r
    <2>4. V!Sent(kind, 4 * r) = 4 * r
        BY <2>1, <2>3, Rounding
    <2>5. V!Accepts(kind, 4 * r)
        BY <1>2, <2>2, <2>3 DEF V!Accepts, V!Bounds, V!Known, V!Within, V!Whole, V!None
    <2> QED
        BY <2>1, <2>4, <2>5 DEF r
<1>3. CASE kind \notin {"temperature", "refrigerate", "heat", "freeze"}
    BY <1>3 DEF V!Sent
<1> QED
    BY <1>1, <1>2, <1>3

\* Of an entry that says which values the car takes, exactly those are read that are accepted and
\* taken; of another one, that nothing is said (_between, _span, _codes).
LEMMA ValuesExact ==
    ASSUME NEW kind, NEW e, e.low \in Int, e.high \in Int, e.codes \subseteq Int
    PROVE  /\ ~Says(kind, e) => V!Values(kind, e) = V!Unsaid
           /\ Says(kind, e) =>
                  /\ V!Values(kind, e) # V!Unsaid
                  /\ \A v \in Int : v \in V!Values(kind, e) <=>
                         V!Accepts(kind, V!Whole(v)) /\ Takes(kind, e, v)
<1>1. CASE kind \in {"temperature", "refrigerate", "heat", "freeze"}
    <2>1. V!Values(kind, e) = V!Span(e, V!Bounds[kind], 1)
        BY <1>1 DEF V!Values, V!Bounds
    <2>2. Says(kind, e) <=> e.low # None /\ e.high # None
        BY <1>1 DEF Says, V!Bounds
    <2>3. \A v : Takes(kind, e, v) <=> e.low <= V!Whole(v) /\ V!Whole(v) <= e.high
        BY <1>1 DEF Takes, V!Bounds
    <2>4. /\ V!Bounds[kind][1] \in -15..50 /\ V!Bounds[kind][2] \in -15..50
          /\ \A v \in Int : V!Accepts(kind, V!Whole(v)) <=> v \in V!Bounds[kind][1]..V!Bounds[kind][2]
        BY <1>1 DEF V!Accepts, V!Bounds, V!Known, V!Within, V!Whole, V!None
    <2>5. CASE ~Says(kind, e)
        BY <2>1, <2>2, <2>5 DEF V!Span, None, V!None
    <2>6. CASE Says(kind, e)
        <3>1. V!Values(kind, e) = {v \in V!Bounds[kind][1]..V!Bounds[kind][2] :
                                       V!Ceiling(e.low, 4) <= v /\ v <= e.high \div 4}
            BY <2>1, <2>2, <2>6 DEF V!Span, None, V!None
        <3>2. V!None \notin V!Values(kind, e)
            BY <2>4, <3>1 DEF V!None
        <3>3. V!Values(kind, e) # V!Unsaid
            BY <3>2 DEF V!Unsaid
        <3>4. ASSUME NEW v \in Int
              PROVE  v \in V!Values(kind, e) <=> V!Accepts(kind, V!Whole(v)) /\ Takes(kind, e, v)
            <4>1. v \in V!Values(kind, e) <=>
                      /\ v \in V!Bounds[kind][1]..V!Bounds[kind][2]
                      /\ V!Ceiling(e.low, 4) <= v /\ v <= e.high \div 4
                BY <3>1
            <4>2. V!Accepts(kind, V!Whole(v)) <=> v \in V!Bounds[kind][1]..V!Bounds[kind][2]
                BY <2>4
            <4>3. Takes(kind, e, v) <=> V!Ceiling(e.low, 4) <= v /\ v <= e.high \div 4
                <5>1. Takes(kind, e, v) <=> e.low <= V!Whole(v) /\ V!Whole(v) <= e.high
                    BY <2>3
                <5>2. /\ V!Ceiling(e.low, 4) <= v <=> e.low <= V!Whole(v)
                      /\ v <= e.high \div 4 <=> V!Whole(v) <= e.high
                    BY Inwards DEF V!Whole
                <5> QED
                    BY <5>1, <5>2
            <4> QED
                BY <4>1, <4>2, <4>3
        <3> QED
            BY <2>6, <3>3, <3>4
    <2> QED
        BY <2>5, <2>6
<1>2. CASE kind = "minutes"
    <2>1. V!Values(kind, e) = V!Span(e, <<5, 60>>, 60)
        BY <1>2 DEF V!Values, V!Bounds
    <2>2. Says(kind, e) <=> e.low # None /\ e.high # None
        BY <1>2 DEF Says, V!Bounds
    <2>3. \A v \in Int : Takes(kind, e, v) <=> e.low <= 240 * v /\ 240 * v <= e.high
        BY <1>2 DEF Takes, V!Bounds, V!Whole
    <2>4. \A v \in Int : V!Accepts(kind, V!Whole(v)) <=> v \in 5..60
        BY <1>2 DEF V!Accepts, V!Bounds, V!Known, V!Within, V!Whole, V!None
    <2>5. \A v \in Int : /\ V!Ceiling(e.low, 240) <= v <=> e.low <= 240 * v
                        /\ v <= e.high \div 240 <=> 240 * v <= e.high
        BY Inwards
    <2>6. CASE ~Says(kind, e)
        BY <2>1, <2>2, <2>6 DEF V!Span, None, V!None
    <2>7. CASE Says(kind, e)
        <3>1. V!Values(kind, e) = {v \in 5..60 : V!Ceiling(e.low, 240) <= v /\ v <= e.high \div 240}
            BY <2>1, <2>2, <2>7 DEF V!Span, None, V!None
        <3>2. V!None \notin V!Values(kind, e)
            BY <3>1 DEF V!None
        <3> QED
            BY <2>3, <2>4, <2>5, <2>7, <3>1, <3>2 DEF V!Unsaid
    <2> QED
        BY <2>6, <2>7
<1>3. CASE kind \in {"fan", "seat"}
    <2>1. V!Values(kind, e) = V!Between(e, V!Known[kind])
        BY <1>3 DEF V!Values, V!Bounds
    <2>2. Says(kind, e) <=> e.low # None /\ e.high # None /\ e.low % 4 = 0 /\ e.high % 4 = 0
        BY <1>3 DEF Says, V!Bounds
    <2>3. \A v : Takes(kind, e, v) <=> v # 0 /\ e.low <= V!Whole(v) /\ V!Whole(v) <= e.high
        BY <1>3 DEF Takes, V!Bounds
    <2>4. /\ V!Known[kind] \subseteq 0..10
          /\ \A v \in Int : V!Accepts(kind, V!Whole(v)) <=> v \in V!Known[kind]
        BY <1>3 DEF V!Accepts, V!Bounds, V!Known, V!Whole, V!None
    <2>5. CASE ~Says(kind, e)
        BY <2>1, <2>2, <2>5 DEF V!Between, None, V!None
    <2>6. CASE Says(kind, e)
        <3>1. V!Values(kind, e) = {v \in V!Known[kind] : v # 0 /\ e.low <= V!Whole(v) /\ V!Whole(v) <= e.high}
            BY <2>1, <2>2, <2>6 DEF V!Between, None, V!None
        <3>2. V!None \notin V!Values(kind, e)
            BY <2>4, <3>1 DEF V!None
        <3> QED
            BY <2>3, <2>4, <2>6, <3>1, <3>2 DEF V!Unsaid
    <2> QED
        BY <2>5, <2>6
<1>4. CASE kind \notin {"temperature", "refrigerate", "heat", "freeze", "minutes", "fan", "seat"}
    <2>1. V!Values(kind, e) = V!Listed(kind, e)
        BY <1>4 DEF V!Values, V!Bounds
    <2>2. Says(kind, e) <=> e.codes # V!Unsaid
        BY <1>4 DEF Says, V!Bounds
    <2>3. \A v : Takes(kind, e, v) <=> v \in e.codes
        BY <1>4 DEF Takes, V!Bounds
    <2>4. CASE ~Says(kind, e)
        BY <2>1, <2>2, <2>4 DEF V!Listed
    <2>5. CASE kind \in {"fridge", "battery"} /\ Says(kind, e)
        <3>1. V!Values(kind, e) = {c \in e.codes : c \in V!Known[kind]}
            BY <2>1, <2>2, <2>5 DEF V!Listed, V!Known
        <3>2. /\ V!Known[kind] \subseteq 0..4
              /\ \A v \in Int : V!Accepts(kind, V!Whole(v)) <=> v \in V!Known[kind]
            BY <2>5 DEF V!Accepts, V!Bounds, V!Known, V!Whole, V!None
        <3>3. V!None \notin V!Values(kind, e)
            BY <3>1, <3>2 DEF V!None
        <3> QED
            BY <2>3, <2>5, <3>1, <3>2, <3>3 DEF V!Unsaid
    <2>6. CASE kind \notin {"fridge", "battery"} /\ Says(kind, e)
        <3>1. V!Values(kind, e) = {c \in e.codes : c > 0}
            BY <1>4, <2>1, <2>2, <2>6 DEF V!Listed, V!Known
        <3>2. \A v \in Int : V!Accepts(kind, V!Whole(v)) <=> v > 0
            BY <1>4, <2>6 DEF V!Accepts, V!Bounds, V!Known, V!Whole, V!None
        <3>3. V!None \notin V!Values(kind, e)
            BY <3>1 DEF V!None
        <3> QED
            BY <2>3, <2>6, <3>1, <3>2, <3>3 DEF V!Unsaid
    <2> QED
        BY <2>4, <2>5, <2>6
<1> QED
    BY <1>1, <1>2, <1>3, <1>4

\* The first entry that is switched on and states the field speaks for all of them (_choices).
LEMMA OfferedExact ==
    ASSUME NEW l \in Lists
    PROVE  LET on == {e \in ToSet(l.entries) : e.on /\ e.level \in V!Controls}
               offered == V!Offered(l.kind, l.entries)
           IN  IF offered = V!Unsaid THEN \A e \in on : ~Says(l.kind, e)
               ELSE \A v \in Int : v \in offered <=>
                        V!Accepts(l.kind, V!Whole(v)) /\ \E e \in on : Takes(l.kind, e, v)
<1> DEFINE list == l.entries
           stating == {i \in ToSet(list) : i.on /\ i.level # None}
           on == {e \in ToSet(list) : e.on /\ e.level \in V!Controls}
           at == {p \in V!Available(list) : list[p].level # V!None}
           offered == V!Offered(l.kind, list)
<1>1. /\ list \in Seq(ToSet(list))
      /\ \A i, j \in stating : i = j
      /\ \A i \in stating : i.low \in Int /\ i.high \in Int /\ i.codes \subseteq Int
    BY ListAssumption
<1>2. on \subseteq stating
    BY DEF V!Controls, None
<1>3. at \subseteq DOMAIN list /\ \A p \in at : list[p] \in stating
    BY DEF V!Available, ToSet, None, V!None
<1>4. stating # {} => at # {}
    BY DEF V!Available, ToSet, None, V!None
<1>5. offered = IF at = {} THEN V!Unsaid
                ELSE IF list[V!Min(at)].level \notin V!Controls THEN {}
                ELSE V!Values(l.kind, list[V!Min(at)])
    BY DEF V!Offered
<1>6. CASE at = {}
    BY <1>2, <1>4, <1>5, <1>6
<1>7. CASE at # {}
    <2> DEFINE first == list[V!Min(at)]
    <2>1. first \in stating
        <3>1. Min(at) \in at
            BY <1>1, <1>3, <1>7, FirstPosition
        <3>2. V!Min(at) = Min(at)
            BY DEF V!Min, Min
        <3> QED
            BY <1>3, <3>1, <3>2
    <2>2. CASE first.level \notin V!Controls
        <3>1. on = {}
            BY <1>1, <1>2, <2>1, <2>2
        <3>2. offered = {} /\ offered # V!Unsaid
            BY <1>5, <1>7, <2>2 DEF V!Unsaid
        <3> QED
            BY <3>1, <3>2
    <2>3. CASE first.level \in V!Controls
        <3>1. on = {first}
            BY <1>1, <1>2, <2>1, <2>3
        <3>2. offered = V!Values(l.kind, first)
            BY <1>5, <1>7, <2>3
        <3>3. first.low \in Int /\ first.high \in Int /\ first.codes \subseteq Int
            BY <1>1, <2>1
        <3> HIDE DEF first, offered, on
        <3>4. /\ ~Says(l.kind, first) => offered = V!Unsaid
              /\ Says(l.kind, first) =>
                     /\ offered # V!Unsaid
                     /\ \A v \in Int : v \in offered <=>
                            V!Accepts(l.kind, V!Whole(v)) /\ Takes(l.kind, first, v)
            BY <3>2, <3>3, ValuesExact
        <3>5. IF offered = V!Unsaid THEN \A e \in on : ~Says(l.kind, e)
              ELSE \A v \in Int : v \in offered <=>
                       V!Accepts(l.kind, V!Whole(v)) /\ \E e \in on : Takes(l.kind, e, v)
            BY <3>1, <3>4
        <3> QED
            BY <3>5 DEF offered, on
    <2> QED
        BY <2>2, <2>3
<1> QED
    BY <1>6, <1>7
----------------------------------------------------------------------------------
\* Without a flag only what was read, or whose command was confirmed, is supported (feature).
LEMMA Unflagged ==
    ASSUME EvidenceInv, NEW f \in Features, f \notin DOMAIN evidence.flags
    PROVE  /\ Feature(f).source # "vehicle_equipment"
           /\ Feature(f).state = "supported" => Level(f) > 0 \/ Posing(f)
<1> USE DEF EvidenceInv, Kinds
<1>1. Level(f) \in 0..3
    BY Levels
<1>2. Feature(f).source # "vehicle_equipment"
    BY DEF Feature, Support
<1>3. Feature(f).state = "supported" => Read(f) \/ \E c \in evidence.commands : FeatureOf(c) = f
    BY DEF Feature, Support
<1>4. ASSUME NEW c \in evidence.commands, FeatureOf(c) = f PROVE Level(f) > 0
    BY <1>1, <1>4 DEF CommandsTrue, CONTROL
<1>5. ASSUME NEW r \in evidence.readings, r = f \/ r \in ReadingsOf(f)
      PROVE  Level(f) > 0 \/ (r \in posed /\ r # "headlights_on")
    <2>1. GroupOf(r) = GroupOf(f)
        BY <1>5 DEF ReadingsOf, GroupOf
    <2>2. Level(r) = Level(f)
        BY <2>1 DEF Level
    <2> QED
        BY <1>5, <2>2 DEF ReadingsTrue
<1>6. ASSUME Read(f), Level(f) <= 0 PROVE Posing(f)
    <2>1. "location" \notin evidence.readings
        BY DEF Readings, Fields, ItemReadings
    <2>2. CASE f = "location"
        <3>1. {"latitude", "longitude"} \subseteq evidence.readings
            BY <1>6, <2>1, <2>2 DEF Read, ReadingsOf
        <3>2. "latitude" \in posed /\ "longitude" \in posed
            BY <1>1, <1>5, <1>6, <2>2, <3>1 DEF ReadingsOf
        <3> QED
            BY <2>2, <3>2 DEF Posing
    <2>3. CASE f # "location"
        <3>1. PICK r \in evidence.readings : r = f \/ r \in ReadingsOf(f)
            BY <1>6, <2>3 DEF Read
        <3>2. r \in posed /\ r # "headlights_on"
            BY <1>1, <1>5, <1>6, <3>1
        <3>3. f # "headlights_on"
            BY <3>1, <3>2 DEF ReadingsOf
        <3> QED
            BY <2>3, <3>1, <3>2, <3>3 DEF Posing
    <2> QED
        BY <2>2, <2>3
<1> QED
    BY <1>1, <1>2, <1>3, <1>4, <1>6

\* With a flag it is as the last list said that counts (feature).
LEMMA FlaggedTrue ==
    ASSUME EvidenceInv, NEW f \in DOMAIN evidence.flags
    PROVE  /\ f \in Listable /\ told[GroupOf(f)] \in {"right", "wrong"}
           /\ told[GroupOf(f)] = "right" => (Feature(f).state = "supported" <=> Level(f) \in LevelsOf(f))
           /\ told[GroupOf(f)] = "wrong" => Feature(f).state = "unsupported"
           /\ Feature(f).state = "supported" => Level(f) > 0
<1> USE DEF EvidenceInv, Kinds
<1>1. f \in Listable /\ GroupOf(f) \in Groups
    BY Grouped DEF FlagsTrue
<1>2. told[GroupOf(f)] \in {"right", "wrong"} /\ evidence.flags[f] = Meant(told[GroupOf(f)], f)
    BY <1>1 DEF FlagsTrue
<1>3. Feature(f).state = Flagged(f)
    BY DEF Feature, Support
<1>4. Level(f) \in LevelsOf(f) => Level(f) > 0
    BY <1>1, Grouped DEF READ, CONTROL, SWITCH
<1> QED
    BY <1>1, <1>2, <1>3, <1>4 DEF Flagged, Meant, Can

\* A command is called supported only if the car has done it, and its equipment with it (command).
LEMMA CommandTrue ==
    ASSUME EvidenceInv, NEW c \in Commands, Command(c).state = "supported"
    PROVE  c \in applied /\ Feature(FeatureOf(c)).state = "supported"
<1> USE DEF EvidenceInv
<1> DEFINE f == FeatureOf(c)
<1>1. c \in evidence.commands /\ ~(Feature(f).state = "unsupported" /\ Feature(f).source = "vehicle_equipment")
    <2>1. Feature(f) = Support(Feature(f).state, Feature(f).source)
        BY DEF Feature, Support
    <2> QED
        BY <2>1 DEF Command, Support
<1>2. c \in applied
    BY <1>1 DEF CommandsTrue
<1>3. Feature(f).state = "supported"
    <2>1. CASE f \in DOMAIN evidence.flags
        BY <1>1, <2>1 DEF Feature, Support, Flagged
    <2>2. CASE f \notin DOMAIN evidence.flags
        BY <1>1, <2>2 DEF Feature, Support
    <2> QED
        BY <2>1, <2>2
<1> QED
    BY <1>2, <1>3
----------------------------------------------------------------------------------
\* Every step keeps the evidence true.
LEMMA EvidenceStep == EvidenceInv /\ [Next]_vars => EvidenceInv'
<1> SUFFICES ASSUME EvidenceInv, [Next]_vars PROVE EvidenceInv'
    OBVIOUS
<1> USE DEF EvidenceInv, Kinds, ReadingsTrue, FlagsTrue, CommandsTrue, OrderTrue, Can, Meant, Level, history
<1>1. CASE ReadStatus
    <2> DEFINE poses(report) == {f \in Readings : Level(f) = 0 /\ Given(report, f) \cap {"off", "on"} # {}}
    <2>1. PICK report \in Reports :
              /\ CanReport(report)
              /\ evidence' = [evidence EXCEPT !.readings = @ \cup Observed(report)]
              /\ posed' = posed \cup poses(report)
        BY <1>1 DEF ReadStatus
    <2>2. \A f \in Observed(report) : f \in Readings /\ (Level(f) > 0 \/ (f # "headlights_on" /\ f \in poses(report)))
        BY <2>1, ObservedTrue
    <2>3. poses(report) \subseteq Readings
        OBVIOUS
    <2> HIDE DEF poses
    <2> QED
        BY <1>1, <2>1, <2>2, <2>3 DEF ReadStatus
<1>2. CASE ReadCapabilities
    <2> DEFINE counts(manner, others, g) == Size(List(manner, others)) >= MinGroups /\ Saying(manner, g) # "nothing"
    <2>1. PICK manner \in Manifests, others \in {0, MinGroups}, replace \in BOOLEAN :
              /\ evidence' = [evidence EXCEPT !.flags = Merged(@, FlagsOf(List(manner, others)), replace)]
              /\ told' = [g \in Groups |-> IF counts(manner, others, g) THEN Saying(manner, g)
                                            ELSE IF replace THEN "nothing" ELSE told[g]]
        BY <1>2 DEF ReadCapabilities
    <2>2. manner \in [Groups -> Manners]
        BY EquipmentAssumption
    <2> DEFINE new == FlagsOf(List(manner, others))
               says(g) == counts(manner, others, g)
               said(g) == Saying(manner, g)
    <2>3. DOMAIN new \subseteq Listable
        BY <2>2, ListTrue
    <2>4. \A f \in Listable : f \in DOMAIN new <=> says(GroupOf(f))
        BY <2>2, ListTrue
    <2>5. \A f \in Listable : f \in DOMAIN new => new[f] = Meant(said(GroupOf(f)), f)
        BY <2>2, ListTrue
    <2>6. \A g \in Groups : said(g) \in {"nothing", "right", "wrong"}
        BY DEF Saying
    <2>7. \A g \in Groups : says(g) => said(g) # "nothing"
        OBVIOUS
    <2>8. /\ evidence'.flags = Merged(evidence.flags, new, replace)
          /\ told' = [g \in Groups |-> IF says(g) THEN said(g) ELSE IF replace THEN "nothing" ELSE told[g]]
        BY <2>1
    <2>9. UNCHANGED <<car, order, holds, applied, posed>>
        BY <1>2 DEF ReadCapabilities
    <2>10. /\ DOMAIN evidence' = {"readings", "commands", "flags"}
           /\ evidence'.readings = evidence.readings /\ evidence'.commands = evidence.commands
        BY <2>1
    <2> HIDE DEF new, says, said
    <2>11. told' \in [Groups -> {"nothing", "right", "wrong"}]
        BY <2>6, <2>8
    <2>12. DOMAIN evidence'.flags \subseteq Listable
        BY <2>3, <2>8 DEF Merged
    <2>13. ASSUME NEW f \in Listable
           PROVE  /\ f \in DOMAIN evidence'.flags <=> told'[GroupOf(f)] # "nothing"
                  /\ f \in DOMAIN evidence'.flags => evidence'.flags[f] = Meant(told'[GroupOf(f)], f)
        <3>1. GroupOf(f) \in Groups
            BY Grouped
        <3>2. told'[GroupOf(f)] = IF says(GroupOf(f)) THEN said(GroupOf(f))
                                 ELSE IF replace THEN "nothing" ELSE told[GroupOf(f)]
            BY <2>8, <3>1
        <3>3. CASE f \in DOMAIN new
            <4>1. f \in DOMAIN evidence'.flags /\ evidence'.flags[f] = new[f]
                BY <2>8, <3>3 DEF Merged
            <4> QED
                BY <2>4, <2>5, <2>7, <3>1, <3>2, <3>3, <4>1
        <3>4. CASE f \notin DOMAIN new
            <4>1. f \in DOMAIN evidence'.flags <=> ~replace /\ f \in DOMAIN evidence.flags
                BY <2>8, <3>4 DEF Merged
            <4>2. f \in DOMAIN evidence'.flags => evidence'.flags[f] = evidence.flags[f]
                BY <2>8, <3>4, <4>1 DEF Merged
            <4> QED
                BY <2>4, <3>2, <3>4, <4>1, <4>2
        <3> QED
            BY <3>3, <3>4
    <2> QED
        BY <2>9, <2>10, <2>11, <2>12, <2>13
<1>3. ASSUME NEW c \in Commands, NEW reply \in Replies, SendCommand(c, reply) PROVE EvidenceInv'
    BY <1>3 DEF SendCommand, NoOrder, Stages, Commands
<1>4. CASE CarDoes
    BY <1>4 DEF CarDoes, Stages
<1>5. ASSUME NEW m \in Results(order.stage), PollResult(m) PROVE EvidenceInv'
    <2>1. order.stage # "none"
        BY <1>5 DEF PollResult, NoOrder
    <2>2. CASE order.stage = "under way"
        <3>1. Results("under way") = {Answer("absent", "ongoing"), Answer("applied", "ongoing")}
            BY DEF Results
        <3>2. m = Answer("absent", "ongoing") \/ m = Answer("applied", "ongoing")
            BY <1>5, <2>2, <3>1
        <3>3. m.object /\ m.codes = <<"ongoing">>
            BY <3>2 DEF Answer
        <3>4. Polled(m) = "executing"
            BY <3>3 DEF Polled
        <3> QED
            BY <1>5, <2>1, <3>4 DEF PollResult
    <2>3. CASE order.stage = "refused"
        <3>1. Polled(m) # "applied"
            BY <1>5, <2>3, RefusalNotApplied DEF Results
        <3> QED
            BY <1>5, <2>1, <3>1 DEF PollResult, NoOrder, Stages
    <2>4. CASE order.stage = "done"
        BY <1>5, <2>4 DEF PollResult, NoOrder, Stages
    <2> QED
        BY <2>1, <2>2, <2>3, <2>4 DEF Stages
<1>6. CASE Restart
    <2>1. PICK version \in 1..2, odd \in {{}, {"odd"}} :
              /\ evidence' = Restored([version |-> version,
                                       state |-> [evidence EXCEPT !.readings = @ \cup odd, !.commands = @ \cup odd]])
              /\ posed' = IF version = 1 THEN posed ELSE {}
              /\ told' = IF version = 1 THEN told ELSE [g \in Groups |-> "nothing"]
        BY <1>6 DEF Restart
    <2>2. order' = NoOrder /\ UNCHANGED <<car, holds, applied>>
        BY <1>6 DEF Restart
    <2>3. CASE version # 1
        <3>1. /\ DOMAIN evidence' = {"readings", "commands", "flags"}
              /\ evidence'.readings = {} /\ evidence'.commands = {} /\ DOMAIN evidence'.flags = {}
            BY <2>1, <2>3 DEF Restored, Fresh
        <3>2. \A f \in Listable : told'[GroupOf(f)] = "nothing"
            BY <2>1, <2>3, Grouped
        <3>3. posed' = {} /\ told' \in [Groups -> {"nothing", "right", "wrong"}]
            BY <2>1, <2>3
        <3> QED
            BY <2>2, <3>1, <3>2, <3>3 DEF NoOrder, Stages
    <2>4. CASE version = 1
        <3>1. /\ DOMAIN evidence' = {"readings", "commands", "flags"}
              /\ evidence'.readings \subseteq Readings /\ evidence'.commands \subseteq Commands
              /\ \A f \in evidence'.readings : f \in evidence.readings \cup odd
              /\ \A c \in evidence'.commands : c \in evidence.commands \cup odd
              /\ DOMAIN evidence'.flags = DOMAIN evidence.flags \cap Features
              /\ \A f \in DOMAIN evidence'.flags : evidence'.flags[f] = evidence.flags[f]
            BY <2>1, <2>4 DEF Restored
        <3>2. "odd" \notin Readings /\ "odd" \notin Commands
            BY DEF Readings, Fields, ItemReadings, Commands
        <3>3. evidence'.readings \subseteq evidence.readings /\ evidence'.commands \subseteq evidence.commands
            BY <3>1, <3>2
        <3>4. DOMAIN evidence'.flags = DOMAIN evidence.flags
            BY <3>1 DEF Listable
        <3>5. posed' = posed /\ told' = told
            BY <2>1, <2>4
        <3> QED
            BY <2>2, <3>1, <3>3, <3>4, <3>5 DEF NoOrder, Stages
    <2> QED
        BY <2>3, <2>4
<1>7. ASSUME NEW b \in Bodies, ReadBody(b) PROVE EvidenceInv'
    BY <1>7 DEF ReadBody
<1>8. ASSUME NEW l \in Lists, ReadRanges(l) PROVE EvidenceInv'
    BY <1>8 DEF ReadRanges
<1>9. CASE PutAway
    BY <1>9 DEF PutAway, Nothing
<1>10. CASE UNCHANGED vars
    BY <1>10 DEF vars
<1> QED
    BY <1>1, <1>2, <1>3, <1>4, <1>5, <1>6, <1>7, <1>8, <1>9, <1>10 DEF Next

\* Nothing is known at first.
LEMMA EvidenceInit == Init => EvidenceInv
<1> SUFFICES ASSUME Init PROVE EvidenceInv
    OBVIOUS
<1>1. \A f \in Listable : told[GroupOf(f)] = "nothing"
    BY Grouped DEF Init
<1>2. /\ DOMAIN evidence = {"readings", "commands", "flags"}
      /\ evidence.readings = {} /\ evidence.commands = {} /\ DOMAIN evidence.flags = {}
    BY DEF Init, Fresh
<1> QED
    BY <1>1, <1>2 DEF Init, EvidenceInv, Kinds, ReadingsTrue, FlagsTrue, CommandsTrue, OrderTrue, NoOrder, Nothing, Stages

\* For any car and any evidence: every part of the state has its type.
THEOREM EquipmentTyped == Spec => []TypeOK
<1>1. EvidenceInv => TypeOK
    <2> SUFFICES ASSUME EvidenceInv PROVE TypeOK
        OBVIOUS
    <2>1. \A f \in DOMAIN evidence.flags : evidence.flags[f] \in {"yes", "no"}
        BY DEF EvidenceInv, FlagsTrue, Meant, Can
    <2>2. DOMAIN evidence.flags \subseteq Features
        BY DEF EvidenceInv, FlagsTrue, Listable
    <2> QED
        BY <2>1, <2>2 DEF EvidenceInv, Kinds, TypeOK, Stages
<1> QED
    BY <1>1, EvidenceInit, EvidenceStep, PTL DEF Spec

\* For any car, any MinGroups, any reports and lists, and any order of evidence, answers and restarts:
\* the last list that counts decides of the groups it speaks of, and is wrong only of what it left out or
\* empty; nothing else is called supported but what is fitted or was reported by a reading of its
\* own though it is not; and a command only if the car has done it (feature, command).
THEOREM EquipmentSupportSound == Spec => []SupportSound
<1>1. EvidenceInv => SupportSound
    <2> SUFFICES ASSUME EvidenceInv PROVE SupportSound
        OBVIOUS
    <2>1. ASSUME NEW f \in Listable
          PROVE  CASE told[GroupOf(f)] = "right" -> (Feature(f).state = "supported") = (Level(f) \in LevelsOf(f))
                   [] told[GroupOf(f)] = "wrong" -> Feature(f).state = "unsupported"
                   [] OTHER -> Feature(f).source # "vehicle_equipment"
        <3>1. f \in Features /\ (f \in DOMAIN evidence.flags <=> told[GroupOf(f)] # "nothing")
            BY DEF Listable, EvidenceInv, FlagsTrue
        <3>2. CASE f \in DOMAIN evidence.flags
            BY <3>2, FlaggedTrue
        <3>3. CASE f \notin DOMAIN evidence.flags
            BY <3>1, <3>3, Unflagged
        <3> QED
            BY <3>2, <3>3
    <2>2. ASSUME NEW f \in Features, Feature(f).state = "supported" PROVE Level(f) > 0 \/ Posing(f)
        BY <2>2, FlaggedTrue, Unflagged
    <2> QED
        BY <2>1, <2>2, CommandTrue DEF SupportSound
<1> QED
    BY <1>1, EvidenceInit, EvidenceStep, PTL DEF Spec
----------------------------------------------------------------------------------
\* What the caller looks at was given by the service, and its values are those offered of it.
HoldsInv ==
    /\ holds.kind = "body" => holds.report \in Bodies
    /\ holds.kind = "ranges" =>
           holds.list \in Lists /\ holds.offered = V!Offered(holds.list.kind, holds.list.entries)

LEMMA HoldsStep == HoldsInv /\ [Next]_vars => HoldsInv'
<1> SUFFICES ASSUME HoldsInv, [Next]_vars PROVE HoldsInv'
    OBVIOUS
<1>1. ASSUME UNCHANGED holds PROVE HoldsInv'
    BY <1>1 DEF HoldsInv
<1>2. ASSUME NEW b \in Bodies, ReadBody(b) PROVE HoldsInv'
    BY <1>2 DEF ReadBody, HoldsInv
<1>3. ASSUME NEW l \in Lists, ReadRanges(l) PROVE HoldsInv'
    BY <1>3 DEF ReadRanges, HoldsInv
<1>4. CASE PutAway
    BY <1>4 DEF PutAway, Nothing, HoldsInv
<1> QED
    BY <1>1, <1>2, <1>3, <1>4
    DEF Next, vars, ReadStatus, ReadCapabilities, SendCommand, CarDoes, PollResult, Restart

LEMMA HoldsAlways == Spec => []HoldsInv
<1>1. Init => HoldsInv
    BY DEF Init, Nothing, HoldsInv
<1> QED
    BY <1>1, HoldsStep, PTL DEF Spec

\* For any reports whose single items are true as far as they are valid, in any number and order and
\* with any of them missing, repeated or misnumbered: locked is decoded only of four locked doors, a tyre's
\* values of that tyre, open or not of the doors that are listed validly (not of one that is missing or
\* flagged), and no single door contradicts it (from_results, any_open).
THEOREM EquipmentDecodedTruth == Spec => []DecodedTruth
<1>1. HoldsInv => DecodedTruth
    <2> SUFFICES ASSUME HoldsInv, holds.kind = "body" PROVE DecodedTruth
        BY DEF DecodedTruth
    <2> DEFINE b == holds.report
    <2>1. b \in Bodies
        BY DEF HoldsInv
    <2> HIDE DEF b
    <2>2. CASE b.kind = "doors"
        BY <2>1, <2>2, DoorsTrue DEF DecodedTruth, b
    <2>3. CASE b.kind = "hatches"
        BY <2>1, <2>3, HatchesTrue DEF DecodedTruth, b
    <2>4. CASE b.kind = "tyres"
        BY <2>1, <2>4, TyresTrue DEF DecodedTruth, b
    <2>5. CASE b.kind = "seats"
        BY <2>1, <2>5, SeatsTrue DEF DecodedTruth, b
    <2>6. CASE b.kind = "brakes"
        BY <2>1, <2>6, BrakesTrue DEF DecodedTruth, b
    <2>7. CASE b.kind \notin {"doors", "hatches", "tyres", "seats", "brakes"}
        BY <2>1, <2>7, SwitchesTrue DEF DecodedTruth, b
    <2> QED
        BY <2>2, <2>3, <2>4, <2>5, <2>6, <2>7
<1> QED
    BY <1>1, HoldsAlways, PTL

\* For any lists and all whole values, in any unit and with limits anywhere between them: exactly those are
\* offered that the library accepts and the car takes; and for every quarter of a degree, what is
\* sent of an accepted value is accepted and sent as it is (ranges_from_capabilities, build_body).
THEOREM EquipmentOfferedOfAll == Spec => []ExactlyOf(Int, Int)
<1>1. HoldsInv => ExactlyOf(Int, Int)
    <2> SUFFICES ASSUME HoldsInv, holds.kind = "ranges" PROVE ExactlyOf(Int, Int)
        BY DEF ExactlyOf
    <2> DEFINE l == holds.list
               on == {e \in ToSet(l.entries) : e.on /\ e.level \in V!Controls}
    <2>1. l \in Lists /\ holds.offered = V!Offered(l.kind, l.entries)
        BY DEF HoldsInv
    <2>2. IF holds.offered = V!Unsaid THEN \A e \in on : ~Says(l.kind, e)
          ELSE \A v \in Int : v \in holds.offered <=>
                   V!Accepts(l.kind, V!Whole(v)) /\ \E e \in on : Takes(l.kind, e, v)
        BY <2>1, OfferedExact
    <2>3. \A n \in Int : V!Accepts(l.kind, n) =>
              V!Accepts(l.kind, V!Sent(l.kind, n)) /\ V!Sent(l.kind, V!Sent(l.kind, n)) = V!Sent(l.kind, n)
        BY SentAccepted
    <2> QED
        BY <2>2, <2>3 DEF ExactlyOf
<1> QED
    BY <1>1, HoldsAlways, PTL

\* The same of the values the run looks at (ranges_from_capabilities, validate_climate, validate_fridge).
THEOREM EquipmentOfferedExactly == Spec => []OfferedExactly
<1>1. ExactlyOf(Int, Int) => OfferedExactly
    <2>1. -20..70 \subseteq Int /\ -80..280 \subseteq Int
        OBVIOUS
    <2> QED
        BY <2>1 DEF ExactlyOf, OfferedExactly
<1> QED
    BY <1>1, EquipmentOfferedOfAll, PTL
===================================================================================
