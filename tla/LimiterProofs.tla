------------------------------- MODULE LimiterProofs -------------------------------
(***************************************************************************)
(* One request at a time, the gap between requests, the pauses, the record   *)
(* of what is out and the budgets, for any tasks, processes, gap, timeout,   *)
(* budgets and pauses.                                                       *)
(*                                                                          *)
(* What carries the gap is the time of the last request in the shared record  *)
(* and in the memory of the slot that read it: it is no earlier than the last  *)
(* request's end, or a pause outlasts the gap after that end, or the gap is     *)
(* over.  While a request is out the record holds its latest possible end, so   *)
(* this survives a crash and a final save that fails.                          *)
(*                                                                          *)
(* What carries a budget is a stamp for every request sent, in that record and  *)
(* in that memory, no earlier than the request: as many stamps as requests are   *)
(* in the window, so what the slot counts is no less than what was sent.         *)
(***************************************************************************)
EXTENDS Limiter, FiniteSetTheorems, TLAPS

\* The fields of a state that the gap depends on; its stamps may be anything.
Shape(m) ==
    /\ DOMAIN m = {"sent", "commands", "blocked", "lastDone"}
    /\ m.blocked \in Int
    /\ m.lastDone \in Int

Shapes ==
    /\ clock \in Nat
    /\ DOMAIN file = {"status", "state"}
    /\ file.status \in {"missing", "valid", "corrupt", "undecodable"}
    /\ Shape(file.state)
    /\ DOMAIN mem = Process
    /\ \A p \in Process : Shape(mem[p])
    /\ flock \in Task \cup {NoTask}
    /\ at \in [Task -> {"idle", "mutex", "flock", "gap", "out"}]
    /\ start \in [Task -> Int]
    /\ DOMAIN history = {"sends", "finished", "pause"}
    /\ history.finished \in Int
    /\ history.finished <= clock

\* The file's lock is held from the load of the record to the end of the slot.
FlockHeld == \A t \in Task : at[t] \in {"gap", "out"} <=> flock = t

\* m makes whoever reads it now wait for the gap after the last request.
Covers(m) ==
    \/ m.lastDone >= history.finished
    \/ m.blocked >= history.finished + Gap
    \/ clock >= history.finished + Gap

RecordCovers ==
    /\ file.status = "valid" => Covers(file.state)
    /\ file.status = "missing" => clock >= history.finished + Gap
    /\ \A t \in Task : at[t] = "gap" => Covers(mem[ProcessOf[t]])

\* A request that is out has its latest end in the record and in memory.
Pending ==
    \A t \in Task : at[t] = "out" =>
        /\ clock <= start[t] + Timeout
        /\ mem[ProcessOf[t]].lastDone >= start[t] + Timeout
        /\ file.status # "missing"
        /\ file.status = "valid" => file.state.lastDone >= start[t] + Timeout

GapInv == Shapes /\ FlockHeld /\ RecordCovers /\ Pending /\ GapKept
------------------------------------------------------------------------------------
\* What is written to the record is a state, with the limiter's own last request (export_state).
LEMMA ExportedShape ==
    ASSUME NEW m, NEW now \in Int, Shape(m)
    PROVE  /\ Shape(Exported(m, now))
           /\ Exported(m, now).lastDone = m.lastDone
           /\ Exported(m, now).blocked = m.blocked \/ m.blocked <= now
BY DEF Shape, Exported

\* What is read from a record is a state; its last request counts as now at the latest
\* (import_state).
LEMMA ImportedShape ==
    ASSUME NEW m, NEW s, NEW now \in Int, Shape(m), Shape(s)
    PROVE  /\ Shape(Imported(m, s, now))
           /\ Imported(m, s, now).lastDone = LaterOf(m.lastDone, EarlierOf(s.lastDone, now))
           /\ Imported(m, s, now).blocked =
                IF s.blocked > now THEN LaterOf(m.blocked, EarlierOf(s.blocked, now + MaxPause))
                                   ELSE m.blocked
BY LimiterAssumption DEF Shape, Imported, LaterOf, EarlierOf

\* Forgetting old stamps changes neither the last request nor the pause (_check).
LEMMA PrunedShape ==
    ASSUME NEW m, NEW now, Shape(m)
    PROVE  /\ Shape(Pruned(m, now))
           /\ Pruned(m, now).lastDone = m.lastDone
           /\ Pruned(m, now).blocked = m.blocked
BY DEF Shape, Pruned

\* A reservation puts the last request at least a timeout ahead (slot).
LEMMA ReservedShape ==
    ASSUME NEW m, NEW slot, NEW now \in Int, NEW k, Shape(m)
    PROVE  /\ Shape(Reserved(m, slot, now, k))
           /\ Reserved(m, slot, now, k).lastDone = LaterOf(m.lastDone, now + Timeout)
BY LimiterAssumption DEF Shape, Reserved, LaterOf

\* A settled slot's last request is the moment it ended (slot).
LEMMA SettledShape ==
    ASSUME NEW m, NEW slot, NEW now \in Int, NEW k, Shape(m)
    PROVE  /\ Shape(Settled(m, slot, now, k))
           /\ Settled(m, slot, now, k).lastDone = now
BY DEF Shape, Settled

\* A state's pause and last request are numbers.
LEMMA ShapeInts == ASSUME NEW m, Shape(m) PROVE m.blocked \in Int /\ m.lastDone \in Int
BY DEF Shape

\* Every step keeps the gap's invariant.
LEMMA GapStep == GapInv /\ [Next]_vars => GapInv'
<1> SUFFICES ASSUME GapInv, [Next]_vars PROVE GapInv'
    OBVIOUS
<1> USE LimiterAssumption DEF GapInv, Shapes, FlockHeld, RecordCovers, Covers, Pending, GapKept,
        LaterOf, EarlierOf
<1>0. clock \in Int
    OBVIOUS
<1>1. ASSUME NEW t \in Task, Enter(t) PROVE GapInv'
    <2>1. Shapes'
        BY <1>1 DEF Enter
    <2>2. FlockHeld' /\ Pending' /\ GapKept'
        BY <1>1 DEF Enter
    <2>3. RecordCovers'
        BY <1>1 DEF Enter
    <2> QED
        BY <2>1, <2>2, <2>3
<1>2. ASSUME NEW t \in Task, TakeMutex(t) PROVE GapInv'
    <2>1. Shapes'
        BY <1>2 DEF TakeMutex
    <2>2. FlockHeld' /\ Pending' /\ GapKept'
        BY <1>2 DEF TakeMutex
    <2>3. RecordCovers'
        BY <1>2 DEF TakeMutex
    <2> QED
        BY <2>1, <2>2, <2>3
<1>3. ASSUME NEW t \in Task, LoadRecord(t) PROVE GapInv'
    <2> DEFINE p == ProcessOf[t]
    <2>1. p \in Process /\ Shape(mem[p]) /\ Shape(file.state)
        OBVIOUS
    <2>2. CASE file.status = "valid"
        <3> DEFINE m == Imported(mem[p], file.state, clock)
        <3>1. /\ Shape(m)
              /\ m.lastDone = LaterOf(mem[p].lastDone, EarlierOf(file.state.lastDone, clock))
              /\ m.blocked = IF file.state.blocked > clock
                             THEN LaterOf(mem[p].blocked, EarlierOf(file.state.blocked, clock + MaxPause))
                             ELSE mem[p].blocked
            BY <2>1, ImportedShape
        <3>2. mem' = [mem EXCEPT ![p] = m] /\ UNCHANGED <<clock, file, start, history>>
            BY <1>3, <2>2 DEF LoadRecord
        <3> HIDE DEF m
        <3>3. Shapes'
            BY <1>3, <3>1, <3>2 DEF LoadRecord, TakeFlock
        <3>4. mem'[p] = m
            BY <2>1, <3>2
        <3>5. Covers(m)
            BY <2>1, <2>2, <3>1, ShapeInts
        <3>6. RecordCovers'
            BY <1>3, <3>2, <3>4, <3>5 DEF LoadRecord, TakeFlock
        <3>7. FlockHeld' /\ Pending' /\ GapKept'
            BY <1>3 DEF LoadRecord, TakeFlock
        <3> QED
            BY <3>3, <3>6, <3>7
    <2>3. CASE file.status = "missing"
        <3>1. mem' = mem
            BY <1>3, <2>3 DEF LoadRecord
        <3> QED
            BY <1>3, <2>3, <3>1 DEF LoadRecord, TakeFlock
    <2> QED
        BY <1>3, <2>2, <2>3 DEF LoadRecord
<1>4. ASSUME NEW t \in Task, ReadFails(t) PROVE GapInv'
    <2>1. Shapes'
        BY <1>4 DEF ReadFails, TakeFlock, Leave
    <2>2. FlockHeld' /\ Pending' /\ GapKept'
        BY <1>4 DEF ReadFails, TakeFlock, Leave
    <2>3. RecordCovers'
        BY <1>4 DEF ReadFails, TakeFlock, Leave
    <2> QED
        BY <2>1, <2>2, <2>3
<1>15. ASSUME NEW t \in Task, CancelWaiting(t) \/ LoadUndecodable(t) PROVE GapInv'
    <2>1. Shapes'
        BY <1>15 DEF CancelWaiting, LoadUndecodable, TakeFlock, Leave
    <2>2. FlockHeld' /\ Pending' /\ GapKept'
        BY <1>15 DEF CancelWaiting, LoadUndecodable, TakeFlock, Leave
    <2>3. RecordCovers'
        BY <1>15 DEF CancelWaiting, LoadUndecodable, TakeFlock, Leave
    <2> QED
        BY <2>1, <2>2, <2>3
<1>5. ASSUME NEW t \in Task, LoadCorrupt(t) PROVE GapInv'
    <2> DEFINE p == ProcessOf[t]
               m == [mem[p] EXCEPT !.blocked = LaterOf(@, clock + Recovery)]
    <2>1. p \in Process /\ Shape(mem[p])
        OBVIOUS
    <2>2. Shape(m) /\ m.lastDone = mem[p].lastDone /\ m.blocked >= clock + Recovery
        BY <2>1 DEF Shape
    <2>3. mem' = [mem EXCEPT ![p] = m] /\ mem'[p] = m /\ UNCHANGED <<clock, start, history>>
        BY <1>5, <2>1 DEF LoadCorrupt
    <2>4. \/ file' = [status |-> "valid", state |-> Exported(m, clock)]
          \/ file' = file
        BY <1>5 DEF LoadCorrupt, Save, SaveFails, Saved
    <2> HIDE DEF m
    <2>5. /\ Shape(Exported(m, clock))
          /\ Exported(m, clock).lastDone = m.lastDone
          /\ Exported(m, clock).blocked = m.blocked \/ m.blocked <= clock
        BY <1>0, <2>2, ExportedShape
    <2>6. Shapes'
        BY <1>5, <2>2, <2>3, <2>4, <2>5 DEF LoadCorrupt
    <2>7. Covers(m)
        BY <2>2, ShapeInts
    <2>8. Covers(Exported(m, clock))
        BY <2>2, <2>5, ShapeInts
    <2>9. RecordCovers'
        <3>1. file.status = "corrupt" /\ at' = [at EXCEPT ![t] = "gap"] /\ flock = NoTask
            BY <1>5 DEF LoadCorrupt, TakeFlock
        <3>2. \A u \in Task : at'[u] = "gap" => u = t
            BY <3>1
        <3> QED
            BY <2>3, <2>4, <2>7, <2>8, <3>1, <3>2
    <2>10. FlockHeld' /\ Pending' /\ GapKept'
        BY <1>5 DEF LoadCorrupt, TakeFlock
    <2> QED
        BY <2>6, <2>9, <2>10
<1>6. ASSUME NEW t \in Task, Refuse(t) PROVE GapInv'
    <2> DEFINE p == ProcessOf[t]
               m == Pruned(mem[p], clock)
    <2>1. p \in Process /\ Shape(m)
        BY PrunedShape
    <2>2. mem' = [mem EXCEPT ![p] = m] /\ UNCHANGED <<clock, file, start, history>>
        BY <1>6 DEF Refuse
    <2> HIDE DEF m
    <2>3. Shapes'
        BY <1>6, <2>1, <2>2 DEF Refuse, Leave
    <2>4. FlockHeld' /\ RecordCovers' /\ Pending' /\ GapKept'
        BY <1>6 DEF Refuse, Awake, Leave
    <2> QED
        BY <2>3, <2>4
<1>7. ASSUME NEW t \in Task, Send(t) PROVE GapInv'
    <2> DEFINE p == ProcessOf[t]
               m == Pruned(mem[p], clock)
               r == Reserved(m, SlotOf(t), clock, kind[t])
               e == Exported(r, clock)
    <2>1. p \in Process /\ Shape(mem[p])
        OBVIOUS
    <2>2. Shape(m) /\ m.lastDone = mem[p].lastDone /\ m.blocked = mem[p].blocked
        BY <2>1, PrunedShape
    <2>3. Shape(r) /\ r.lastDone >= clock + Timeout
        BY <2>2, ReservedShape, ShapeInts
    <2>4. Shape(e) /\ e.lastDone = r.lastDone
        BY <2>3, ExportedShape
    <2>5. /\ mem' = [mem EXCEPT ![p] = r]
          /\ mem'[p] = r
          /\ file' = [status |-> "valid", state |-> e]
          /\ start' = [start EXCEPT ![t] = clock]
          /\ at' = [at EXCEPT ![t] = "out"]
          /\ history'.finished = history.finished
          /\ DOMAIN history' = DOMAIN history
          /\ UNCHANGED <<clock, flock>>
        BY <1>7, <2>1 DEF Send, Save, Saved
    <2>6. at[t] = "gap" /\ clock >= m.lastDone + Gap /\ clock >= m.blocked
        BY <1>7, <2>1, <2>2, ShapeInts DEF Send, Awake, Forbidden
    <2> HIDE DEF p, m, r, e
    <2>7. Shapes'
        BY <2>1, <2>3, <2>4, <2>5
    <2>8. FlockHeld'
        BY <2>5, <2>6
    <2>9. clock >= history.finished + Gap
        BY <2>1, <2>2, <2>6, ShapeInts DEF p
    <2>10. RecordCovers'
        BY <2>5, <2>6, <2>9
    <2>11. Pending'
        BY <2>3, <2>4, <2>5, <2>6, ShapeInts DEF p
    <2>12. GapKept'
        BY <2>5, <2>6, <2>9
    <2> QED
        BY <2>7, <2>8, <2>10, <2>11, <2>12
<1>8. ASSUME NEW t \in Task, CannotRecord(t) PROVE GapInv'
    <2> DEFINE p == ProcessOf[t]
               m == Reserved(Pruned(mem[p], clock), SlotOf(t), clock, kind[t])
    <2>1. p \in Process /\ Shape(m)
        BY <1>0, PrunedShape, ReservedShape
    <2>2. mem' = [mem EXCEPT ![p] = m] /\ UNCHANGED <<clock, file, start, history>>
        BY <1>8 DEF CannotRecord, SaveFails
    <2> HIDE DEF m
    <2>3. Shapes'
        BY <1>8, <2>1, <2>2 DEF CannotRecord, Leave
    <2>4. FlockHeld' /\ RecordCovers' /\ Pending' /\ GapKept'
        BY <1>8, <2>2 DEF CannotRecord, Awake, Leave
    <2> QED
        BY <2>3, <2>4
<1>9. ASSUME NEW t \in Task, Finish(t) PROVE GapInv'
    <2> DEFINE p == ProcessOf[t]
               m == Settled(mem[p], SlotOf(t), clock, kind[t])
               e == Exported(m, clock)
    <2>1. p \in Process /\ Shape(m) /\ m.lastDone = clock
        BY SettledShape
    <2>2. Shape(e) /\ e.lastDone = clock
        BY <2>1, ExportedShape
    <2>3. /\ mem' = [mem EXCEPT ![p] = m]
          /\ history'.finished = clock
          /\ DOMAIN history' = DOMAIN history
          /\ UNCHANGED <<clock, start>>
        BY <1>9 DEF Finish
    <2>4. file' = [status |-> "valid", state |-> e] \/ file' = file
        BY <1>9 DEF Finish, Save, SaveFails, Saved
    <2>5. at[t] = "out" /\ Leave(t)
        BY <1>9 DEF Finish
    <2> HIDE DEF p, m, e
    <2>6. Shapes'
        BY <2>1, <2>2, <2>3, <2>4, <2>5 DEF Leave
    <2>7. FlockHeld' /\ \A u \in Task : at'[u] \notin {"gap", "out"}
        BY <2>5 DEF Leave
    <2>8. RecordCovers'
        BY <2>2, <2>3, <2>4, <2>5, <2>7, ShapeInts
    <2>9. Pending' /\ GapKept'
        BY <2>7
    <2> QED
        BY <2>6, <2>7, <2>8, <2>9
<1>10. ASSUME NEW t \in Task, FinishPaused(t) PROVE GapInv'
    <2> DEFINE p == ProcessOf[t]
    <2>1. PICK s \in Pauses :
            LET blocked == [mem[p] EXCEPT !.blocked = LaterOf(@, clock + s)]
                done == Settled(blocked, SlotOf(t), clock, kind[t])
            IN  /\ mem' = [mem EXCEPT ![p] = done]
                /\ file' = file \/ file' = Saved(blocked) \/ file' = Saved(done)
                /\ history'.finished = clock
                /\ DOMAIN history' = DOMAIN history
        BY <1>10 DEF FinishPaused, Save
    <2> DEFINE b == [mem[p] EXCEPT !.blocked = LaterOf(@, clock + s)]
               m == Settled(b, SlotOf(t), clock, kind[t])
    <2>2. s \in Int /\ p \in Process /\ Shape(mem[p])
        OBVIOUS
    <2>3. Shape(b) /\ b.lastDone = mem[p].lastDone
        BY <2>2 DEF Shape
    <2>4. Shape(m) /\ m.lastDone = clock
        BY <2>3, SettledShape
    <2>5. /\ at[t] = "out" /\ Leave(t)
          /\ mem' = [mem EXCEPT ![p] = m]
          /\ \/ file' = file
             \/ file' = [status |-> "valid", state |-> Exported(b, clock)]
             \/ file' = [status |-> "valid", state |-> Exported(m, clock)]
          /\ history'.finished = clock
          /\ DOMAIN history' = DOMAIN history
          /\ UNCHANGED <<clock, start>>
        BY <1>10, <2>1 DEF FinishPaused, Saved
    <2> HIDE DEF b, m
    <2>6. /\ Shape(Exported(b, clock)) /\ Exported(b, clock).lastDone = b.lastDone
          /\ Shape(Exported(m, clock)) /\ Exported(m, clock).lastDone = clock
        BY <1>0, <2>3, <2>4, ExportedShape
    <2>7. Shapes'
        BY <2>4, <2>5, <2>6 DEF Leave
    <2>8. FlockHeld' /\ \A u \in Task : at'[u] \notin {"gap", "out"}
        BY <2>5 DEF Leave
    <2>9. RecordCovers'
        BY <2>3, <2>5, <2>6, <2>8, ShapeInts
    <2>10. Pending' /\ GapKept'
        BY <2>8
    <2> QED
        BY <2>7, <2>8, <2>9, <2>10
<1>11. ASSUME NEW p \in Process, Crash(p) PROVE GapInv'
    <2> DEFINE out == \E t \in Task : ProcessOf[t] = p /\ at[t] = "out"
    <2>1. /\ mem' = [mem EXCEPT ![p] = Fresh]
          /\ history'.finished = IF out THEN clock ELSE history.finished
          /\ DOMAIN history' = DOMAIN history
          /\ flock' = IF flock \in {t \in Task : ProcessOf[t] = p} THEN NoTask ELSE flock
          /\ at' = [t \in Task |-> IF ProcessOf[t] = p THEN "idle" ELSE at[t]]
          /\ UNCHANGED <<clock, file, start>>
        BY <1>11 DEF Crash
    <2>2. Shape(Fresh)
        BY DEF Shape, Fresh, Never
    <2>3. Shapes'
        BY <2>1, <2>2
    <2>4. FlockHeld'
        BY <2>1
    <2>5. Pending' /\ GapKept'
        BY <2>1
    <2>6. CASE out
        <3>1. PICK t \in Task : ProcessOf[t] = p /\ at[t] = "out"
            BY <2>6
        <3>2. \A u \in Task : at'[u] \notin {"gap", "out"}
            BY <2>1, <3>1
        <3> QED
            BY <2>1, <2>3, <2>4, <2>5, <3>1, <3>2, ShapeInts
    <2>7. CASE ~out
        <3>1. RecordCovers'
            BY <2>1, <2>7
        <3> QED
            BY <2>3, <2>4, <2>5, <3>1
    <2> QED
        BY <2>6, <2>7
<1>12. ASSUME Damage PROVE GapInv'
    <2>1. Shapes'
        BY <1>12, ShapeInts DEF Damage
    <2>2. FlockHeld' /\ Pending' /\ GapKept'
        BY <1>12, ShapeInts DEF Damage
    <2>3. RecordCovers'
        BY <1>12, ShapeInts DEF Damage
    <2> QED
        BY <2>1, <2>2, <2>3
<1>13. ASSUME Tick PROVE GapInv'
    <2>1. Shapes'
        BY <1>13, ShapeInts DEF Tick
    <2>2. FlockHeld' /\ Pending' /\ GapKept'
        BY <1>13, ShapeInts DEF Tick
    <2>3. RecordCovers'
        BY <1>13, ShapeInts DEF Tick
    <2> QED
        BY <2>1, <2>2, <2>3
<1>14. ASSUME UNCHANGED vars PROVE GapInv'
    <2>1. Shapes'
        BY <1>14 DEF vars
    <2>2. FlockHeld' /\ Pending' /\ GapKept'
        BY <1>14 DEF vars
    <2>3. RecordCovers'
        BY <1>14 DEF vars
    <2> QED
        BY <2>1, <2>2, <2>3
<1> QED
    BY <1>1, <1>2, <1>3, <1>4, <1>5, <1>6, <1>7, <1>8, <1>9, <1>10, <1>11, <1>12, <1>13, <1>14, <1>15
    DEF Next, Proceed

\* Before the first request the gap's invariant holds.
LEMMA GapInit == Init => GapInv
BY LimiterAssumption DEF Init, GapInv, Shapes, Shape, FlockHeld, RecordCovers, Covers, Pending, GapKept,
       Fresh, Never

\* For any tasks and processes, however their steps interleave and wherever they die: no two
\* requests are out together (slot).
THEOREM LimiterOneAtATime == Spec => []OneAtATime
<1>1. GapInv => OneAtATime
    BY DEF GapInv, FlockHeld, OneAtATime
<1> QED
    BY <1>1, GapInit, GapStep, PTL DEF Spec

\* For any tasks, processes, gap, timeout, budgets and pauses, over crashes, failed saves and
\* corrupt records: a request starts no sooner than the gap after the last one ended.
THEOREM LimiterGapKept == Spec => []GapKept
<1>1. GapInv => GapKept
    BY DEF GapInv
<1> QED
    BY <1>1, GapInit, GapStep, PTL DEF Spec
------------------------------------------------------------------------------------
\* The pause p was told of is over, or b lasts as long.
Told(p, b) == history.pause[p] <= clock \/ history.pause[p] <= b

\* What a process knows of its pause, in memory or by the record, and what a slot that has read
\* the record knows of every process's: it will write the record for all of them.
PausesKnown ==
    /\ \A p \in Process :
        \/ Told(p, mem[p].blocked)
        \/ file.status = "valid" /\ Told(p, file.state.blocked)
        \/ file.status \in {"corrupt", "undecodable"}
    /\ \A t \in Task : at[t] \in {"gap", "out"} =>
        /\ \A p \in Process : Told(p, mem[p].blocked) \/ Told(p, mem[ProcessOf[t]].blocked)
        /\ \/ file.status # "valid"
           \/ file.state.blocked <= clock
           \/ file.state.blocked <= mem[ProcessOf[t]].blocked

\* No pause is longer than the longest, so a recovery pause outlasts it.
PausesBounded ==
    /\ history.pause \in [Process -> Int]
    /\ \A p \in Process : history.pause[p] <= clock + MaxPause /\ mem[p].blocked <= clock + MaxPause
    /\ file.state.blocked <= clock + MaxPause

PauseInv == PausesKnown /\ PausesBounded /\ PauseKept

\* Neither pruning, a reservation nor its settling changes a pause; the record keeps it until it
\* is over (_check, slot, export_state).
LEMMA BlockedKept ==
    ASSUME NEW m, Shape(m)
    PROVE  /\ \A now : Pruned(m, now).blocked = m.blocked
           /\ \A slot, now, k : Reserved(m, slot, now, k).blocked = m.blocked
           /\ \A slot, now, k : Settled(m, slot, now, k).blocked = m.blocked
           /\ \A now : Exported(m, now).blocked = IF m.blocked > now THEN m.blocked ELSE 0
BY DEF Shape, Pruned, Reserved, Settled, Exported

\* A slot that leaves the record and the pauses alone, and is not out after it, keeps them known.
LEMMA PauseFrame ==
    ASSUME GapInv, PauseInv, GapInv', UNCHANGED <<clock, file, start>>, history'.pause = history.pause,
           \A p \in Process : mem'[p].blocked = mem[p].blocked,
           \A t \in Task : at'[t] \in {"gap", "out"} => at'[t] = at[t]
    PROVE  PauseInv'
<1>1. PausesBounded'
    BY DEF PauseInv, PausesBounded
<1>2. PausesKnown'
    BY LimiterAssumption DEF PauseInv, PausesKnown, Told
<1>3. PauseKept'
    BY DEF PauseInv, PauseKept
<1> QED
    BY <1>1, <1>2, <1>3 DEF PauseInv

\* Every step keeps the pauses known.
LEMMA PauseStep == GapInv /\ GapInv' /\ PauseInv /\ [Next]_vars => PauseInv'
<1> SUFFICES ASSUME GapInv, GapInv', PauseInv, [Next]_vars PROVE PauseInv'
    OBVIOUS
<1>0. /\ clock \in Nat /\ clock' \in Nat /\ MaxPause \in Nat /\ Recovery = MaxPause
      /\ \A p \in Process : Shape(mem[p]) /\ mem[p].blocked \in Int /\ history.pause[p] \in Int
      /\ Shape(file.state) /\ file.state.blocked \in Int
      /\ \A t \in Task : ProcessOf[t] \in Process
    <2>1. clock \in Nat /\ clock' \in Nat
        BY DEF GapInv, Shapes
    <2>2. MaxPause \in Nat /\ Recovery = MaxPause /\ \A t \in Task : ProcessOf[t] \in Process
        BY LimiterAssumption, PauseAssumption
    <2>3. Shape(file.state) /\ \A p \in Process : Shape(mem[p])
        BY DEF GapInv, Shapes
    <2>4. \A p \in Process : history.pause[p] \in Int
        BY DEF PauseInv, PausesBounded
    <2> QED
        BY <2>1, <2>2, <2>3, <2>4, ShapeInts
<1>1. ASSUME NEW t \in Task, Enter(t) \/ TakeMutex(t) PROVE PauseInv'
    BY <1>1, PauseFrame DEF Enter, TakeMutex, GapInv, Shapes
<1>2. ASSUME NEW t \in Task, ReadFails(t) PROVE PauseInv'
    BY <1>2, PauseFrame DEF ReadFails, Leave, GapInv, Shapes
<1>14. ASSUME NEW t \in Task, CancelWaiting(t) \/ LoadUndecodable(t) PROVE PauseInv'
    BY <1>14, PauseFrame DEF CancelWaiting, LoadUndecodable, Leave, GapInv, Shapes
<1>3. ASSUME NEW t \in Task, Refuse(t) \/ CannotRecord(t) PROVE PauseInv'
    <2>1. /\ UNCHANGED <<clock, file, start, history>>
          /\ \A u \in Task : at'[u] \in {"gap", "out"} => at'[u] = at[u]
        BY <1>3 DEF Refuse, CannotRecord, SaveFails, Leave, GapInv, Shapes
    <2>2. PICK m : mem' = [mem EXCEPT ![ProcessOf[t]] = m] /\ m.blocked = mem[ProcessOf[t]].blocked
        <3>1. Shape(Pruned(mem[ProcessOf[t]], clock))
            BY <1>0, PrunedShape
        <3> QED
            BY <1>0, <1>3, <3>1, BlockedKept DEF Refuse, CannotRecord
    <2>3. \A p \in Process : mem'[p].blocked = mem[p].blocked
        BY <1>0, <2>2 DEF GapInv, Shapes
    <2> QED
        BY <2>1, <2>3, PauseFrame
<1>4. ASSUME NEW t \in Task, LoadRecord(t) PROVE PauseInv'
    <2> DEFINE p == ProcessOf[t]
    <2>1. /\ UNCHANGED <<clock, file, start, history>>
          /\ at' = [at EXCEPT ![t] = "gap"]
          /\ \A u \in Task : at[u] \notin {"gap", "out"}
        BY <1>4 DEF LoadRecord, TakeFlock, GapInv, Shapes, FlockHeld
    <2>2. \A u \in Task : at'[u] \in {"gap", "out"} => u = t
        BY <2>1 DEF GapInv, Shapes
    <2>3. PICK b \in Int :
              /\ b >= mem[p].blocked /\ b <= clock + MaxPause
              /\ file.status = "valid" => file.state.blocked <= clock \/ file.state.blocked <= b
              /\ mem'[p].blocked = b
              /\ \A q \in Process : q # p => mem'[q] = mem[q]
        <3>1. CASE file.status = "valid"
            <4> DEFINE m == Imported(mem[p], file.state, clock)
            <4>1. m.blocked = IF file.state.blocked > clock
                              THEN LaterOf(mem[p].blocked, EarlierOf(file.state.blocked, clock + MaxPause))
                              ELSE mem[p].blocked
                BY <1>0, ImportedShape
            <4>2. mem' = [mem EXCEPT ![p] = m]
                BY <1>4, <3>1 DEF LoadRecord
            <4> HIDE DEF m
            <4>3. mem'[p] = m /\ \A q \in Process : q # p => mem'[q] = mem[q]
                BY <1>0, <4>2 DEF GapInv, Shapes
            <4>4. m.blocked \in Int /\ m.blocked >= mem[p].blocked /\ m.blocked <= clock + MaxPause
                BY <1>0, <4>1 DEF LaterOf, EarlierOf, PauseInv, PausesBounded
            <4>5. file.state.blocked <= clock \/ file.state.blocked <= m.blocked
                BY <1>0, <4>1 DEF LaterOf, EarlierOf, PauseInv, PausesBounded
            <4> QED
                BY <4>3, <4>4, <4>5
        <3>2. CASE file.status # "valid"
            <4>1. mem' = mem
                BY <1>4, <3>2 DEF LoadRecord
            <4> QED
                BY <1>0, <3>2, <4>1 DEF PauseInv, PausesBounded
        <3> QED
            BY <3>1, <3>2
    <2>4. file.status \notin {"corrupt", "undecodable"}
        BY <1>4 DEF LoadRecord
    <2>5. \A q \in Process : Told(q, mem[q].blocked) \/ Told(q, b)
        BY <1>0, <2>3, <2>4 DEF PauseInv, PausesKnown, Told
    <2>6. ASSUME NEW q \in Process PROVE mem'[q].blocked \in Int /\ mem'[q].blocked >= mem[q].blocked
        BY <1>0, <2>3
    <2>7. ASSUME NEW q \in Process PROVE Told(q, mem'[q].blocked) \/ Told(q, b)
        BY <1>0, <2>3, <2>5, <2>6 DEF Told
    <2>8. PausesBounded'
        BY <1>0, <2>1, <2>3 DEF PauseInv, PausesBounded
    <2>9. PausesKnown'
        <3>1. ASSUME NEW q \in Process PROVE
                  \/ Told(q, mem'[q].blocked)
                  \/ file.status = "valid" /\ Told(q, file.state.blocked)
            BY <1>0, <2>4, <2>6 DEF PauseInv, PausesKnown, Told
        <3> QED
            BY <2>1, <2>2, <2>3, <2>7, <3>1 DEF PausesKnown, Told
    <2>10. PauseKept'
        BY <2>1, <2>2 DEF PauseKept, PauseInv, GapInv, Shapes
    <2> QED
        BY <2>8, <2>9, <2>10 DEF PauseInv
<1>5. ASSUME NEW t \in Task, LoadCorrupt(t) PROVE PauseInv'
    <2> DEFINE p == ProcessOf[t]
               m == [mem[p] EXCEPT !.blocked = LaterOf(@, clock + Recovery)]
    <2>1. /\ UNCHANGED <<clock, start, history>>
          /\ at' = [at EXCEPT ![t] = "gap"]
          /\ \A u \in Task : at[u] \notin {"gap", "out"}
          /\ file.status = "corrupt"
          /\ mem' = [mem EXCEPT ![p] = m]
        BY <1>5 DEF LoadCorrupt, TakeFlock, GapInv, Shapes, FlockHeld
    <2>2. \A u \in Task : at'[u] \in {"gap", "out"} => u = t
        BY <2>1 DEF GapInv, Shapes
    <2>3. Shape(m) /\ m.blocked = clock + MaxPause
        BY <1>0 DEF Shape, LaterOf, PauseInv, PausesBounded
    <2>4. file' = file \/ file' = [status |-> "valid", state |-> Exported(m, clock)]
        BY <1>5 DEF LoadCorrupt, Save, SaveFails, Saved
    <2> HIDE DEF m
    <2>5. mem'[p] = m /\ \A q \in Process : q # p => mem'[q] = mem[q]
        BY <1>0, <2>1 DEF GapInv, Shapes
    <2>6. Exported(m, clock).blocked = IF m.blocked > clock THEN m.blocked ELSE 0
        BY <2>3, BlockedKept
    <2>7. \A q \in Process : history.pause[q] <= m.blocked
        BY <1>0, <2>3 DEF PauseInv, PausesBounded
    <2>8. PausesBounded'
        BY <1>0, <2>1, <2>3, <2>4, <2>5, <2>6 DEF PauseInv, PausesBounded
    <2>9. PausesKnown'
        <3>1. ASSUME NEW q \in Process PROVE Told(q, m.blocked)
            BY <2>7 DEF Told
        <3>2. \/ file'.status = "corrupt"
              \/ file'.status = "valid" /\ (m.blocked > clock => file'.state.blocked = m.blocked)
            BY <2>1, <2>4, <2>6
        <3>3. m.blocked <= clock => \A q \in Process : history.pause[q] <= clock
            BY <1>0, <2>3, <2>7
        <3>4. file'.status = "valid" => file'.state.blocked <= clock \/ file'.state.blocked <= m.blocked
            BY <1>0, <2>1, <2>3, <2>4, <2>6
        <3>5. ASSUME NEW q \in Process PROVE
                  \/ file'.status = "valid" /\ Told(q, file'.state.blocked)
                  \/ file'.status = "corrupt"
            BY <1>0, <2>3, <2>7, <3>2, <3>3 DEF Told
        <3> QED
            BY <2>1, <2>2, <2>5, <3>1, <3>4, <3>5 DEF PausesKnown, Told
    <2>10. PauseKept'
        BY <2>1, <2>2 DEF PauseKept, PauseInv, GapInv, Shapes
    <2> QED
        BY <2>8, <2>9, <2>10 DEF PauseInv
<1>6. ASSUME NEW t \in Task, NEW m, Shape(m), m.blocked = mem[ProcessOf[t]].blocked,
             at[t] \in {"gap", "out"}, file'.status = "valid", file'.state = Exported(m, clock),
             mem' = [mem EXCEPT ![ProcessOf[t]] = m], clock' = clock, history'.pause = history.pause,
             \A u \in Task : at'[u] \in {"gap", "out"} => u = t
      PROVE  PausesKnown' /\ PausesBounded' /\ Told(ProcessOf[t], m.blocked)
    <2> DEFINE p == ProcessOf[t]
    <2>1. file'.state.blocked = IF m.blocked > clock THEN m.blocked ELSE 0
        BY <1>6, BlockedKept
    <2>2. mem'[p] = m /\ \A q \in Process : q # p => mem'[q] = mem[q]
        BY <1>0, <1>6 DEF GapInv, Shapes
    <2>3. \A q \in Process : Told(q, mem[q].blocked) \/ Told(q, m.blocked)
        BY <1>6 DEF PauseInv, PausesKnown
    <2>4. Told(p, m.blocked)
        BY <1>0, <1>6, <2>3
    <2>5. m.blocked \in Int /\ file'.state.blocked \in Int
        BY <1>0, <1>6, <2>1
    <2>6. PausesBounded'
        BY <1>0, <1>6, <2>1, <2>2, <2>5 DEF PauseInv, PausesBounded
    <2>7. ASSUME NEW q \in Process PROVE Told(q, mem'[q].blocked) \/ Told(q, m.blocked)
        BY <1>6, <2>2, <2>3
    <2>8. ASSUME NEW q \in Process PROVE Told(q, mem'[q].blocked) \/ Told(q, file'.state.blocked)
        BY <1>0, <2>1, <2>5, <2>7 DEF Told
    <2>9. file'.state.blocked <= clock \/ file'.state.blocked <= m.blocked
        BY <1>0, <2>1, <2>5
    <2>10. PausesKnown'
        BY <1>6, <2>2, <2>7, <2>8, <2>9 DEF PausesKnown, Told
    <2> QED
        BY <2>4, <2>6, <2>10
<1>7. ASSUME NEW t \in Task, Send(t) PROVE PauseInv'
    <2> DEFINE p == ProcessOf[t]
               m == Pruned(mem[p], clock)
               r == Reserved(m, SlotOf(t), clock, kind[t])
    <2>1. Shape(m) /\ m.blocked = mem[p].blocked
        BY <1>0, PrunedShape
    <2>2. Shape(r) /\ r.blocked = mem[p].blocked
        BY <1>0, <2>1, ReservedShape, BlockedKept
    <2>3. /\ mem' = [mem EXCEPT ![p] = r]
          /\ file' = [status |-> "valid", state |-> Exported(r, clock)]
          /\ start' = [start EXCEPT ![t] = clock]
          /\ at' = [at EXCEPT ![t] = "out"]
          /\ history'.pause = history.pause
          /\ at[t] = "gap" /\ clock' = clock
        BY <1>7 DEF Send, Save, Saved, Awake, GapInv, Shapes
    <2>4. clock >= mem[p].blocked
        BY <1>0, <1>7, <2>1 DEF Send, Forbidden
    <2>5. \A u \in Task : at'[u] \in {"gap", "out"} => u = t
        BY <2>3 DEF GapInv, Shapes, FlockHeld
    <2> HIDE DEF m, r
    <2>6. PausesKnown' /\ PausesBounded' /\ Told(p, r.blocked)
        BY <1>6, <2>2, <2>3, <2>5
    <2>7. history.pause[p] <= clock
        BY <1>0, <2>2, <2>4, <2>6 DEF Told
    <2>8. PauseKept'
        BY <2>3, <2>5, <2>7 DEF PauseKept, GapInv, Shapes
    <2> QED
        BY <2>6, <2>8 DEF PauseInv
<1>8. ASSUME NEW t \in Task, Finish(t) PROVE PauseInv'
    <2> DEFINE p == ProcessOf[t]
               m == Settled(mem[p], SlotOf(t), clock, kind[t])
    <2>1. Shape(m) /\ m.blocked = mem[p].blocked
        BY <1>0, SettledShape, BlockedKept
    <2>2. /\ mem' = [mem EXCEPT ![p] = m]
          /\ file' = file \/ file' = [status |-> "valid", state |-> Exported(m, clock)]
          /\ history'.pause = history.pause
          /\ at[t] = "out" /\ UNCHANGED <<clock, start>>
        BY <1>8 DEF Finish, Save, SaveFails, Saved, GapInv, Shapes
    <2>3. \A u \in Task : at'[u] \notin {"gap", "out"}
        BY <1>8 DEF Finish, Leave, GapInv, Shapes, FlockHeld
    <2> HIDE DEF m
    <2>4. PauseKept'
        BY <2>3 DEF PauseKept
    <2>5. CASE file' = file
        <3>1. \A q \in Process : mem'[q].blocked = mem[q].blocked
            BY <1>0, <2>1, <2>2 DEF GapInv, Shapes
        <3> QED
            BY <2>2, <2>3, <2>5, <3>1, PauseFrame
    <2>6. CASE file' = [status |-> "valid", state |-> Exported(m, clock)]
        BY <1>6, <2>1, <2>2, <2>3, <2>4, <2>6 DEF PauseInv
    <2> QED
        BY <2>2, <2>5, <2>6
<1>9. ASSUME NEW t \in Task, FinishPaused(t) PROVE PauseInv'
    <2> DEFINE p == ProcessOf[t]
    <2>1. PICK s \in Pauses :
            LET blocked == [mem[p] EXCEPT !.blocked = LaterOf(@, clock + s)]
                done == Settled(blocked, SlotOf(t), clock, kind[t])
            IN  /\ mem' = [mem EXCEPT ![p] = done]
                /\ \/ /\ file' = Saved(blocked) \/ file' = Saved(done)
                      /\ history' = [history EXCEPT !.finished = clock,
                            !.pause = [q \in Process |-> LaterOf(@[q], clock + s)]]
                   \/ /\ file' = file
                      /\ history' = [history EXCEPT !.finished = clock,
                            !.pause[p] = LaterOf(@, clock + s)]
        BY <1>9 DEF FinishPaused, Save
    <2> DEFINE b == [mem[p] EXCEPT !.blocked = LaterOf(@, clock + s)]
               m == Settled(b, SlotOf(t), clock, kind[t])
               late == LaterOf(mem[p].blocked, clock + s)
    <2>2. s \in Nat /\ s <= MaxPause
        BY <1>0, LimiterAssumption
    <2>3. Shape(b) /\ b.blocked = late
        BY <1>0, <2>2 DEF Shape, LaterOf
    <2>4. Shape(m) /\ m.blocked = late
        <3> HIDE DEF b, late
        <3> QED
            BY <1>0, <2>3, SettledShape, BlockedKept
    <2>5. /\ late \in Int /\ late >= clock + s /\ late >= mem[p].blocked /\ late <= clock + MaxPause
        BY <1>0, <2>2 DEF LaterOf, PauseInv, PausesBounded
    <2>6. at[t] = "out" /\ UNCHANGED <<clock, start>> /\ \A u \in Task : at'[u] \notin {"gap", "out"}
        BY <1>9 DEF FinishPaused, Leave, GapInv, Shapes, FlockHeld
    <2>7. mem' = [mem EXCEPT ![p] = m]
        BY <2>1
    <2>8. \/ /\ file'.status = "valid"
             /\ file'.state = Exported(b, clock) \/ file'.state = Exported(m, clock)
             /\ history'.pause = [q \in Process |-> LaterOf(history.pause[q], clock + s)]
          \/ /\ file' = file
             /\ history'.pause = [history.pause EXCEPT ![p] = LaterOf(@, clock + s)]
        <3>1. \/ /\ file' = Saved(b) \/ file' = Saved(m)
                 /\ history' = [history EXCEPT !.finished = clock,
                       !.pause = [q \in Process |-> LaterOf(@[q], clock + s)]]
              \/ /\ file' = file
                 /\ history' = [history EXCEPT !.finished = clock,
                       !.pause[p] = LaterOf(@, clock + s)]
            BY <2>1
        <3> HIDE DEF b, m
        <3>2. ASSUME NEW x, file' = Saved(x) PROVE file'.status = "valid" /\ file'.state = Exported(x, clock)
            BY <3>2 DEF Saved
        <3>3. ASSUME history' = [history EXCEPT !.finished = clock,
                           !.pause = [q \in Process |-> LaterOf(@[q], clock + s)]]
              PROVE  history'.pause = [q \in Process |-> LaterOf(history.pause[q], clock + s)]
            BY <3>3 DEF GapInv, Shapes
        <3>4. ASSUME history' = [history EXCEPT !.finished = clock, !.pause[p] = LaterOf(@, clock + s)]
              PROVE  history'.pause = [history.pause EXCEPT ![p] = LaterOf(@, clock + s)]
            BY <3>4 DEF GapInv, Shapes
        <3> QED
            BY <3>1, <3>2, <3>3, <3>4
    <2> HIDE DEF b, m, late
    <2>9. mem'[p].blocked = late /\ \A q \in Process : q # p => mem'[q] = mem[q]
        BY <1>0, <2>4, <2>7 DEF GapInv, Shapes
    <2>10. \A q \in Process : Told(q, mem[q].blocked) \/ Told(q, mem[p].blocked)
        BY <2>6 DEF PauseInv, PausesKnown
    <2>11. PauseKept'
        BY <2>6 DEF PauseKept
    <2>12. CASE /\ file'.status = "valid"
                /\ file'.state = Exported(b, clock) \/ file'.state = Exported(m, clock)
                /\ history'.pause = [q \in Process |-> LaterOf(history.pause[q], clock + s)]
        <3>1. file'.state.blocked = IF late > clock THEN late ELSE 0
            BY <2>3, <2>4, <2>12, BlockedKept
        <3>2. PausesBounded'
            BY <1>0, <2>2, <2>5, <2>6, <2>9, <2>12, <3>1 DEF PauseInv, PausesBounded, LaterOf
        <3>3. ASSUME NEW q \in Process
              PROVE  \/ history'.pause[q] <= clock \/ history'.pause[q] <= mem'[q].blocked
                     \/ history'.pause[q] <= late
            <4>1. history'.pause[q] = history.pause[q] \/ history'.pause[q] = clock + s
                BY <2>12 DEF LaterOf
            <4>2. mem[q].blocked <= mem'[q].blocked
                BY <1>0, <2>5, <2>9
            <4> QED
                BY <1>0, <2>2, <2>5, <2>9, <2>10, <4>1, <4>2 DEF Told
        <3>4. ASSUME NEW q \in Process
              PROVE  \/ history'.pause[q] <= clock \/ history'.pause[q] <= mem'[q].blocked
                     \/ history'.pause[q] <= file'.state.blocked
            <4>1. history'.pause[q] \in Int
                BY <1>0, <2>2, <2>12 DEF LaterOf
            <4> QED
                BY <1>0, <2>5, <3>1, <3>3, <4>1
        <3>5. PausesKnown'
            BY <2>6, <2>12, <3>4 DEF PausesKnown, Told
        <3> QED
            BY <2>11, <3>2, <3>5 DEF PauseInv
    <2>13. CASE /\ file' = file
                /\ history'.pause = [history.pause EXCEPT ![p] = LaterOf(@, clock + s)]
        <3>1. PausesBounded'
            BY <1>0, <2>2, <2>5, <2>6, <2>9, <2>13 DEF PauseInv, PausesBounded, LaterOf
        <3>2. /\ history'.pause[p] = LaterOf(history.pause[p], clock + s)
              /\ \A q \in Process : q # p => history'.pause[q] = history.pause[q]
            BY <1>0, <2>13 DEF PauseInv, PausesBounded
        <3>3. history'.pause[p] <= clock \/ history'.pause[p] <= late
            BY <1>0, <2>2, <2>5, <2>10, <3>2 DEF LaterOf, Told
        <3>4. PausesKnown'
            BY <1>0, <2>6, <2>9, <2>13, <3>2, <3>3 DEF PauseInv, PausesKnown, Told
        <3> QED
            BY <2>11, <3>1, <3>4 DEF PauseInv
    <2> QED
        BY <2>8, <2>12, <2>13
<1>10. ASSUME NEW p \in Process, Crash(p) PROVE PauseInv'
    <2> DEFINE kept == LaterOf(0, IF file.status = "valid" THEN file.state.blocked ELSE 0)
    <2>1. /\ mem' = [mem EXCEPT ![p] = Fresh]
          /\ history'.pause = [history.pause EXCEPT ![p] = kept]
          /\ at' = [t \in Task |-> IF ProcessOf[t] = p THEN "idle" ELSE at[t]]
          /\ UNCHANGED <<clock, file, start>>
        BY <1>10 DEF Crash, GapInv, Shapes
    <2>2. kept \in Int /\ kept <= clock + MaxPause /\ (file.status # "valid" => kept = 0)
          /\ (kept <= clock \/ kept <= file.state.blocked)
        BY <1>0 DEF LaterOf, PauseInv, PausesBounded
    <2> HIDE DEF kept
    <2>3. /\ mem'[p].blocked = 0 /\ history'.pause[p] = kept
          /\ \A q \in Process : q # p => mem'[q] = mem[q] /\ history'.pause[q] = history.pause[q]
          /\ history'.pause \in [Process -> Int]
        BY <1>0, <2>1, <2>2 DEF GapInv, Shapes, Fresh, PauseInv, PausesBounded
    <2>4. PausesBounded'
        BY <1>0, <2>1, <2>2, <2>3 DEF PauseInv, PausesBounded
    <2>5. \A t \in Task : at'[t] \in {"gap", "out"} => ProcessOf[t] # p /\ at'[t] = at[t]
        BY <2>1
    <2>6. ASSUME NEW q \in Process
          PROVE  (\/ Told(q, mem[q].blocked)
                  \/ file.status = "valid" /\ Told(q, file.state.blocked)
                  \/ file.status \in {"corrupt", "undecodable"})'
        <3>1. CASE q = p
            <4>1. file.status = "valid" => kept <= clock \/ kept <= file.state.blocked
                BY <2>2
            <4>2. file.status # "valid" => kept <= clock
                BY <1>0, <2>2
            <4> QED
                BY <2>1, <2>3, <3>1, <4>1, <4>2 DEF Told
        <3>2. CASE q # p
            BY <2>1, <2>3, <3>2 DEF PauseInv, PausesKnown, Told
        <3> QED
            BY <3>1, <3>2
    <2>7. ASSUME NEW t \in Task, at'[t] \in {"gap", "out"}
          PROVE  (/\ \A q \in Process : Told(q, mem[q].blocked) \/ Told(q, mem[ProcessOf[t]].blocked)
                  /\ \/ file.status # "valid"
                     \/ file.state.blocked <= clock
                     \/ file.state.blocked <= mem[ProcessOf[t]].blocked)'
        <3>1. ProcessOf[t] # p /\ at[t] \in {"gap", "out"} /\ mem'[ProcessOf[t]] = mem[ProcessOf[t]]
            BY <1>0, <2>3, <2>5, <2>7
        <3>2. \/ file.status # "valid"
              \/ file.state.blocked <= clock
              \/ file.state.blocked <= mem[ProcessOf[t]].blocked
            BY <3>1 DEF PauseInv, PausesKnown
        <3>3. kept <= clock \/ kept <= mem[ProcessOf[t]].blocked
            BY <1>0, <2>2, <3>2
        <3>4. ASSUME NEW q \in Process, q # p
              PROVE  Told(q, mem[q].blocked) \/ Told(q, mem[ProcessOf[t]].blocked)
            BY <3>1 DEF PauseInv, PausesKnown
        <3> QED
            BY <2>1, <2>3, <3>1, <3>2, <3>3, <3>4 DEF Told
    <2>8. PausesKnown'
        BY <2>6, <2>7 DEF PausesKnown
    <2>9. PauseKept'
        BY <1>0, <2>1, <2>3, <2>5 DEF PauseKept, PauseInv
    <2> QED
        BY <2>4, <2>8, <2>9 DEF PauseInv
<1>11. ASSUME Damage PROVE PauseInv'
    <2>1. /\ file'.status \in {"corrupt", "undecodable"} /\ file'.state = file.state
          /\ UNCHANGED <<clock, mem, at, start, history>>
        BY <1>11 DEF Damage, GapInv, Shapes
    <2>2. PausesKnown'
        BY <2>1 DEF PauseInv, PausesKnown, Told
    <2> QED
        BY <2>1, <2>2 DEF PauseInv, PausesBounded, PauseKept
<1>12. ASSUME Tick PROVE PauseInv'
    <2>1. clock' = clock + 1 /\ UNCHANGED <<file, mem, at, start, history>>
        BY <1>12 DEF Tick
    <2>2. PausesBounded'
        BY <1>0, <2>1 DEF PauseInv, PausesBounded
    <2>3. ASSUME NEW q \in Process, NEW b, Told(q, b) PROVE Told(q, b)'
        BY <1>0, <2>1, <2>3 DEF Told
    <2>4. PausesKnown'
        BY <1>0, <2>1 DEF PauseInv, PausesKnown, Told
    <2>5. PauseKept'
        BY <2>1 DEF PauseInv, PauseKept
    <2> QED
        BY <2>2, <2>4, <2>5 DEF PauseInv
<1>13. ASSUME UNCHANGED vars PROVE PauseInv'
    BY <1>13 DEF vars, PauseInv, PausesKnown, PausesBounded, PauseKept, Told
<1> QED
    BY <1>1, <1>2, <1>3, <1>4, <1>5, <1>7, <1>8, <1>9, <1>10, <1>11, <1>12, <1>13, <1>14
    DEF Next, Proceed

\* At first nobody was told of a pause.
LEMMA PauseInit == Init => PauseInv
BY LimiterAssumption DEF Init, PauseInv, PausesKnown, PausesBounded, PauseKept, Told, Fresh, Never

\* For any tasks, processes, budgets and pauses, over crashes, failed saves and corrupt records:
\* no process sends during a pause it was told of, by its own answer or by the record (block, _load).
THEOREM LimiterPauseKept == Spec => []PauseKept
<1>1. Init => GapInv /\ PauseInv
    BY GapInit, PauseInit
<1>2. GapInv /\ PauseInv /\ [Next]_vars => (GapInv /\ PauseInv)'
    BY GapStep, PauseStep
<1>3. PauseInv => PauseKept
    BY DEF PauseInv
<1> QED
    BY <1>1, <1>2, <1>3, PTL DEF Spec
------------------------------------------------------------------------------------
\* A record of the history is a record, and a slot that is entered has a number.
TypeInv ==
    /\ TypeOK
    /\ DOMAIN history = {"sends", "finished", "pause"}
    /\ \A t \in Task : at[t] # "idle" => slots[t] \in 1..MaxSlots

\* What the limiter's operators make of a state is a state, at any time of the clock (slot,
\* export_state, import_state, _check).
LEMMA StatesTyped ==
    ASSUME NEW m \in State, NEW now \in 0..MaxTime, NEW slot \in Slot, NEW k
    PROVE  /\ Exported(m, now) \in State
           /\ Pruned(m, now) \in State
           /\ Reserved(m, slot, now, k) \in State
           /\ Settled(m, slot, now, k) \in State
<1> USE LimiterAssumption
<1>1. Exported(m, now) \in State
    BY DEF Exported, State
<1>2. Pruned(m, now) \in State
    BY DEF Pruned, Kept, State
<1>3. /\ [slot |-> slot, time |-> now + Timeout] \in Stamps
      /\ [slot |-> slot, time |-> now] \in Stamps
    BY DEF Stamps
<1>4. /\ m.sent \in SUBSET Stamps /\ m.commands \in SUBSET Stamps
      /\ LaterOf(m.lastDone, now + Timeout) \in Never..(MaxTime + Timeout)
      /\ now \in Never..(MaxTime + Timeout)
    BY DEF State, LaterOf, Never
<1>5. Reserved(m, slot, now, k) \in State
    <2> DEFINE new == {[slot |-> slot, time |-> now + Timeout]}
    <2>1. m.sent \cup new \in SUBSET Stamps /\ m.commands \cup new \in SUBSET Stamps
        BY <1>3, <1>4
    <2> QED
        BY <1>4, <2>1 DEF Reserved, Insort, State
<1>6. Settled(m, slot, now, k) \in State
    <2>1. ASSUME NEW stamps \in SUBSET Stamps PROVE Settle(stamps, slot, now) \in SUBSET Stamps
        BY <1>3, <2>1 DEF Settle, Insort
    <2> QED
        BY <1>4, <2>1 DEF Settled, State
<1> QED
    BY <1>1, <1>2, <1>5, <1>6

\* What a process reads of a record, and a pause that begins, leave it with a state
\* (import_state, hold, block).
LEMMA ReadingTyped ==
    ASSUME NEW m \in State, NEW s \in State, NEW now \in 0..MaxTime, NEW d \in 0..MaxPause
    PROVE  /\ Imported(m, s, now) \in State
           /\ [m EXCEPT !.blocked = LaterOf(@, now + d)] \in State
<1> USE LimiterAssumption
<1>1. ASSUME NEW stamps \in SUBSET Stamps
      PROVE  {[x EXCEPT !.time = EarlierOf(@, now)] : x \in stamps} \in SUBSET Stamps
    BY <1>1 DEF Stamps, EarlierOf
<1>2. Imported(m, s, now) \in State
    <2>1. /\ LaterOf(m.lastDone, EarlierOf(s.lastDone, now)) \in Never..(MaxTime + Timeout)
          /\ LaterOf(m.blocked, EarlierOf(s.blocked, now + MaxPause)) \in 0..(MaxTime + MaxPause)
        BY DEF State, Never, LaterOf, EarlierOf
    <2> QED
        BY <1>1, <2>1 DEF Imported, State
<1>3. [m EXCEPT !.blocked = LaterOf(@, now + d)] \in State
    BY DEF State, LaterOf
<1> QED
    BY <1>2, <1>3

\* What is written to the record is a state (export_state).
LEMMA ExportedTyped == ASSUME NEW m \in State, NEW now \in 0..MaxTime PROVE Exported(m, now) \in State
BY LimiterAssumption DEF Exported, State

\* Every step keeps the types.
LEMMA TypeStep == TypeInv /\ [Next]_vars => TypeInv'
<1> SUFFICES ASSUME TypeInv, [Next]_vars PROVE TypeInv'
    OBVIOUS
<1> USE LimiterAssumption DEF TypeInv, TypeOK
<1>a. \A t \in Task : at[t] # "idle" => SlotOf(t) \in Slot
    BY DEF SlotOf, Slot
<1>b. clock \in 0..MaxTime /\ file.state \in State /\ \A p \in Process : mem[p] \in State
    OBVIOUS
<1>c. ASSUME NEW m \in State PROVE Saved(m) \in [status : {"missing", "valid", "corrupt", "undecodable"}, state : State]
    <2>1. Exported(m, clock) \in State
        BY <1>b, ExportedTyped
    <2> QED
        BY <2>1 DEF Saved
<1>d. ASSUME NEW m \in State, Save(m) \/ SaveFails
      PROVE  /\ file' \in [status : {"missing", "valid", "corrupt", "undecodable"}, state : State]
             /\ budget' \in [fails : 0..MaxFails, crashes : 0..MaxCrashes, damage : 0..MaxDamage]
    BY <1>c, <1>d DEF Save, SaveFails
<1>1. ASSUME NEW t \in Task, Enter(t) PROVE TypeInv'
    BY <1>1 DEF Enter
<1>2. ASSUME NEW t \in Task, TakeMutex(t) PROVE TypeInv'
    BY <1>2 DEF TakeMutex
<1>3. ASSUME NEW t \in Task, LoadRecord(t) PROVE TypeInv'
    <2>1. 0 \in 0..MaxPause /\ mem[ProcessOf[t]] \in State
        OBVIOUS
    <2>2. Imported(mem[ProcessOf[t]], file.state, clock) \in State
        BY <1>b, <2>1, ReadingTyped
    <2>3. mem' \in [Process -> State]
        BY <1>3, <2>2 DEF LoadRecord
    <2> QED
        BY <1>3, <2>3 DEF LoadRecord, TakeFlock
<1>4. ASSUME NEW t \in Task, ReadFails(t) PROVE TypeInv'
    BY <1>4 DEF ReadFails, TakeFlock, Leave
<1>16. ASSUME NEW t \in Task, CancelWaiting(t) \/ LoadUndecodable(t) PROVE TypeInv'
    BY <1>16 DEF CancelWaiting, LoadUndecodable, TakeFlock, Leave
<1>5. ASSUME NEW t \in Task, LoadCorrupt(t) PROVE TypeInv'
    <2> DEFINE held == [mem[ProcessOf[t]] EXCEPT !.blocked = LaterOf(@, clock + Recovery)]
    <2>1. held \in State
        <3>1. Recovery \in 0..MaxPause
            OBVIOUS
        <3>2. mem[ProcessOf[t]] \in State
            BY <1>b
        <3> QED
            BY <1>b, <3>1, <3>2, ReadingTyped
    <2> HIDE DEF held
    <2>2. mem' = [mem EXCEPT ![ProcessOf[t]] = held] /\ (Save(held) \/ SaveFails)
        BY <1>5 DEF LoadCorrupt, held
    <2>3. mem' \in [Process -> State]
        BY <2>1, <2>2
    <2> QED
        BY <1>5, <1>d, <2>1, <2>2, <2>3 DEF LoadCorrupt, TakeFlock
<1>6. ASSUME NEW t \in Task, Refuse(t) PROVE TypeInv'
    <2>1. Pruned(mem[ProcessOf[t]], clock) \in State
        BY <1>b DEF Pruned, Kept, State
    <2>2. mem' \in [Process -> State]
        BY <1>6, <2>1 DEF Refuse
    <2> QED
        BY <1>6, <2>2 DEF Refuse, Leave
<1>7. ASSUME NEW t \in Task, at[t] # "idle"
      PROVE  Reserved(Pruned(mem[ProcessOf[t]], clock), SlotOf(t), clock, kind[t]) \in State
    <2>1. Pruned(mem[ProcessOf[t]], clock) \in State
        BY <1>b DEF Pruned, Kept, State
    <2> QED
        BY <1>7, <1>a, <1>b, <2>1, StatesTyped
<1>8. ASSUME NEW t \in Task, Send(t) PROVE TypeInv'
    <2> DEFINE r == Reserved(Pruned(mem[ProcessOf[t]], clock), SlotOf(t), clock, kind[t])
    <2>1. at[t] = "gap" /\ r \in State
        BY <1>7, <1>8 DEF Send, Awake
    <2> HIDE DEF r
    <2>2. mem' = [mem EXCEPT ![ProcessOf[t]] = r] /\ Save(r)
        BY <1>8 DEF Send, r
    <2>3. mem' \in [Process -> State]
        BY <2>1, <2>2
    <2>4. [slot |-> SlotOf(t), when |-> clock, kind |-> kind[t]]
            \in [slot : Slot, when : 0..MaxTime, kind : {"request", "command"}]
        BY <1>a, <2>1
    <2>5. /\ history'.sends = history.sends \cup {[slot |-> SlotOf(t), when |-> clock, kind |-> kind[t]]}
          /\ history'.finished = history.finished /\ history'.pause = history.pause
          /\ DOMAIN history' = DOMAIN history
        BY <1>8 DEF Send
    <2> QED
        BY <1>8, <1>d, <2>1, <2>2, <2>3, <2>4, <2>5 DEF Send
<1>9. ASSUME NEW t \in Task, CannotRecord(t) PROVE TypeInv'
    <2> DEFINE r == Reserved(Pruned(mem[ProcessOf[t]], clock), SlotOf(t), clock, kind[t])
    <2>1. r \in State
        BY <1>7, <1>9 DEF CannotRecord, Awake
    <2> HIDE DEF r
    <2>2. mem' = [mem EXCEPT ![ProcessOf[t]] = r] /\ SaveFails
        BY <1>9 DEF CannotRecord, r
    <2>3. mem' \in [Process -> State]
        BY <2>1, <2>2
    <2> QED
        BY <1>9, <2>2, <2>3 DEF CannotRecord, SaveFails, Leave
<1>10. ASSUME NEW t \in Task, Finish(t) PROVE TypeInv'
    <2> DEFINE done == Settled(mem[ProcessOf[t]], SlotOf(t), clock, kind[t])
    <2>1. done \in State
        BY <1>10, <1>a, <1>b, StatesTyped DEF Finish
    <2> HIDE DEF done
    <2>2. mem' = [mem EXCEPT ![ProcessOf[t]] = done] /\ (Save(done) \/ SaveFails)
        BY <1>10 DEF Finish, done
    <2>3. mem' \in [Process -> State]
        BY <2>1, <2>2
    <2>4. /\ history'.sends = history.sends /\ history'.finished = clock
          /\ history'.pause = history.pause /\ DOMAIN history' = DOMAIN history
        BY <1>10 DEF Finish
    <2>5. clock \in Never..MaxTime
        BY DEF Never
    <2> QED
        BY <1>10, <1>d, <2>1, <2>2, <2>3, <2>4, <2>5 DEF Finish, Leave
<1>11. ASSUME NEW t \in Task, FinishPaused(t) PROVE TypeInv'
    <2> DEFINE p == ProcessOf[t]
    <2>1. at[t] = "out" /\ p \in Process
        BY <1>11 DEF FinishPaused
    <2>2. PICK s \in Pauses :
            LET blocked == [mem[p] EXCEPT !.blocked = LaterOf(@, clock + s)]
                done == Settled(blocked, SlotOf(t), clock, kind[t])
            IN  /\ mem' = [mem EXCEPT ![p] = done]
                /\ file' = file \/ file' = Saved(blocked) \/ file' = Saved(done)
                /\ \/ budget' = budget
                   \/ budget.fails > 0 /\ budget' = [budget EXCEPT !.fails = @ - 1]
                   \/ budget.fails > 1 /\ budget' = [budget EXCEPT !.fails = @ - 2]
                /\ \/ history' = [history EXCEPT !.finished = clock,
                            !.pause = [q \in Process |-> LaterOf(@[q], clock + s)]]
                   \/ history' = [history EXCEPT !.finished = clock,
                            !.pause[p] = LaterOf(@, clock + s)]
        BY <1>11 DEF FinishPaused, Save
    <2> DEFINE b == [mem[p] EXCEPT !.blocked = LaterOf(@, clock + s)]
               done == Settled(b, SlotOf(t), clock, kind[t])
    <2>3. s \in 0..MaxPause
        OBVIOUS
    <2>4. b \in State
        BY <1>b, <2>1, <2>3, ReadingTyped
    <2>5. done \in State
        <3> HIDE DEF b
        <3> QED
            BY <1>a, <1>b, <2>1, <2>4, StatesTyped
    <2>6. /\ mem' = [mem EXCEPT ![p] = done]
          /\ file' = file \/ file' = Saved(b) \/ file' = Saved(done)
        BY <2>2
    <2> HIDE DEF b, done
    <2>7. mem' \in [Process -> State]
        BY <2>1, <2>5, <2>6
    <2>8. file' \in [status : {"missing", "valid", "corrupt", "undecodable"}, state : State]
        BY <1>c, <2>4, <2>5, <2>6
    <2>9. budget' \in [fails : 0..MaxFails, crashes : 0..MaxCrashes, damage : 0..MaxDamage]
        BY <2>2
    <2>10. /\ history'.sends = history.sends /\ history'.finished = clock
           /\ DOMAIN history' = DOMAIN history
           /\ \/ history'.pause = [q \in Process |-> LaterOf(history.pause[q], clock + s)]
              \/ history'.pause = [history.pause EXCEPT ![p] = LaterOf(@, clock + s)]
        BY <2>2
    <2>11. history'.pause \in [Process -> 0..(MaxTime + MaxPause)]
        BY <2>1, <2>3, <2>10 DEF LaterOf
    <2>12. clock \in Never..MaxTime
        BY DEF Never
    <2> QED
        BY <1>11, <2>1, <2>7, <2>8, <2>9, <2>10, <2>11, <2>12 DEF FinishPaused, Leave
<1>12. ASSUME NEW p \in Process, Crash(p) PROVE TypeInv'
    <2>1. Fresh \in State
        BY DEF Fresh, State, Never
    <2>2. mem' \in [Process -> State]
        BY <1>12, <2>1 DEF Crash
    <2> DEFINE kept == LaterOf(0, IF file.status = "valid" THEN file.state.blocked ELSE 0)
    <2>3. kept \in 0..(MaxTime + MaxPause)
        BY <1>b DEF LaterOf, State
    <2>4. /\ history'.sends = history.sends
          /\ history'.finished = clock \/ history'.finished = history.finished
          /\ history'.pause = [history.pause EXCEPT ![p] = kept]
          /\ DOMAIN history' = DOMAIN history
        BY <1>12 DEF Crash
    <2>5. clock \in Never..MaxTime
        BY DEF Never
    <2> HIDE DEF kept
    <2>6. history'.pause \in [Process -> 0..(MaxTime + MaxPause)]
        BY <2>3, <2>4
    <2>7. /\ at' \in [Task -> {"idle", "mutex", "flock", "gap", "out"}]
          /\ \A t \in Task : at'[t] # "idle" => at[t] # "idle"
          /\ mutex' \in [Process -> Task \cup {NoTask}]
          /\ flock' \in Task \cup {NoTask}
          /\ budget' \in [fails : 0..MaxFails, crashes : 0..MaxCrashes, damage : 0..MaxDamage]
          /\ UNCHANGED <<clock, file, kind, start, slots>>
        BY <1>12 DEF Crash
    <2> QED
        BY <2>2, <2>4, <2>5, <2>6, <2>7
<1>13. ASSUME Damage PROVE TypeInv'
    BY <1>13 DEF Damage
<1>14. ASSUME Tick PROVE TypeInv'
    BY <1>14 DEF Tick
<1>15. ASSUME UNCHANGED vars PROVE TypeInv'
    BY <1>15 DEF vars
<1> QED
    BY <1>1, <1>2, <1>3, <1>4, <1>5, <1>6, <1>8, <1>9, <1>10, <1>11, <1>12, <1>13, <1>14, <1>15, <1>16
    DEF Next, Proceed

\* At first every variable has its type.
LEMMA TypeInit == Init => TypeInv
BY LimiterAssumption DEF Init, TypeInv, TypeOK, State, Fresh, Never

\* For any tasks, processes, gap, timeout, budgets and pauses, however the record is damaged or
\* lost: every state that is held or saved is one, with stamps of slots that were entered.
THEOREM LimiterTyped == Spec => []TypeOK
<1>1. TypeInv => TypeOK
    BY DEF TypeInv
<1> QED
    BY <1>1, TypeInit, TypeStep, PTL DEF Spec
------------------------------------------------------------------------------------
\* A request that is out is in the record, at its latest end.
RecordedInv == GapInv /\ Recorded

\* Every step keeps a request that is out in the record: whoever could write it waits for the
\* lock, which the request's slot holds.
LEMMA RecordedStep == RecordedInv /\ [Next]_vars => Recorded'
<1> SUFFICES ASSUME RecordedInv, [Next]_vars PROVE Recorded'
    OBVIOUS
<1> USE DEF RecordedInv, Recorded
<1>0. at \in [Task -> {"idle", "mutex", "flock", "gap", "out"}] /\ FlockHeld
    BY DEF GapInv, Shapes
<1>1. ASSUME UNCHANGED <<file, start>>,
             \A t \in Task : at'[t] = "out" => at[t] = "out" /\ slots'[t] = slots[t]
      PROVE  Recorded'
    BY <1>1 DEF SlotOf
<1>2. ASSUME NEW t \in Task, Enter(t) PROVE Recorded'
    <2>1. at'[t] = "mutex" /\ \A v \in Task : v # t => at'[v] = at[v] /\ slots'[v] = slots[v]
        BY <1>0, <1>2 DEF Enter
    <2>2. UNCHANGED <<file, start>>
        BY <1>2 DEF Enter
    <2> QED
        BY <1>1, <2>1, <2>2
<1>3. ASSUME NEW t \in Task, TakeMutex(t) PROVE Recorded'
    BY <1>0, <1>1, <1>3 DEF TakeMutex
<1>4. ASSUME NEW t \in Task, LoadRecord(t) PROVE Recorded'
    BY <1>0, <1>1, <1>4 DEF LoadRecord
<1>5. ASSUME NEW t \in Task, ReadFails(t) PROVE Recorded'
    BY <1>0, <1>1, <1>5 DEF ReadFails, Leave
<1>15. ASSUME NEW t \in Task, CancelWaiting(t) \/ LoadUndecodable(t) PROVE Recorded'
    BY <1>0, <1>1, <1>15 DEF CancelWaiting, LoadUndecodable, Leave
<1>6. ASSUME NEW t \in Task, LoadCorrupt(t) PROVE Recorded'
    <2>1. flock = NoTask /\ at' = [at EXCEPT ![t] = "gap"]
        BY <1>6 DEF LoadCorrupt, TakeFlock
    <2>2. \A u \in Task : at'[u] # "out"
        BY <1>0, <2>1, LimiterAssumption DEF FlockHeld
    <2> QED
        BY <2>2
<1>7. ASSUME NEW t \in Task, Refuse(t) PROVE Recorded'
    BY <1>0, <1>1, <1>7 DEF Refuse, Leave
<1>8. ASSUME NEW t \in Task, Send(t) PROVE Recorded'
    <2> DEFINE m == Pruned(mem[ProcessOf[t]], clock)
               r == Reserved(m, SlotOf(t), clock, kind[t])
    <2>1. /\ file' = Saved(r) /\ at[t] = "gap"
          /\ at' = [at EXCEPT ![t] = "out"] /\ start' = [start EXCEPT ![t] = clock]
          /\ slots' = slots
        BY <1>8 DEF Send, Save, Awake
    <2>2. Shape(m)
        BY LimiterAssumption, PrunedShape DEF GapInv, Shapes
    <2>3. [slot |-> SlotOf(t), time |-> clock + Timeout] \in r.sent
        <3> HIDE DEF m
        <3> QED
            BY <2>2 DEF Shape, Reserved, Insort
    <2>4. Shape(r)
        <3> HIDE DEF m
        <3> QED
            BY <2>2, ReservedShape DEF GapInv, Shapes
    <2>5. file'.state.sent = r.sent
        <3> HIDE DEF r
        <3> QED
            BY <2>1, <2>4 DEF Saved, Exported, Shape
    <2>6. start'[t] = clock /\ SlotOf(t)' = SlotOf(t) /\ \A u \in Task : at'[u] = "out" => u = t
        BY <1>0, <2>1 DEF FlockHeld, GapInv, Shapes, SlotOf
    <2> HIDE DEF r, m
    <2> QED
        BY <2>3, <2>5, <2>6
<1>9. ASSUME NEW t \in Task, CannotRecord(t) PROVE Recorded'
    BY <1>0, <1>1, <1>9 DEF CannotRecord, SaveFails, Leave
<1>10. ASSUME NEW t \in Task, Finish(t) \/ FinishPaused(t) PROVE Recorded'
    BY <1>0, <1>10 DEF Finish, FinishPaused, Leave, FlockHeld
<1>11. ASSUME NEW p \in Process, Crash(p) PROVE Recorded'
    BY <1>0, <1>1, <1>11 DEF Crash
<1>12. ASSUME Damage PROVE Recorded'
    BY <1>12 DEF Damage, GapInv, Shapes
<1>13. ASSUME Tick PROVE Recorded'
    BY <1>1, <1>13 DEF Tick
<1>14. ASSUME UNCHANGED vars PROVE Recorded'
    BY <1>1, <1>14 DEF vars
<1> QED
    BY <1>2, <1>3, <1>4, <1>5, <1>6, <1>7, <1>8, <1>9, <1>10, <1>11, <1>12, <1>13, <1>14, <1>15
    DEF Next, Proceed

\* For any tasks and processes, wherever they die and whatever saves fail: while a request is
\* out, a record that can be read counts it, at its latest end (slot).
THEOREM LimiterRecorded == Spec => []Recorded
<1>1. Init => RecordedInv
    BY GapInit DEF Init, RecordedInv, Recorded
<1>2. RecordedInv /\ [Next]_vars => RecordedInv'
    BY GapStep, RecordedStep DEF RecordedInv
<1>3. RecordedInv => Recorded
    BY DEF RecordedInv
<1> QED
    BY <1>1, <1>2, <1>3, PTL DEF Spec
------------------------------------------------------------------------------------
\* At time now, s is out of every budget's window.
Over(s, now) == \A b \in Budgets : s.when + b[1] <= now

Stamped(stamps, s) == \E x \in stamps : x.slot = s.slot /\ x.time >= s.when

\* m counts every request of sends that still matters, or pauses until it does not.
Counts(m, sends, now) ==
    \A s \in sends :
        \/ Over(s, now)
        \/ Over(s, m.blocked)
        \/ Stamped(m.sent, s) /\ (s.kind = "command" => Stamped(m.commands, s))

Finite(m) == IsFiniteSet(m.sent) /\ IsFiniteSet(m.commands)

\* A slot sends at most one request: no two of the history have the same slot.
SendsOnce ==
    /\ \A s \in history.sends :
        /\ s.when <= clock
        /\ s.slot.nr <= slots[s.slot.by]
        /\ at[s.slot.by] \in {"mutex", "flock", "gap"} => s.slot.nr < slots[s.slot.by]
    /\ \A s, u \in history.sends : s.slot = u.slot => s = u

\* The record, and the memory of the slot that has read it, count every request that was sent.
SendsCounted ==
    /\ IsFiniteSet(history.sends)
    /\ Finite(file.state)
    /\ \A p \in Process : Finite(mem[p])
    /\ file.status = "missing" => history.sends = {}
    /\ file.status = "valid" => Counts(file.state, history.sends, clock)
    /\ \A t \in Task : at[t] \in {"gap", "out"} => Counts(mem[ProcessOf[t]], history.sends, clock)

\* The budgets hold at every time so far, not only when a request is sent.
WindowsKept ==
    \A to \in 0..clock :
        /\ \A b \in RequestBudgets : Cardinality(Sent({"request", "command"}, to - b[1], to)) <= b[2]
        /\ \A b \in CommandBudgets : Cardinality(Sent({"command"}, to - b[1], to)) <= b[2]

BudgetInv == SendsOnce /\ SendsCounted /\ WindowsKept
------------------------------------------------------------------------------------
Sends == [slot : Slot, when : 0..MaxTime, kind : {"request", "command"}]

\* What is counted stays counted as time passes.
LEMMA CountsLater ==
    ASSUME NEW m \in State, NEW sends \in SUBSET Sends, NEW now \in Nat, NEW later \in Nat,
           now <= later, Counts(m, sends, now)
    PROVE  Counts(m, sends, later)
<1>1. ASSUME NEW s \in sends, Over(s, now) PROVE Over(s, later)
    BY <1>1, BudgetAssumption DEF Over, Sends
<1> QED
    BY <1>1 DEF Counts

\* The record that is written counts what the memory counts: a pause it drops is over
\* (export_state).
LEMMA CountsExported ==
    ASSUME NEW m \in State, NEW sends \in SUBSET Sends, NEW now \in Nat, Counts(m, sends, now)
    PROVE  Counts(Exported(m, now), sends, now)
<1>1. /\ Exported(m, now).sent = m.sent /\ Exported(m, now).commands = m.commands
      /\ Exported(m, now).blocked = IF m.blocked > now THEN m.blocked ELSE 0
    BY DEF Exported, State
<1>2. ASSUME NEW s \in sends, Over(s, m.blocked), m.blocked <= now PROVE Over(s, now)
    BY <1>2, BudgetAssumption DEF Over, Sends, State
<1>3. m.blocked \in Int
    BY DEF State
<1> QED
    BY <1>1, <1>2, <1>3 DEF Counts

\* A state that is read counts what the record counted: its stamps move to now at the latest,
\* and no request was sent later (import_state).
LEMMA CountsImported ==
    ASSUME NEW m \in State, NEW r \in State, NEW sends \in SUBSET Sends, NEW now \in Nat,
           \A s \in sends : s.when <= now, Counts(r, sends, now)
    PROVE  Counts(Imported(m, r, now), sends, now)
<1> DEFINE i == Imported(m, r, now)
           Past(stamps) == {[x EXCEPT !.time = EarlierOf(@, now)] : x \in stamps}
<1>1. /\ i.sent = Past(r.sent) /\ i.commands = Past(r.commands)
      /\ i.blocked = IF r.blocked > now THEN LaterOf(m.blocked, EarlierOf(r.blocked, now + MaxPause))
                     ELSE m.blocked
    BY DEF Imported
<1>2. ASSUME NEW stamps \in SUBSET Stamps, NEW s \in sends, Stamped(stamps, s)
      PROVE  Stamped(Past(stamps), s)
    <2>1. PICK x \in stamps : x.slot = s.slot /\ x.time >= s.when
        BY <1>2 DEF Stamped
    <2> DEFINE y == [x EXCEPT !.time = EarlierOf(@, now)]
    <2>2. y \in Past(stamps) /\ y.slot = s.slot
        BY <2>1 DEF Stamps
    <2>3. y.time >= s.when
        BY <2>1 DEF Stamps, EarlierOf
    <2> QED
        BY <2>2, <2>3 DEF Stamped
<1>3. r.sent \in SUBSET Stamps /\ r.commands \in SUBSET Stamps /\ r.blocked \in Int /\ m.blocked \in Int
    BY DEF State
<1>4. ASSUME NEW s \in sends, Over(s, r.blocked) PROVE Over(s, now) \/ Over(s, i.blocked)
    <2>1. CASE r.blocked <= now
        BY <1>3, <1>4, <2>1, BudgetAssumption DEF Over, Sends
    <2>2. CASE r.blocked > now
        <3>1. i.blocked \in Int /\ (i.blocked >= r.blocked \/ i.blocked >= now + MaxPause)
            BY <1>1, <1>3, <2>2, LimiterAssumption DEF LaterOf, EarlierOf
        <3>2. \A b \in Budgets : s.when + b[1] <= now + MaxPause
            BY LimiterAssumption, BudgetAssumption DEF Sends
        <3> HIDE DEF i
        <3>3. s.when \in Int /\ \A b \in Budgets : b[1] \in Int
            BY BudgetAssumption DEF Sends
        <3> QED
            BY <1>3, <1>4, <3>1, <3>2, <3>3, LimiterAssumption DEF Over
    <2> QED
        BY <1>3, <2>1, <2>2
<1> HIDE DEF i, Past
<1> QED
    BY <1>1, <1>2, <1>3, <1>4 DEF Counts, i

\* A stamp that is forgotten is out of every window, and so is its request (_check).
LEMMA CountsPruned ==
    ASSUME NEW m \in State, NEW sends \in SUBSET Sends, NEW now \in Nat, Counts(m, sends, now)
    PROVE  Counts(Pruned(m, now), sends, now)
<1>1. /\ Pruned(m, now).sent = Kept(m.sent, now) /\ Pruned(m, now).commands = Kept(m.commands, now)
      /\ Pruned(m, now).blocked = m.blocked
    BY DEF Pruned, State
<1>2. ASSUME NEW stamps \in SUBSET Stamps, NEW s \in sends, Stamped(stamps, s), ~Over(s, now)
      PROVE  Stamped(Kept(stamps, now), s)
    <2>1. PICK x \in stamps : x.slot = s.slot /\ x.time >= s.when
        BY <1>2 DEF Stamped
    <2>2. PICK b \in Budgets : ~(s.when + b[1] <= now)
        BY <1>2 DEF Over
    <2>3. x.time > now - b[1]
        BY <2>1, <2>2, BudgetAssumption DEF Stamps, Sends
    <2> QED
        BY <2>1, <2>3 DEF Kept, Stamped
<1>3. m.sent \in SUBSET Stamps /\ m.commands \in SUBSET Stamps
    BY DEF State
<1> QED
    BY <1>1, <1>2, <1>3 DEF Counts

\* A reservation keeps what was counted, and counts the request it is made for (slot).
LEMMA CountsReserved ==
    ASSUME NEW m \in State, NEW sends \in SUBSET Sends, NEW now \in Nat, NEW slot, NEW k,
           Counts(m, sends, now)
    PROVE  Counts(Reserved(m, slot, now, k), sends \cup {[slot |-> slot, when |-> now, kind |-> k]}, now)
<1> DEFINE r == Reserved(m, slot, now, k)
           new == [slot |-> slot, when |-> now, kind |-> k]
           stamp == [slot |-> slot, time |-> now + Timeout]
<1>1. /\ r.sent = m.sent \cup {stamp} /\ r.blocked = m.blocked
      /\ r.commands = IF k = "command" THEN m.commands \cup {stamp} ELSE m.commands
    BY DEF Reserved, Insort, State
<1>2. ASSUME NEW s \in sends, NEW stamps, Stamped(stamps, s) PROVE Stamped(stamps \cup {stamp}, s)
    BY <1>2 DEF Stamped
<1>3. ASSUME NEW stamps PROVE Stamped(stamps \cup {stamp}, new)
    <2>1. stamp.slot = new.slot /\ stamp.time >= new.when
        BY LimiterAssumption
    <2> HIDE DEF stamp, new
    <2> QED
        BY <2>1 DEF Stamped
<1> HIDE DEF r, stamp
<1>4. ASSUME NEW s \in sends
      PROVE  \/ Over(s, now) \/ Over(s, r.blocked)
             \/ Stamped(r.sent, s) /\ (s.kind = "command" => Stamped(r.commands, s))
    BY <1>1, <1>2 DEF Counts
<1>5. Stamped(r.sent, new) /\ (new.kind = "command" => Stamped(r.commands, new))
    BY <1>1, <1>3
<1> QED
    BY <1>4, <1>5 DEF Counts, r

\* A settled reservation still counts its request, at its real end (slot, _settle).
LEMMA CountsSettled ==
    ASSUME NEW m \in State, NEW sends \in SUBSET Sends, NEW now \in Nat, NEW slot, NEW k,
           \A s \in sends : s.when <= now, Counts(m, sends, now)
    PROVE  Counts(Settled(m, slot, now, k), sends, now)
<1> DEFINE d == Settled(m, slot, now, k)
<1>1. /\ d.sent = Settle(m.sent, slot, now) /\ d.blocked = m.blocked
      /\ d.commands = IF k = "command" THEN Settle(m.commands, slot, now) ELSE m.commands
    BY DEF Settled, State
<1>2. ASSUME NEW s \in sends, NEW stamps, Stamped(stamps, s) PROVE Stamped(Settle(stamps, slot, now), s)
    <2>1. CASE s.slot = slot
        <3> DEFINE stamp == [slot |-> slot, time |-> now]
        <3>1. stamp.slot = s.slot /\ stamp.time >= s.when
            BY <2>1
        <3>2. stamp \in Settle(stamps, slot, now)
            BY DEF Settle, Insort
        <3> HIDE DEF stamp
        <3> QED
            BY <3>1, <3>2 DEF Stamped
    <2>2. CASE s.slot # slot
        BY <1>2, <2>2 DEF Settle, Insort, Stamped
    <2> QED
        BY <2>1, <2>2
<1> HIDE DEF d
<1> QED
    BY <1>1, <1>2 DEF Counts, d

\* A pause that begins takes nothing from the count (hold, block).
LEMMA CountsPaused ==
    ASSUME NEW m \in State, NEW sends \in SUBSET Sends, NEW now \in Nat, NEW until \in Nat,
           Counts(m, sends, now)
    PROVE  Counts([m EXCEPT !.blocked = LaterOf(@, until)], sends, now)
<1> DEFINE b == [m EXCEPT !.blocked = LaterOf(@, until)]
<1>1. /\ b.sent = m.sent /\ b.commands = m.commands /\ b.blocked = LaterOf(m.blocked, until)
      /\ m.blocked \in Nat
    BY DEF State
<1>2. ASSUME NEW s \in sends, Over(s, m.blocked) PROVE Over(s, b.blocked)
    BY <1>1, <1>2, BudgetAssumption DEF Over, Sends, LaterOf
<1> HIDE DEF b
<1> QED
    BY <1>1, <1>2 DEF Counts, b

\* After a corrupt record the pause outlasts every window, whatever was sent before it (_load).
LEMMA CountsHeld ==
    ASSUME NEW m \in State, NEW sends \in SUBSET Sends, NEW now \in Nat,
           \A s \in sends : s.when <= now
    PROVE  Counts([m EXCEPT !.blocked = LaterOf(@, now + Recovery)], sends, now)
<1> DEFINE b == [m EXCEPT !.blocked = LaterOf(@, now + Recovery)]
<1>1. b.blocked \in Nat /\ b.blocked >= now + Recovery
    BY LimiterAssumption DEF State, LaterOf
<1> HIDE DEF b
<1>2. ASSUME NEW s \in sends PROVE Over(s, b.blocked)
    BY <1>1, BudgetAssumption, LimiterAssumption DEF Over, Sends
<1> QED
    BY <1>2 DEF Counts, b

\* The limiter's operators keep the lists finite.
LEMMA StatesFinite ==
    ASSUME NEW m \in State, NEW now, NEW slot, NEW k, Finite(m)
    PROVE  /\ Finite(Exported(m, now))
           /\ Finite(Pruned(m, now))
           /\ Finite(Reserved(m, slot, now, k))
           /\ Finite(Settled(m, slot, now, k))
<1>1. ASSUME NEW stamps, IsFiniteSet(stamps), NEW x PROVE IsFiniteSet(stamps \cup {x})
    BY <1>1, FS_AddElement
<1>2. ASSUME NEW stamps, IsFiniteSet(stamps), NEW part \in SUBSET stamps PROVE IsFiniteSet(part)
    BY <1>2, FS_Subset
<1>3. Finite(Exported(m, now))
    BY DEF Exported, State, Finite
<1>4. Finite(Pruned(m, now))
    <2>1. ASSUME NEW stamps, IsFiniteSet(stamps) PROVE IsFiniteSet(Kept(stamps, now))
        BY <1>2, <2>1 DEF Kept
    <2> QED
        BY <2>1 DEF Pruned, State, Finite
<1>5. Finite(Reserved(m, slot, now, k))
    BY <1>1 DEF Reserved, Insort, State, Finite
<1>6. Finite(Settled(m, slot, now, k))
    <2>1. ASSUME NEW stamps, IsFiniteSet(stamps) PROVE IsFiniteSet(Settle(stamps, slot, now))
        <3>1. IsFiniteSet({x \in stamps : x.slot # slot})
            BY <1>2, <2>1
        <3> QED
            BY <1>1, <3>1 DEF Settle, Insort
    <2> QED
        BY <2>1 DEF Settled, State, Finite
<1> QED
    BY <1>3, <1>4, <1>5, <1>6

\* The lists that are read of a record are finite too (import_state).
LEMMA ImportedFinite ==
    ASSUME NEW m, NEW r, NEW now, Finite(r)
    PROVE  Finite(Imported(m, r, now))
<1>1. ASSUME NEW stamps, IsFiniteSet(stamps)
      PROVE  IsFiniteSet({[x EXCEPT !.time = EarlierOf(@, now)] : x \in stamps})
    <2> DEFINE f == [x \in stamps |-> [x EXCEPT !.time = EarlierOf(@, now)]]
               past == {[x EXCEPT !.time = EarlierOf(@, now)] : x \in stamps}
    <2>1. f \in Surjection(stamps, past)
        <3>1. f \in [stamps -> past]
            OBVIOUS
        <3>2. \A y \in past : \E x \in stamps : f[x] = y
            OBVIOUS
        <3> HIDE DEF f, past
        <3> QED
            BY <3>1, <3>2 DEF Surjection
    <2> HIDE DEF f, past
    <2>2. IsFiniteSet(past)
        BY <1>1, <2>1, FS_Surjection
    <2> QED
        BY <2>2 DEF past
<1> QED
    BY <1>1 DEF Imported, Finite
------------------------------------------------------------------------------------
\* Every step keeps the slots of the history apart: a slot that has sent cannot send again.
LEMMA OnceStep == GapInv /\ TypeInv /\ SendsOnce /\ [Next]_vars => SendsOnce'
<1> SUFFICES ASSUME GapInv, TypeInv, SendsOnce, [Next]_vars PROVE SendsOnce'
    OBVIOUS
<1>0. /\ at \in [Task -> {"idle", "mutex", "flock", "gap", "out"}]
      /\ slots \in [Task -> 0..MaxSlots] /\ clock \in Nat
      /\ history.sends \in SUBSET Sends
    BY LimiterAssumption DEF TypeInv, TypeOK, Sends
<1>1. ASSUME history'.sends = history.sends, clock' \in Nat, clock' >= clock,
             slots' \in [Task -> 0..MaxSlots],
             \A t \in Task : slots'[t] >= slots[t],
             \A t \in Task : at'[t] \in {"mutex", "flock", "gap"} =>
                slots'[t] > slots[t] \/ at[t] \in {"mutex", "flock", "gap"}
      PROVE  SendsOnce'
    BY <1>0, <1>1, LimiterAssumption DEF SendsOnce, Sends, Slot
<1>2. ASSUME history'.sends = history.sends, clock' = clock, slots' = slots,
             \A t \in Task : at'[t] \in {"mutex", "flock", "gap"} => at[t] \in {"mutex", "flock", "gap"}
      PROVE  SendsOnce'
    BY <1>0, <1>1, <1>2, LimiterAssumption
<1>3. ASSUME NEW t \in Task, Enter(t) PROVE SendsOnce'
    <2>1. /\ history'.sends = history.sends /\ clock' = clock
          /\ slots' = [slots EXCEPT ![t] = @ + 1] /\ slots[t] < MaxSlots
          /\ at' = [at EXCEPT ![t] = "mutex"]
        BY <1>3 DEF Enter
    <2> QED
        BY <1>0, <1>1, <2>1, LimiterAssumption
<1>4. ASSUME NEW t \in Task, TakeMutex(t) PROVE SendsOnce'
    BY <1>0, <1>2, <1>4 DEF TakeMutex
<1>5. ASSUME NEW t \in Task, LoadRecord(t) \/ LoadCorrupt(t) PROVE SendsOnce'
    BY <1>0, <1>2, <1>5 DEF LoadRecord, LoadCorrupt, TakeFlock
<1>6. ASSUME NEW t \in Task, \/ ReadFails(t) \/ Refuse(t) \/ CannotRecord(t)
                            \/ CancelWaiting(t) \/ LoadUndecodable(t) PROVE SendsOnce'
    BY <1>0, <1>2, <1>6 DEF CancelWaiting, LoadUndecodable, ReadFails, Refuse, CannotRecord, Leave
<1>7. ASSUME NEW t \in Task, Finish(t) PROVE SendsOnce'
    <2>1. history'.sends = history.sends
        BY <1>7 DEF Finish, GapInv, Shapes
    <2> QED
        BY <1>0, <1>2, <1>7, <2>1 DEF Finish, Leave
<1>8. ASSUME NEW t \in Task, FinishPaused(t) PROVE SendsOnce'
    <2>1. history'.sends = history.sends
        BY <1>8 DEF FinishPaused, GapInv, Shapes
    <2> QED
        BY <1>0, <1>2, <1>8, <2>1 DEF FinishPaused, Leave
<1>9. ASSUME NEW t \in Task, Send(t) PROVE SendsOnce'
    <2> DEFINE new == [slot |-> SlotOf(t), when |-> clock, kind |-> kind[t]]
    <2>1. /\ history'.sends = history.sends \cup {new}
          /\ at' = [at EXCEPT ![t] = "out"] /\ at[t] = "gap"
          /\ UNCHANGED <<clock, slots>>
        BY <1>9 DEF Send, Awake, GapInv, Shapes
    <2>2. ASSUME NEW s \in history.sends PROVE s.slot # new.slot
        BY <1>0, <2>1 DEF SendsOnce, SlotOf, Sends, Slot
    <2>3. new.when = clock /\ new.slot.by = t /\ new.slot.nr = slots[t]
        BY DEF SlotOf
    <2> HIDE DEF new
    <2> QED
        BY <1>0, <2>1, <2>2, <2>3 DEF SendsOnce, Sends, Slot
<1>10. ASSUME NEW p \in Process, Crash(p) PROVE SendsOnce'
    <2>1. history'.sends = history.sends
        BY <1>10 DEF Crash, GapInv, Shapes
    <2> QED
        BY <1>0, <1>2, <1>10, <2>1 DEF Crash
<1>11. ASSUME Damage \/ UNCHANGED vars PROVE SendsOnce'
    BY <1>0, <1>2, <1>11 DEF Damage, vars
<1>12. ASSUME Tick PROVE SendsOnce'
    BY <1>0, <1>1, <1>12 DEF Tick
<1> QED
    BY <1>3, <1>4, <1>5, <1>6, <1>7, <1>8, <1>9, <1>10, <1>11, <1>12 DEF Next, Proceed

\* Every step keeps the requests counted, by the record and by the slot that has read it.
LEMMA CountedStep == GapInv /\ TypeInv /\ SendsOnce /\ SendsCounted /\ [Next]_vars => SendsCounted'
<1> SUFFICES ASSUME GapInv, TypeInv, SendsOnce, SendsCounted, [Next]_vars PROVE SendsCounted'
    OBVIOUS
<1> DEFINE S == history.sends
<1>0. /\ at \in [Task -> {"idle", "mutex", "flock", "gap", "out"}] /\ FlockHeld
      /\ clock \in 0..MaxTime /\ clock \in Nat
      /\ S \in SUBSET Sends /\ \A s \in S : s.when <= clock
      /\ DOMAIN history = {"sends", "finished", "pause"}
      /\ mem \in [Process -> State] /\ file.state \in State
      /\ file \in [status : {"missing", "valid", "corrupt", "undecodable"}, state : State]
      /\ \A t \in Task : ProcessOf[t] \in Process
    BY LimiterAssumption DEF TypeInv, TypeOK, Sends, SendsOnce, GapInv
<1>1. /\ IsFiniteSet(S) /\ Finite(file.state) /\ \A p \in Process : Finite(mem[p])
      /\ file.status = "missing" => S = {}
      /\ file.status = "valid" => Counts(file.state, S, clock)
      /\ \A t \in Task : at[t] \in {"gap", "out"} => Counts(mem[ProcessOf[t]], S, clock)
    BY DEF SendsCounted
<1>2. ASSUME history'.sends = S, UNCHANGED <<clock, file>>,
             \A p \in Process : Finite(mem'[p]),
             \A t \in Task : at'[t] \in {"gap", "out"} => Counts(mem'[ProcessOf[t]], S, clock)
      PROVE  SendsCounted'
    BY <1>1, <1>2 DEF SendsCounted
<1>3. ASSUME history'.sends = S, UNCHANGED <<clock, file, mem>>,
             \A t \in Task : at'[t] \in {"gap", "out"} => at[t] = at'[t]
      PROVE  SendsCounted'
    BY <1>1, <1>2, <1>3
<1>4. ASSUME NEW m, file' = file \/ file' = Saved(m), m \in State, Finite(m),
             file' = Saved(m) => Counts(m, history'.sends, clock),
             history'.sends \in SUBSET Sends, IsFiniteSet(history'.sends),
             file' = file => history'.sends = S,
             clock' = clock,
             \A p \in Process : Finite(mem'[p]),
             \A t \in Task : at'[t] \in {"gap", "out"} => Counts(mem'[ProcessOf[t]], history'.sends, clock)
      PROVE  SendsCounted'
    <2>1. CASE file' = file
        BY <1>1, <1>4, <2>1 DEF SendsCounted
    <2>2. CASE file' = Saved(m)
        <3>1. file'.status = "valid" /\ file'.state = Exported(m, clock)
            BY <2>2 DEF Saved
        <3>2. Finite(Exported(m, clock))
            BY <1>4, StatesFinite
        <3>3. Counts(Exported(m, clock), history'.sends, clock)
            BY <1>0, <1>4, <2>2, CountsExported
        <3> QED
            BY <1>4, <3>1, <3>2, <3>3 DEF SendsCounted
    <2> QED
        BY <1>4, <2>1, <2>2
<1>5. ASSUME NEW t \in Task, Enter(t) \/ TakeMutex(t) PROVE SendsCounted'
    BY <1>0, <1>3, <1>5 DEF Enter, TakeMutex
<1>6. ASSUME NEW t \in Task, LoadRecord(t) PROVE SendsCounted'
    <2> DEFINE p == ProcessOf[t]
               m == IF file.status = "valid" THEN Imported(mem[p], file.state, clock) ELSE mem[p]
    <2>1. /\ file.status \in {"missing", "valid"} /\ flock = NoTask
          /\ mem' = [mem EXCEPT ![p] = m] /\ at' = [at EXCEPT ![t] = "gap"]
          /\ UNCHANGED <<clock, file, history>>
        BY <1>0, <1>6 DEF LoadRecord, TakeFlock
    <2>2. Finite(m)
        BY <1>0, <1>1, ImportedFinite
    <2>3. Counts(m, S, clock)
        <3>1. CASE file.status = "valid"
            BY <1>0, <1>1, <3>1, CountsImported
        <3>2. CASE file.status = "missing"
            BY <1>1, <3>2 DEF Counts
        <3> QED
            BY <1>0, <2>1, <3>1, <3>2
    <2>4. \A u \in Task : at'[u] \in {"gap", "out"} => u = t
        BY <1>0, <2>1, LimiterAssumption DEF FlockHeld
    <2> HIDE DEF m
    <2>5. mem'[p] = m /\ \A q \in Process : Finite(mem'[q])
        BY <1>0, <1>1, <2>1, <2>2
    <2> QED
        BY <1>2, <2>1, <2>3, <2>4, <2>5
<1>7. ASSUME NEW t \in Task, ReadFails(t) \/ CancelWaiting(t) \/ LoadUndecodable(t)
      PROVE  SendsCounted'
    BY <1>0, <1>3, <1>7 DEF CancelWaiting, LoadUndecodable, ReadFails, Leave
<1>8. ASSUME NEW t \in Task, LoadCorrupt(t) PROVE SendsCounted'
    <2> DEFINE p == ProcessOf[t]
               held == [mem[p] EXCEPT !.blocked = LaterOf(@, clock + Recovery)]
    <2>1. /\ flock = NoTask /\ mem' = [mem EXCEPT ![p] = held] /\ at' = [at EXCEPT ![t] = "gap"]
          /\ UNCHANGED <<clock, history>>
          /\ file' = file \/ file' = Saved(held)
        BY <1>8 DEF LoadCorrupt, TakeFlock, Save, SaveFails
    <2>2. held \in State
        <3>1. Recovery \in 0..MaxPause /\ mem[p] \in State
            BY <1>0, LimiterAssumption
        <3> QED
            BY <1>0, <3>1, ReadingTyped
    <2>3. Finite(held)
        BY <1>0, <1>1 DEF Finite, State
    <2>4. Counts(held, S, clock)
        BY <1>0, CountsHeld
    <2>5. \A u \in Task : at'[u] \in {"gap", "out"} => u = t
        BY <1>0, <2>1, LimiterAssumption DEF FlockHeld
    <2> HIDE DEF held
    <2>6. mem'[p] = held /\ \A q \in Process : Finite(mem'[q])
        BY <1>0, <1>1, <2>1, <2>3
    <2> QED
        BY <1>0, <1>1, <1>4, <2>1, <2>2, <2>3, <2>4, <2>5, <2>6
<1>9. ASSUME NEW t \in Task, Refuse(t) PROVE SendsCounted'
    <2> DEFINE p == ProcessOf[t]
               m == Pruned(mem[p], clock)
    <2>1. mem' = [mem EXCEPT ![p] = m] /\ UNCHANGED <<clock, file, history>> /\ at[t] = "gap"
        BY <1>9 DEF Refuse, Awake
    <2>2. Finite(m)
        BY <1>0, <1>1, StatesFinite
    <2>3. \A u \in Task : at'[u] \notin {"gap", "out"}
        BY <1>0, <1>9, <2>1 DEF Refuse, Leave, FlockHeld
    <2> HIDE DEF m
    <2> QED
        BY <1>0, <1>1, <1>2, <2>1, <2>2, <2>3
<1>10. ASSUME NEW t \in Task, at[t] = "gap"
       PROVE  LET m == Pruned(mem[ProcessOf[t]], clock)
                  r == Reserved(m, SlotOf(t), clock, kind[t])
                  new == [slot |-> SlotOf(t), when |-> clock, kind |-> kind[t]]
              IN  r \in State /\ Finite(r) /\ new \in Sends /\ Counts(r, S \cup {new}, clock)
    <2> DEFINE m == Pruned(mem[ProcessOf[t]], clock)
               r == Reserved(m, SlotOf(t), clock, kind[t])
               new == [slot |-> SlotOf(t), when |-> clock, kind |-> kind[t]]
    <2>1. SlotOf(t) \in Slot /\ kind[t] \in {"request", "command"}
        BY <1>10 DEF TypeInv, TypeOK, SlotOf, Slot
    <2>2. new \in Sends
        BY <1>0, <2>1 DEF Sends
    <2>3. mem[ProcessOf[t]] \in State /\ Finite(mem[ProcessOf[t]]) /\ Counts(mem[ProcessOf[t]], S, clock)
        BY <1>0, <1>1, <1>10
    <2>4. m \in State /\ Finite(m) /\ Counts(m, S, clock)
        BY <1>0, <2>1, <2>3, StatesTyped, StatesFinite, CountsPruned
    <2> HIDE DEF m
    <2>5. r \in State /\ Finite(r)
        BY <1>0, <2>1, <2>4, StatesTyped, StatesFinite
    <2>6. Counts(r, S \cup {new}, clock)
        BY <1>0, <2>4, CountsReserved
    <2> QED
        BY <2>2, <2>5, <2>6 DEF m
<1>11. ASSUME NEW t \in Task, Send(t) PROVE SendsCounted'
    <2> DEFINE p == ProcessOf[t]
               r == Reserved(Pruned(mem[p], clock), SlotOf(t), clock, kind[t])
               new == [slot |-> SlotOf(t), when |-> clock, kind |-> kind[t]]
    <2>1. /\ at[t] = "gap" /\ at' = [at EXCEPT ![t] = "out"]
          /\ mem' = [mem EXCEPT ![p] = r] /\ file' = Saved(r)
          /\ history'.sends = S \cup {new} /\ clock' = clock
        BY <1>0, <1>11 DEF Send, Save, Awake
    <2>2. r \in State /\ Finite(r) /\ new \in Sends /\ Counts(r, S \cup {new}, clock)
        BY <1>10, <2>1
    <2>3. \A u \in Task : at'[u] \in {"gap", "out"} => u = t
        BY <1>0, <2>1 DEF FlockHeld
    <2> HIDE DEF r, new
    <2>4. mem'[p] = r /\ \A q \in Process : Finite(mem'[q])
        BY <1>0, <1>1, <2>1, <2>2
    <2>5. IsFiniteSet(history'.sends) /\ history'.sends \in SUBSET Sends
        BY <1>0, <1>1, <2>1, <2>2, FS_AddElement
    <2>6. file'.status = "valid" /\ file'.state = Exported(r, clock)
        BY <2>1 DEF Saved
    <2>7. Finite(Exported(r, clock)) /\ Counts(Exported(r, clock), history'.sends, clock)
        BY <1>0, <2>1, <2>2, <2>5, StatesFinite, CountsExported
    <2> QED
        BY <2>1, <2>2, <2>3, <2>4, <2>5, <2>6, <2>7 DEF SendsCounted
<1>12. ASSUME NEW t \in Task, CannotRecord(t) PROVE SendsCounted'
    <2> DEFINE p == ProcessOf[t]
               r == Reserved(Pruned(mem[p], clock), SlotOf(t), clock, kind[t])
    <2>1. at[t] = "gap" /\ mem' = [mem EXCEPT ![p] = r] /\ UNCHANGED <<clock, file, history>>
        BY <1>12 DEF CannotRecord, Awake, SaveFails
    <2>2. Finite(r)
        BY <1>10, <2>1
    <2>3. \A u \in Task : at'[u] \notin {"gap", "out"}
        BY <1>0, <1>12, <2>1 DEF CannotRecord, Leave, FlockHeld
    <2> HIDE DEF r
    <2> QED
        BY <1>0, <1>1, <1>2, <2>1, <2>2, <2>3
<1>13. ASSUME NEW m \in State, NEW slot, NEW k, Finite(m), Counts(m, S, clock)
       PROVE  Finite(Settled(m, slot, clock, k)) /\ Counts(Settled(m, slot, clock, k), S, clock)
    BY <1>0, <1>13, StatesFinite, CountsSettled
<1>14. ASSUME NEW t \in Task, Finish(t) PROVE SendsCounted'
    <2> DEFINE p == ProcessOf[t]
               done == Settled(mem[p], SlotOf(t), clock, kind[t])
    <2>1. /\ at[t] = "out" /\ Leave(t) /\ mem' = [mem EXCEPT ![p] = done]
          /\ file' = file \/ file' = Saved(done)
          /\ history'.sends = S /\ clock' = clock
        BY <1>0, <1>14 DEF Finish, Save, SaveFails
    <2>2. mem[p] \in State /\ Finite(mem[p]) /\ Counts(mem[p], S, clock)
        BY <1>0, <1>1, <2>1
    <2>3. SlotOf(t) \in Slot
        BY <2>1 DEF TypeInv, TypeOK, SlotOf, Slot
    <2>4. done \in State /\ Finite(done) /\ Counts(done, S, clock)
        BY <1>0, <1>13, <2>2, <2>3, StatesTyped
    <2>5. \A u \in Task : at'[u] \notin {"gap", "out"}
        BY <1>0, <2>1 DEF Leave, FlockHeld
    <2> HIDE DEF done
    <2>6. \A q \in Process : Finite(mem'[q])
        BY <1>0, <1>1, <2>1, <2>4
    <2> QED
        BY <1>0, <1>1, <1>4, <2>1, <2>4, <2>5, <2>6
<1>15. ASSUME NEW t \in Task, FinishPaused(t) PROVE SendsCounted'
    <2> DEFINE p == ProcessOf[t]
    <2>1. PICK s \in Pauses :
            LET blocked == [mem[p] EXCEPT !.blocked = LaterOf(@, clock + s)]
                done == Settled(blocked, SlotOf(t), clock, kind[t])
            IN  /\ mem' = [mem EXCEPT ![p] = done]
                /\ file' = file \/ file' = Saved(blocked) \/ file' = Saved(done)
                /\ history'.sends = history.sends
        BY <1>0, <1>15 DEF FinishPaused, Save
    <2> DEFINE b == [mem[p] EXCEPT !.blocked = LaterOf(@, clock + s)]
               done == Settled(b, SlotOf(t), clock, kind[t])
    <2>2. /\ mem' = [mem EXCEPT ![p] = done]
          /\ file' = file \/ file' = Saved(b) \/ file' = Saved(done)
          /\ history'.sends = S /\ clock' = clock /\ at[t] = "out" /\ Leave(t)
        BY <1>15, <2>1 DEF FinishPaused
    <2>3. /\ s \in 0..MaxPause /\ clock + s \in Nat /\ SlotOf(t) \in Slot
          /\ mem[p] \in State /\ Finite(mem[p]) /\ Counts(mem[p], S, clock)
        BY <1>0, <1>1, <2>2, LimiterAssumption DEF TypeInv, TypeOK, SlotOf, Slot
    <2>4. b \in State /\ Counts(b, S, clock)
        BY <1>0, <2>3, ReadingTyped, CountsPaused
    <2>5. Finite(b)
        BY <2>3 DEF Finite, State
    <2> HIDE DEF b
    <2>6. done \in State /\ Finite(done) /\ Counts(done, S, clock)
        BY <1>0, <1>13, <2>3, <2>4, <2>5, StatesTyped
    <2>7. \A u \in Task : at'[u] \notin {"gap", "out"}
        BY <1>0, <2>2 DEF Leave, FlockHeld
    <2> HIDE DEF done
    <2>8. \A q \in Process : Finite(mem'[q])
        BY <1>0, <1>1, <2>2, <2>6
    <2>9. CASE file' = file \/ file' = Saved(b)
        BY <1>0, <1>1, <1>4, <2>2, <2>4, <2>5, <2>7, <2>8, <2>9
    <2>10. CASE file' = file \/ file' = Saved(done)
        BY <1>0, <1>1, <1>4, <2>2, <2>6, <2>7, <2>8, <2>10
    <2> QED
        BY <2>2, <2>9, <2>10
<1>16. ASSUME NEW p \in Process, Crash(p) PROVE SendsCounted'
    <2>1. /\ history'.sends = S /\ UNCHANGED <<clock, file>>
          /\ mem' = [mem EXCEPT ![p] = Fresh]
          /\ at' = [t \in Task |-> IF ProcessOf[t] = p THEN "idle" ELSE at[t]]
        BY <1>0, <1>16 DEF Crash
    <2>2. Finite(Fresh)
        BY FS_EmptySet DEF Finite, Fresh
    <2>3. \A q \in Process : Finite(mem'[q])
        BY <1>0, <1>1, <2>1, <2>2
    <2>4. \A t \in Task : at'[t] \in {"gap", "out"} => at[t] = at'[t] /\ mem'[ProcessOf[t]] = mem[ProcessOf[t]]
        BY <1>0, <2>1
    <2> QED
        BY <1>1, <1>2, <2>1, <2>3, <2>4
<1>17. ASSUME Damage PROVE SendsCounted'
    <2>1. /\ file'.status \in {"corrupt", "undecodable"} /\ file'.state = file.state
          /\ UNCHANGED <<clock, mem, at, history>>
        BY <1>0, <1>17 DEF Damage
    <2> QED
        BY <1>1, <2>1 DEF SendsCounted
<1>18. ASSUME Tick PROVE SendsCounted'
    <2>1. UNCHANGED <<file, mem, at, history>> /\ clock' \in Nat /\ clock <= clock'
        BY <1>0, <1>18 DEF Tick
    <2>2. ASSUME NEW m \in State, Counts(m, S, clock) PROVE Counts(m, S, clock')
        BY <1>0, <2>1, <2>2, CountsLater
    <2> QED
        BY <1>0, <1>1, <2>1, <2>2 DEF SendsCounted
<1>19. ASSUME UNCHANGED vars PROVE SendsCounted'
    BY <1>3, <1>19 DEF vars
<1> QED
    BY <1>5, <1>6, <1>7, <1>8, <1>9, <1>11, <1>12, <1>14, <1>15, <1>16, <1>17, <1>18, <1>19
    DEF Next, Proceed

\* Requests that a list counts in a window of a budget that is not full are fewer than the
\* budget: each has a stamp of its own (_over).
LEMMA CountedBelow ==
    ASSUME NEW stamps \in SUBSET Stamps, IsFiniteSet(stamps), NEW now \in Nat,
           NEW b, b[1] \in Nat, b[2] \in Nat, Cardinality(Recent(stamps, b[1], now)) < b[2],
           NEW W \in SUBSET Sends,
           \A s, u \in W : s.slot = u.slot => s = u,
           \A s \in W : now - b[1] < s.when /\ Stamped(stamps, s)
    PROVE  IsFiniteSet(W) /\ Cardinality(W) < b[2]
<1> DEFINE R == Recent(stamps, b[1], now)
           f == [s \in W |-> CHOOSE x \in stamps : x.slot = s.slot /\ x.time >= s.when]
<1>1. ASSUME NEW s \in W PROVE f[s] \in R /\ f[s].slot = s.slot
    <2>1. \E x \in stamps : x.slot = s.slot /\ x.time >= s.when
        BY DEF Stamped
    <2>2. f[s] \in stamps /\ f[s].slot = s.slot /\ f[s].time >= s.when
        BY <2>1
    <2> HIDE DEF f
    <2>3. f[s].time \in Int /\ s.when \in Int
        BY <2>2 DEF Stamps, Sends
    <2>4. f[s].time > now - b[1]
        BY <2>2, <2>3
    <2> QED
        BY <2>2, <2>4 DEF Recent
<1>2. f \in [W -> R]
    BY <1>1
<1>3. \A s, u \in W : f[s] = f[u] => s = u
    BY <1>1
<1>4. IsFiniteSet(R)
    BY FS_Subset DEF Recent
<1> HIDE DEF f
<1>5. f \in Injection(W, R)
    BY <1>2, <1>3 DEF Injection, IsInjective
<1>6. IsFiniteSet(W) /\ Cardinality(W) <= Cardinality(R)
    BY <1>4, <1>5, FS_Injection
<1>7. Cardinality(W) \in Nat /\ Cardinality(R) \in Nat
    BY <1>4, <1>6, FS_CardinalityType
<1> QED
    BY <1>6, <1>7 DEF R

\* Every step keeps the budgets: a request is sent only when the list that counts all of them
\* is not full, and a window that moves on loses requests only.
LEMMA WindowsStep ==
    GapInv /\ TypeInv /\ SendsOnce /\ SendsCounted /\ WindowsKept /\ [Next]_vars => WindowsKept'
<1> SUFFICES ASSUME GapInv, TypeInv, SendsOnce, SendsCounted, WindowsKept, [Next]_vars
             PROVE  WindowsKept'
    OBVIOUS
<1> DEFINE S == history.sends
<1>0. /\ S \in SUBSET Sends /\ IsFiniteSet(S) /\ clock \in Nat /\ \A s \in S : s.when <= clock
      /\ DOMAIN history = {"sends", "finished", "pause"}
      /\ mem \in [Process -> State]
      /\ \A b \in Budgets : b[1] \in Nat /\ b[1] >= 1 /\ b[2] \in Nat
      /\ \A t \in Task : ProcessOf[t] \in Process
    BY LimiterAssumption, BudgetAssumption
    DEF TypeInv, TypeOK, Sends, SendsOnce, SendsCounted
<1>1. ASSUME history'.sends = S, clock' = clock PROVE WindowsKept'
    BY <1>1 DEF WindowsKept, Sent
<1>2. ASSUME NEW t \in Task, Send(t) PROVE WindowsKept'
    <2> DEFINE m == Pruned(mem[ProcessOf[t]], clock)
               new == [slot |-> SlotOf(t), when |-> clock, kind |-> kind[t]]
    <2>1. /\ at[t] = "gap" /\ ~Forbidden(m, clock, kind[t])
          /\ history'.sends = S \cup {new} /\ clock' = clock
        BY <1>0, <1>2 DEF Send, Awake
    <2>2. m \in State /\ Finite(m) /\ Counts(m, S, clock)
        <3>1. mem[ProcessOf[t]] \in State /\ Finite(mem[ProcessOf[t]])
              /\ Counts(mem[ProcessOf[t]], S, clock)
            BY <1>0, <2>1 DEF SendsCounted
        <3>2. SlotOf(t) \in Slot /\ clock \in 0..MaxTime
            BY <2>1 DEF TypeInv, TypeOK, SlotOf, Slot
        <3> QED
            BY <1>0, <3>1, <3>2, StatesTyped, StatesFinite, CountsPruned
    <2>3. kind[t] \in {"request", "command"}
        BY DEF TypeInv, TypeOK
    <2>4. new.when = clock /\ new.kind = kind[t]
        OBVIOUS
    <2>5. m.blocked <= clock /\ m.blocked \in Nat
        BY <1>0, <2>1, <2>2 DEF Forbidden, State
    <2> HIDE DEF m, new
    <2>6. ASSUME NEW b \in Budgets, NEW s \in S, clock - b[1] < s.when
          PROVE  Stamped(m.sent, s) /\ (s.kind = "command" => Stamped(m.commands, s))
        <3>1. s.when \in Nat
            BY <1>0 DEF Sends
        <3>2. ~(s.when + b[1] <= clock) /\ ~(s.when + b[1] <= m.blocked)
            BY <1>0, <2>5, <2>6, <3>1
        <3>3. ~Over(s, clock) /\ ~Over(s, m.blocked)
            BY <3>2 DEF Over
        <3> QED
            BY <2>2, <3>3 DEF Counts
    <2>7. ASSUME NEW to \in 0..clock, to # clock, NEW kinds, NEW from
          PROVE  Sent(kinds, from, to)' = Sent(kinds, from, to)
        <3>1. ~(new.when <= to)
            BY <1>0, <2>4, <2>7
        <3> QED
            BY <2>1, <3>1 DEF Sent
    <2>8. ASSUME NEW b \in RequestBudgets
          PROVE  Cardinality(Sent({"request", "command"}, clock - b[1], clock)') <= b[2]
        <3> DEFINE W == {s \in S : clock - b[1] < s.when}
        <3>1. b \in Budgets /\ Cardinality(Recent(m.sent, b[1], clock)) < b[2]
            <4>1. b \in Budgets /\ b[2] \in Nat
                BY <1>0 DEF Budgets
            <4>2. ~(Cardinality(Recent(m.sent, b[1], clock)) >= b[2])
                BY <2>1 DEF Forbidden, Full
            <4>3. IsFiniteSet(Recent(m.sent, b[1], clock))
                BY <2>2, FS_Subset DEF Recent, Finite
            <4>4. Cardinality(Recent(m.sent, b[1], clock)) \in Nat
                BY <4>3, FS_CardinalityType
            <4> QED
                BY <4>1, <4>2, <4>4
        <3>2. m.sent \in SUBSET Stamps /\ IsFiniteSet(m.sent)
            BY <2>2 DEF State, Finite
        <3>3. /\ W \in SUBSET Sends /\ \A s, u \in W : s.slot = u.slot => s = u
              /\ \A s \in W : clock - b[1] < s.when /\ Stamped(m.sent, s)
            BY <1>0, <2>6, <3>1 DEF SendsOnce
        <3> HIDE DEF W
        <3>4. IsFiniteSet(W) /\ Cardinality(W) < b[2]
            BY <1>0, <3>1, <3>2, <3>3, CountedBelow
        <3>5. IsFiniteSet(W \cup {new}) /\ Cardinality(W \cup {new}) <= b[2]
            <4>1. Cardinality(W) \in Nat /\ b[2] \in Nat
                BY <1>0, <3>1, <3>4, FS_CardinalityType
            <4>2. IsFiniteSet(W \cup {new})
                  /\ (Cardinality(W \cup {new}) = Cardinality(W)
                      \/ Cardinality(W \cup {new}) = Cardinality(W) + 1)
                BY <3>4, FS_AddElement
            <4> QED
                BY <3>4, <4>1, <4>2
        <3>6. Sent({"request", "command"}, clock - b[1], clock)' \in SUBSET (W \cup {new})
            BY <2>1 DEF Sent, W
        <3> DEFINE V == Sent({"request", "command"}, clock - b[1], clock)'
        <3>7. V \in SUBSET (W \cup {new})
            BY <3>6
        <3> HIDE DEF V
        <3>8. IsFiniteSet(V) /\ Cardinality(V) <= Cardinality(W \cup {new})
            BY <3>5, <3>7, FS_Subset
        <3>9. Cardinality(V) \in Nat /\ Cardinality(W \cup {new}) \in Nat /\ b[2] \in Nat
            BY <1>0, <3>1, <3>5, <3>8, FS_CardinalityType
        <3>10. Cardinality(V) <= b[2]
            BY <3>5, <3>8, <3>9
        <3> QED
            BY <3>10 DEF V
    <2>9. ASSUME NEW b \in CommandBudgets
          PROVE  Cardinality(Sent({"command"}, clock - b[1], clock)') <= b[2]
        <3>1. CASE kind[t] = "request"
            <4>1. Sent({"command"}, clock - b[1], clock)' = Sent({"command"}, clock - b[1], clock)
                BY <2>1, <2>4, <3>1 DEF Sent
            <4>2. Cardinality(Sent({"command"}, clock - b[1], clock)) <= b[2]
                BY <1>0 DEF WindowsKept
            <4> QED
                BY <4>1, <4>2
        <3>2. CASE kind[t] = "command"
            <4> DEFINE W == {s \in S : s.kind = "command" /\ clock - b[1] < s.when}
                       V == Sent({"command"}, clock - b[1], clock)'
            <4>1. b \in Budgets /\ Cardinality(Recent(m.commands, b[1], clock)) < b[2]
                <5>1. b \in Budgets /\ b[2] \in Nat
                    BY <1>0 DEF Budgets
                <5>2. ~(Cardinality(Recent(m.commands, b[1], clock)) >= b[2])
                    BY <2>1, <3>2 DEF Forbidden, Full
                <5>3. IsFiniteSet(Recent(m.commands, b[1], clock))
                    BY <2>2, FS_Subset DEF Recent, Finite
                <5>4. Cardinality(Recent(m.commands, b[1], clock)) \in Nat
                    BY <5>3, FS_CardinalityType
                <5> QED
                    BY <5>1, <5>2, <5>4
            <4>2. m.commands \in SUBSET Stamps /\ IsFiniteSet(m.commands)
                BY <2>2 DEF State, Finite
            <4>3. /\ W \in SUBSET Sends /\ \A s, u \in W : s.slot = u.slot => s = u
                  /\ \A s \in W : clock - b[1] < s.when /\ Stamped(m.commands, s)
                BY <1>0, <2>6, <4>1 DEF SendsOnce
            <4>4. V \in SUBSET (W \cup {new})
                BY <2>1 DEF Sent
            <4> HIDE DEF W, V
            <4>5. IsFiniteSet(W) /\ Cardinality(W) < b[2]
                BY <1>0, <4>1, <4>2, <4>3, CountedBelow
            <4>6. Cardinality(W) \in Nat /\ b[2] \in Nat
                BY <1>0, <4>1, <4>5, FS_CardinalityType
            <4>7. IsFiniteSet(W \cup {new}) /\ Cardinality(W \cup {new}) <= b[2]
                <5>1. IsFiniteSet(W \cup {new})
                      /\ (Cardinality(W \cup {new}) = Cardinality(W)
                          \/ Cardinality(W \cup {new}) = Cardinality(W) + 1)
                    BY <4>5, FS_AddElement
                <5> QED
                    BY <4>5, <4>6, <5>1
            <4>8. IsFiniteSet(V) /\ Cardinality(V) <= Cardinality(W \cup {new})
                BY <4>4, <4>7, FS_Subset
            <4>9. Cardinality(V) \in Nat /\ Cardinality(W \cup {new}) \in Nat
                BY <4>7, <4>8, FS_CardinalityType
            <4>10. Cardinality(V) <= b[2]
                BY <4>6, <4>7, <4>8, <4>9
            <4> QED
                BY <4>10 DEF V
        <3> QED
            BY <2>3, <3>1, <3>2
    <2>10. ASSUME NEW to \in 0..clock
           PROVE  /\ \A b \in RequestBudgets :
                        Cardinality(Sent({"request", "command"}, to - b[1], to)') <= b[2]
                  /\ \A b \in CommandBudgets : Cardinality(Sent({"command"}, to - b[1], to)') <= b[2]
        <3>1. CASE to = clock
            BY <2>1, <2>8, <2>9, <3>1
        <3>2. CASE to # clock
            BY <2>7, <3>2 DEF WindowsKept
        <3> QED
            BY <3>1, <3>2
    <2> QED
        BY <2>1, <2>10 DEF WindowsKept
<1>3. ASSUME Tick PROVE WindowsKept'
    <2>1. clock' = clock + 1 /\ history' = history
        BY <1>3 DEF Tick
    <2>2. ASSUME NEW kinds, NEW w \in Nat
          PROVE  Sent(kinds, clock + 1 - w, clock + 1) \in SUBSET Sent(kinds, clock - w, clock)
        BY <1>0 DEF Sent, Sends
    <2>3. ASSUME NEW kinds, NEW b \in Budgets, Cardinality(Sent(kinds, clock - b[1], clock)) <= b[2]
          PROVE  Cardinality(Sent(kinds, clock + 1 - b[1], clock + 1)) <= b[2]
        <3> DEFINE V == Sent(kinds, clock - b[1], clock)
                   V1 == Sent(kinds, clock + 1 - b[1], clock + 1)
        <3>1. V1 \in SUBSET V
            BY <1>0, <2>2
        <3>2. V \in SUBSET S
            BY DEF Sent
        <3>3. Cardinality(V) <= b[2] /\ b[2] \in Nat
            BY <1>0, <2>3
        <3> HIDE DEF V, V1
        <3>4. IsFiniteSet(V)
            BY <1>0, <3>2, FS_Subset
        <3>5. IsFiniteSet(V1) /\ Cardinality(V1) <= Cardinality(V)
            BY <3>1, <3>4, FS_Subset
        <3>6. Cardinality(V) \in Nat /\ Cardinality(V1) \in Nat
            BY <3>4, <3>5, FS_CardinalityType
        <3> QED
            BY <3>3, <3>5, <3>6 DEF V1
    <2>4. ASSUME NEW to \in 0..(clock + 1)
          PROVE  /\ \A b \in RequestBudgets :
                        Cardinality(Sent({"request", "command"}, to - b[1], to)) <= b[2]
                 /\ \A b \in CommandBudgets : Cardinality(Sent({"command"}, to - b[1], to)) <= b[2]
        <3>1. CASE to \in 0..clock
            BY <3>1 DEF WindowsKept
        <3>2. CASE to = clock + 1
            <4>1. clock \in 0..clock
                BY <1>0
            <4>2. ASSUME NEW b \in RequestBudgets
                  PROVE  Cardinality(Sent({"request", "command"}, to - b[1], to)) <= b[2]
                <5>1. b \in Budgets /\ Cardinality(Sent({"request", "command"}, clock - b[1], clock)) <= b[2]
                    BY <4>1 DEF WindowsKept, Budgets
                <5>2. Cardinality(Sent({"request", "command"}, clock + 1 - b[1], clock + 1)) <= b[2]
                    BY <2>3, <5>1
                <5>3. Sent({"request", "command"}, to - b[1], to) = Sent({"request", "command"}, clock + 1 - b[1], clock + 1)
                    BY <1>0, <3>2, <5>1 DEF Sent
                <5> QED
                    BY <5>2, <5>3
            <4>3. ASSUME NEW b \in CommandBudgets
                  PROVE  Cardinality(Sent({"command"}, to - b[1], to)) <= b[2]
                <5>1. b \in Budgets /\ Cardinality(Sent({"command"}, clock - b[1], clock)) <= b[2]
                    BY <4>1 DEF WindowsKept, Budgets
                <5>2. Cardinality(Sent({"command"}, clock + 1 - b[1], clock + 1)) <= b[2]
                    BY <2>3, <5>1
                <5>3. Sent({"command"}, to - b[1], to) = Sent({"command"}, clock + 1 - b[1], clock + 1)
                    BY <1>0, <3>2, <5>1 DEF Sent
                <5> QED
                    BY <5>2, <5>3
            <4> QED
                BY <4>2, <4>3
        <3> QED
            BY <1>0, <3>1, <3>2
    <2> QED
        BY <2>1, <2>4 DEF WindowsKept, Sent
<1>4. ASSUME NEW t \in Task, Enter(t) \/ CancelWaiting(t) \/ (Proceed(t) /\ ~Send(t))
      PROVE  history'.sends = S /\ clock' = clock
    BY <1>0, <1>4 DEF Enter, CancelWaiting, LoadUndecodable, Proceed, TakeMutex, LoadRecord, ReadFails, LoadCorrupt, Refuse, CannotRecord,
        Finish, FinishPaused
<1>5. ASSUME NEW p \in Process, Crash(p) PROVE history'.sends = S /\ clock' = clock
    BY <1>0, <1>5 DEF Crash
<1>6. ASSUME Damage \/ UNCHANGED vars PROVE history'.sends = S /\ clock' = clock
    BY <1>6 DEF Damage, vars
<1> QED
    BY <1>1, <1>2, <1>3, <1>4, <1>5, <1>6 DEF Next

\* Before the first request nothing is to be counted.
LEMMA BudgetInit == Init => BudgetInv
<1> SUFFICES ASSUME Init PROVE BudgetInv
    OBVIOUS
<1>1. /\ history.sends = {} /\ clock = 0 /\ file.state = Fresh /\ file.status = "missing"
      /\ \A p \in Process : mem[p] = Fresh
      /\ \A t \in Task : at[t] = "idle"
    BY DEF Init
<1>2. Finite(Fresh)
    BY FS_EmptySet DEF Finite, Fresh
<1>3. \A kinds, from, to : Sent(kinds, from, to) = {}
    BY <1>1 DEF Sent
<1>4. ASSUME NEW b \in Budgets PROVE 0 <= b[2]
    BY BudgetAssumption
<1>5. WindowsKept
    BY <1>3, <1>4, FS_EmptySet DEF WindowsKept, Budgets
<1> QED
    BY <1>1, <1>2, <1>5, FS_EmptySet DEF BudgetInv, SendsOnce, SendsCounted

\* For any budgets, tasks and processes, over crashes, failed saves and corrupt records: in no
\* window of a budget more requests, or commands, were sent than it allows (_check, _over).
THEOREM LimiterBudgetKept == Spec => []BudgetKept
<1>1. Init => GapInv /\ TypeInv /\ BudgetInv
    BY GapInit, TypeInit, BudgetInit
<1>2. GapInv /\ TypeInv /\ BudgetInv /\ [Next]_vars => (GapInv /\ TypeInv /\ BudgetInv)'
    BY GapStep, TypeStep, OnceStep, CountedStep, WindowsStep DEF BudgetInv
<1>3. TypeInv /\ BudgetInv => BudgetKept
    <2> SUFFICES ASSUME TypeInv, BudgetInv, NEW s \in history.sends
                 PROVE  s.when \in 0..clock
        BY DEF BudgetInv, WindowsKept, BudgetKept
    <2>1. s.when \in Nat /\ clock \in Nat
        BY LimiterAssumption DEF TypeInv, TypeOK
    <2> QED
        BY <2>1 DEF BudgetInv, SendsOnce
<1> QED
    BY <1>1, <1>2, <1>3, PTL DEF Spec
====================================================================================
