--------------------------------- MODULE Limiter ---------------------------------
(***************************************************************************)
(* The request limiter (limits.py): processes that share one state file send  *)
(* requests to the service one at a time, a gap apart, within rolling budgets *)
(* and outside the pauses a 429 answer asks for, although any of them may be   *)
(* killed at any step and the file may fail to be written or be found corrupt. *)
(*                                                                          *)
(* Time is a clock in whole units that every process reads (wall and monotonic *)
(* time agree; steps of the wall clock are left out).  A slot takes the        *)
(* process's mutex, then the file's lock; the code between two awaits is one   *)
(* action.  A missing record, and a limiter without a file, are the state the  *)
(* first slot finds.  A cancelled request ends like an answered one; a slot    *)
(* may also be cancelled at any of its waits.  A damaged record is corrupt     *)
(* when its text is no valid state, undecodable when it is no text at all.     *)
(***************************************************************************)
EXTENDS Integers, FiniteSets

CONSTANTS
    Process, Task, ProcessOf,   \* tasks are slots in use, in any thread or event loop
    NoTask,                     \* nobody holds the lock
    Gap, Timeout,               \* min_gap, HTTP_TIMEOUT
    RequestBudgets,             \* sets of <<window, limit>>
    CommandBudgets,
    Pauses, MaxPause,           \* pauses a 429 answer asks for; MAX_RATE_LIMIT_COOLDOWN
    Recovery,                   \* RECOVERY_PAUSE
    \* Bounds of an instance.
    MaxTime, MaxSlots, MaxFails, MaxCrashes, MaxDamage

Budgets == RequestBudgets \cup CommandBudgets

ASSUME LimiterAssumption ==
    /\ ProcessOf \in [Task -> Process]
    /\ NoTask \notin Task
    /\ {Gap, Timeout, MaxPause, Recovery} \subseteq Nat
    /\ {MaxTime, MaxSlots, MaxFails, MaxCrashes, MaxDamage} \subseteq Nat
    /\ Pauses \subseteq 0..MaxPause
    /\ Gap <= Recovery /\ Recovery <= MaxPause

\* What the code relies on besides: a recovery pause outlives every budget window.
ASSUME BudgetAssumption == \A b \in Budgets : b[1] \in 1..Recovery /\ b[2] \in Nat \ {0}

\* A recovery pause is as long as any pause a corrupt record could have held (const.py).
ASSUME PauseAssumption == MaxPause <= Recovery

VARIABLES
    clock,
    file,       \* the shared record: missing, corrupt, undecodable, or a state
    mem,        \* mem[p]: process p's state
    mutex,      \* mutex[p]: the task holding p's _mutex
    flock,      \* the task holding the state file's lock
    at,         \* at[t]: the step task t's slot has reached
    kind,       \* kind[t]: "request" or "command"
    start,      \* start[t]: when t's request was sent
    slots,      \* slots[t]: the slots t has entered
    budget,     \* failed saves, crashes and corruptions still allowed
    history     \* what really happened: read by properties only

vars == <<clock, file, mem, mutex, flock, at, kind, start, slots, budget, history>>

Never == -Gap
Slot == [by : Task, nr : 1..MaxSlots]
Stamps == [slot : Slot, time : 0..(MaxTime + Timeout)]
State == [sent : SUBSET Stamps, commands : SUBSET Stamps, blocked : 0..(MaxTime + MaxPause),
          lastDone : Never..(MaxTime + Timeout)]
Fresh == [sent |-> {}, commands |-> {}, blocked |-> 0, lastDone |-> Never]

LaterOf(a, b) == IF a >= b THEN a ELSE b
EarlierOf(a, b) == IF a <= b THEN a ELSE b

Init ==
    /\ clock = 0
    /\ file = [status |-> "missing", state |-> Fresh]
    /\ mem = [p \in Process |-> Fresh]
    /\ mutex = [p \in Process |-> NoTask]
    /\ flock = NoTask
    /\ at = [t \in Task |-> "idle"]
    /\ kind = [t \in Task |-> "request"]
    /\ start = [t \in Task |-> 0]
    /\ slots = [t \in Task |-> 0]
    /\ budget = [fails |-> MaxFails, crashes |-> MaxCrashes, damage |-> MaxDamage]
    /\ history = [sends |-> {}, finished |-> Never, pause |-> [p \in Process |-> 0]]
---------------------------------------------------------------------------------
\* The code's stamps are a sorted list of times; here each says which slot made it, so that equal
\* times stay apart.  A slot adds one to each list at most: Settle removes the one it reserved.
Insort(stamps, slot, time) == stamps \cup {[slot |-> slot, time |-> time]}

Recent(stamps, window, now) == {x \in stamps : x.time > now - window}

Settle(stamps, slot, done) == Insort({x \in stamps : x.slot # slot}, slot, done)

\* Mutant of Exported: the pause is not recorded.
ExportedUnpaused(m, now) == [m EXCEPT !.blocked = 0]

\* export_state: a pause that is over is not kept.
Exported(m, now) == [m EXCEPT !.blocked = IF @ > now THEN @ ELSE 0]

\* import_state, after the memory's own stamps were cleared: a time in the future counts as now.
Imported(m, s, now) ==
    LET Past(stamps) == {[x EXCEPT !.time = EarlierOf(@, now)] : x \in stamps}
    IN  [sent |-> Past(s.sent), commands |-> Past(s.commands),
         blocked |-> IF s.blocked > now
                     THEN LaterOf(m.blocked, EarlierOf(s.blocked, now + MaxPause)) ELSE m.blocked,
         lastDone |-> LaterOf(m.lastDone, EarlierOf(s.lastDone, now))]

\* _check: the stamps still needed, and whether a pause or a budget forbids the request.
Kept(stamps, now) == {x \in stamps : \E b \in Budgets : x.time > now - b[1]}

Pruned(m, now) == [m EXCEPT !.sent = Kept(@, now), !.commands = Kept(@, now)]

Full(stamps, budgets, now) == \E b \in budgets : Cardinality(Recent(stamps, b[1], now)) >= b[2]

Forbidden(m, now, k) ==
    \/ now < m.blocked
    \/ Full(m.sent, RequestBudgets, now)
    \/ k = "command" /\ Full(m.commands, CommandBudgets, now)

\* Mutant of Reserved: the gap is counted from the last answer only.
ReservedGapless(m, slot, now, k) ==
    [m EXCEPT !.sent = Insort(@, slot, now + Timeout),
              !.commands = IF k = "command" THEN Insort(@, slot, now + Timeout) ELSE @]

Reserved(m, slot, now, k) ==
    [m EXCEPT !.sent = Insort(@, slot, now + Timeout),
              !.commands = IF k = "command" THEN Insort(@, slot, now + Timeout) ELSE @,
              !.lastDone = LaterOf(@, now + Timeout)]

Settled(m, slot, now, k) ==
    [m EXCEPT !.sent = Settle(@, slot, now),
              !.commands = IF k = "command" THEN Settle(@, slot, now) ELSE @,
              !.lastDone = now]

\* Mutant of Saved: the record lacks its pause.
SavedPartly(m) == [status |-> "valid",
                   state |-> [sent |-> m.sent, commands |-> m.commands, lastDone |-> m.lastDone]]

Saved(m) == [status |-> "valid", state |-> Exported(m, clock)]

\* A save replaces the record as a whole; when it fails the record stays as it was.
Save(m) == file' = Saved(m) /\ UNCHANGED budget
SaveFails == budget.fails > 0 /\ budget' = [budget EXCEPT !.fails = @ - 1] /\ UNCHANGED file

\* The slot that task t is in, or was in last.
SlotOf(t) == [by |-> t, nr |-> slots[t]]

\* Mutant of Leave: the process's mutex stays locked.
LeaveLocked(t) ==
    /\ at' = [at EXCEPT ![t] = "idle"]
    /\ flock' = IF flock = t THEN NoTask ELSE flock
    /\ UNCHANGED mutex

\* The slot is over, with or without a request: both locks are released.
Leave(t) ==
    /\ at' = [at EXCEPT ![t] = "idle"]
    /\ flock' = IF flock = t THEN NoTask ELSE flock
    /\ mutex' = [p \in Process |-> IF mutex[p] = t THEN NoTask ELSE mutex[p]]

\* The gap is over: the budgets and the pause are checked at the last moment.
Awake(t) == at[t] = "gap" /\ clock >= mem[ProcessOf[t]].lastDone + Gap
---------------------------------------------------------------------------------
Enter(t) ==
    /\ at[t] = "idle"
    /\ slots[t] < MaxSlots
    /\ at' = [at EXCEPT ![t] = "mutex"]
    /\ \E k \in {"request", "command"} : kind' = [kind EXCEPT ![t] = k]
    /\ slots' = [slots EXCEPT ![t] = @ + 1]
    /\ UNCHANGED <<clock, file, mem, mutex, flock, start, budget, history>>

TakeMutex(t) ==
    /\ at[t] = "mutex"
    /\ mutex[ProcessOf[t]] = NoTask
    /\ at' = [at EXCEPT ![t] = "flock"]
    /\ mutex' = [mutex EXCEPT ![ProcessOf[t]] = t]
    /\ UNCHANGED <<clock, file, mem, flock, kind, start, slots, budget, history>>

\* Cancelled while it waits for the mutex, for the file's lock or for the end of the gap.
CancelWaiting(t) ==
    /\ \/ at[t] \in {"mutex", "flock"}
       \/ at[t] = "gap" /\ ~Awake(t)
    /\ Leave(t)
    /\ UNCHANGED <<clock, file, mem, kind, start, slots, budget, history>>

\* Mutant of TakeFlock: the file's lock is not exclusive.
TakeFlockShared(t) == at[t] = "flock"

\* The file's lock is taken and the record loaded; then the slot sleeps out the gap.
TakeFlock(t) == at[t] = "flock" /\ flock = NoTask

LoadRecord(t) ==
    LET p == ProcessOf[t]
    IN  /\ TakeFlock(t)
        /\ file.status \in {"missing", "valid"}
        /\ at' = [at EXCEPT ![t] = "gap"]
        /\ flock' = t
        /\ mem' = IF file.status = "valid"
                  THEN [mem EXCEPT ![p] = Imported(@, file.state, clock)] ELSE mem
        /\ UNCHANGED <<clock, file, mutex, kind, start, slots, budget, history>>

\* A record that cannot be read this time is left alone, and nothing is sent.
ReadFails(t) ==
    /\ TakeFlock(t)
    /\ file.status # "missing"
    /\ budget.fails > 0
    /\ budget' = [budget EXCEPT !.fails = @ - 1]
    /\ Leave(t)
    /\ UNCHANGED <<clock, file, mem, kind, start, slots, history>>

\* A record that is no text raises what nothing on the way catches: it is left as it is.
LoadUndecodable(t) ==
    /\ TakeFlock(t)
    /\ file.status = "undecodable"
    /\ Leave(t)
    /\ UNCHANGED <<clock, file, mem, kind, start, slots, budget, history>>

\* Mutant of LoadCorrupt: a corrupt record counts as an empty one.
LoadCorruptEmpty(t) ==
    /\ TakeFlock(t)
    /\ file.status = "corrupt"
    /\ at' = [at EXCEPT ![t] = "gap"]
    /\ flock' = t
    /\ Save(mem[ProcessOf[t]]) \/ SaveFails
    /\ UNCHANGED <<clock, mem, mutex, kind, start, slots, history>>

\* A corrupt record: pause for as long as any pause in it could have been, and record that.
LoadCorrupt(t) ==
    LET p == ProcessOf[t]
        held == [mem[p] EXCEPT !.blocked = LaterOf(@, clock + Recovery)]
    IN  /\ TakeFlock(t)
        /\ file.status = "corrupt"
        /\ at' = [at EXCEPT ![t] = "gap"]
        /\ flock' = t
        /\ mem' = [mem EXCEPT ![p] = held]
        /\ Save(held) \/ SaveFails
        /\ UNCHANGED <<clock, mutex, kind, start, slots, history>>

Refuse(t) ==
    LET p == ProcessOf[t]
        m == Pruned(mem[p], clock)
    IN  /\ Awake(t)
        /\ Forbidden(m, clock, kind[t])
        /\ mem' = [mem EXCEPT ![p] = m]
        /\ Leave(t)
        /\ UNCHANGED <<clock, file, kind, start, slots, budget, history>>

\* Mutant of Send: a reservation that cannot be recorded is sent all the same.
SendUnrecorded(t) ==
    LET p == ProcessOf[t]
        m == Pruned(mem[p], clock)
        reserved == Reserved(m, SlotOf(t), clock, kind[t])
    IN  /\ Awake(t)
        /\ ~Forbidden(m, clock, kind[t])
        /\ mem' = [mem EXCEPT ![p] = reserved]
        /\ Save(reserved) \/ SaveFails
        /\ at' = [at EXCEPT ![t] = "out"]
        /\ start' = [start EXCEPT ![t] = clock]
        /\ history' = [history EXCEPT !.sends = @ \cup {[slot |-> SlotOf(t), when |-> clock, kind |-> kind[t]]}]
        /\ UNCHANGED <<clock, mutex, flock, kind, slots>>

\* Reserve at the latest time the request can finish, record that, and send.
Send(t) ==
    LET p == ProcessOf[t]
        m == Pruned(mem[p], clock)
        reserved == Reserved(m, SlotOf(t), clock, kind[t])
    IN  /\ Awake(t)
        /\ ~Forbidden(m, clock, kind[t])
        /\ mem' = [mem EXCEPT ![p] = reserved]
        /\ Save(reserved)
        /\ at' = [at EXCEPT ![t] = "out"]
        /\ start' = [start EXCEPT ![t] = clock]
        /\ history' = [history EXCEPT !.sends = @ \cup {[slot |-> SlotOf(t), when |-> clock, kind |-> kind[t]]}]
        /\ UNCHANGED <<clock, mutex, flock, kind, slots>>

\* The reservation could not be recorded: nothing is sent (it stays in memory).
CannotRecord(t) ==
    LET p == ProcessOf[t]
        m == Pruned(mem[p], clock)
    IN  /\ Awake(t)
        /\ ~Forbidden(m, clock, kind[t])
        /\ mem' = [mem EXCEPT ![p] = Reserved(m, SlotOf(t), clock, kind[t])]
        /\ SaveFails
        /\ Leave(t)
        /\ UNCHANGED <<clock, kind, start, slots, history>>

\* An answer, an error, a timeout or a cancellation: the request is counted at its end.
Finish(t) ==
    LET p == ProcessOf[t]
        done == Settled(mem[p], SlotOf(t), clock, kind[t])
    IN  /\ at[t] = "out"
        /\ mem' = [mem EXCEPT ![p] = done]
        /\ Save(done) \/ SaveFails
        /\ history' = [history EXCEPT !.finished = clock]
        /\ Leave(t)
        /\ UNCHANGED <<clock, kind, start, slots>>

\* A 429 answer: the pause is saved, then the request is settled and all is saved again.
FinishPaused(t) ==
    LET p == ProcessOf[t]
    IN  /\ at[t] = "out"
        /\ \E s \in Pauses :
            LET blocked == [mem[p] EXCEPT !.blocked = LaterOf(@, clock + s)]
                done == Settled(blocked, SlotOf(t), clock, kind[t])
            IN  /\ mem' = [mem EXCEPT ![p] = done]
                /\ \/ /\ Save(done)
                      /\ history' = [history EXCEPT !.finished = clock,
                            !.pause = [q \in Process |-> LaterOf(@[q], clock + s)]]
                   \/ /\ budget.fails > 0       \* only the first save succeeds
                      /\ budget' = [budget EXCEPT !.fails = @ - 1]
                      /\ file' = Saved(blocked)
                      /\ history' = [history EXCEPT !.finished = clock,
                            !.pause = [q \in Process |-> LaterOf(@[q], clock + s)]]
                   \/ /\ budget.fails > 1       \* neither save succeeds
                      /\ budget' = [budget EXCEPT !.fails = @ - 2]
                      /\ UNCHANGED file
                      /\ history' = [history EXCEPT !.finished = clock,
                            !.pause[p] = LaterOf(@, clock + s)]
        /\ Leave(t)
        /\ UNCHANGED <<clock, kind, start, slots>>
---------------------------------------------------------------------------------
\* A process is killed: its locks are released, its memory is gone, a request is cut off.
Crash(p) ==
    LET mine == {t \in Task : ProcessOf[t] = p}
    IN  /\ budget.crashes > 0
        /\ \E t \in mine : at[t] # "idle"
        /\ budget' = [budget EXCEPT !.crashes = @ - 1]
        /\ at' = [t \in Task |-> IF t \in mine THEN "idle" ELSE at[t]]
        /\ mutex' = [mutex EXCEPT ![p] = NoTask]
        /\ flock' = IF flock \in mine THEN NoTask ELSE flock
        /\ mem' = [mem EXCEPT ![p] = Fresh]
        /\ history' = [history EXCEPT
                !.finished = IF \E t \in mine : at[t] = "out" THEN clock ELSE @,
                !.pause[p] = LaterOf(0, IF file.status = "valid" THEN file.state.blocked ELSE 0)]
        /\ UNCHANGED <<clock, file, kind, start, slots>>

Damage ==
    /\ budget.damage > 0
    /\ file.status = "valid"
    /\ budget' = [budget EXCEPT !.damage = @ - 1]
    /\ \E s \in {"corrupt", "undecodable"} : file' = [file EXCEPT !.status = s]
    /\ UNCHANGED <<clock, mem, mutex, flock, at, kind, start, slots, history>>

\* No request outlives its timeout.
Tick ==
    /\ clock < MaxTime
    /\ \A t \in Task : at[t] = "out" => clock < start[t] + Timeout
    /\ clock' = clock + 1
    /\ UNCHANGED <<file, mem, mutex, flock, at, kind, start, slots, budget, history>>

Proceed(t) ==
    \/ TakeMutex(t) \/ LoadRecord(t) \/ ReadFails(t) \/ LoadCorrupt(t) \/ LoadUndecodable(t)
    \/ Refuse(t) \/ Send(t) \/ CannotRecord(t) \/ Finish(t) \/ FinishPaused(t)

Next ==
    \/ \E t \in Task : Enter(t) \/ Proceed(t) \/ CancelWaiting(t)
    \/ \E p \in Process : Crash(p)
    \/ Damage
    \/ Tick

Spec == Init /\ [][Next]_vars
FairSpec == Spec /\ WF_vars(Tick) /\ \A t \in Task : WF_vars(Proceed(t))
---------------------------------------------------------------------------------
\* Every variable holds a value of its kind: the slot's steps, the locks' holders, times
\* and stamps (slot, limits.py:114-153).
TypeOK ==
    /\ clock \in 0..MaxTime
    /\ file \in [status : {"missing", "valid", "corrupt", "undecodable"}, state : State]
    /\ mem \in [Process -> State]
    /\ mutex \in [Process -> Task \cup {NoTask}]
    /\ flock \in Task \cup {NoTask}
    /\ at \in [Task -> {"idle", "mutex", "flock", "gap", "out"}]
    /\ kind \in [Task -> {"request", "command"}]
    /\ start \in [Task -> 0..MaxTime]
    /\ slots \in [Task -> 0..MaxSlots]
    /\ budget \in [fails : 0..MaxFails, crashes : 0..MaxCrashes, damage : 0..MaxDamage]
    /\ history.sends \subseteq [slot : Slot, when : 0..MaxTime, kind : {"request", "command"}]
    /\ history.finished \in Never..MaxTime
    /\ history.pause \in [Process -> 0..(MaxTime + MaxPause)]

\* No two requests are out together, in whatever task or process: a slot is held for the
\* whole request (slot, limits.py:121-153).
OneAtATime == \A t, u \in Task : at[t] = "out" /\ at[u] = "out" => t = u

\* A request starts no sooner than the gap after the last one of any process ended, be it
\* answered, failed or cut off by a crash, and even if its end was never saved
\* (limits.py:126-128, 137 and 200-201).
GapKept == \A t \in Task : at[t] = "out" => start[t] >= history.finished + Gap

\* While a request is out the shared record counts it already, so that a crash cannot lose
\* it: nothing is sent that could not be recorded (limits.py:131-138).
Recorded == \A t \in Task : at[t] = "out" /\ file.status = "valid" =>
                [slot |-> SlotOf(t), time |-> start[t] + Timeout] \in file.state.sent

Sent(kinds, from, to) ==
    {s \in history.sends : s.kind \in kinds /\ from < s.when /\ s.when <= to}

\* In no window of a budget were more requests (or commands) sent than it allows, counted
\* by what was really sent, over crashes, failed saves and corrupt records (_over).
BudgetKept ==
    \A s \in history.sends :
        /\ \A b \in RequestBudgets :
              Cardinality(Sent({"request", "command"}, s.when - b[1], s.when)) <= b[2]
        /\ \A b \in CommandBudgets :
              Cardinality(Sent({"command"}, s.when - b[1], s.when)) <= b[2]

\* No process sends during a pause of a 429 answer it was told of: its own, or one another
\* process could save (block, limits.py:168-176; _load, 310-316).
PauseKept == \A t \in Task : at[t] = "out" => start[t] >= history.pause[ProcessOf[t]]

\* Every slot comes to its end, with a request sent or refused, whatever the others do: no
\* crash or failure leaves a lock behind (the finally clauses of slot, limits.py:141-153).
\* What is excused is a gap that the bound on the clock cuts short.
CutShort == clock = MaxTime /\ \E t \in Task : at[t] = "gap" /\ ~Awake(t)
SlotsEnd == \A t \in Task : at[t] # "idle" ~> at[t] = "idle" \/ CutShort
=================================================================================
