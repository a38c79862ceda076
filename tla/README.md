# A TLA+ model of gac-connect

gac-connect is a Python library (and a small command line) that signs in to a car maker's
cloud service, keeps a session alive with single-use refresh tokens, reads a car's status,
sends it commands and listens for their results. All of its code is in
`src/src/gac_connect/`; file names below are relative to that directory, and module names
are those of the TLA+ modules beside this file.

What makes the library hard to get right is not the cryptography but what it does *around*
its awaits: a refresh token can be spent once, so it must be rotated by one task, saved
before it is used, and never lost or written over, although several tasks, clients and
processes share one saved session, any of them may be cancelled or killed, the store may
fail, and a sign-in may happen at any moment. The same holds for the request limiter: its
promises to the service are made over one file that several processes read and write.

## 1. Inventory

| Component | Files | State | Operations | What is hard | What makes it correct |
|---|---|---|---|---|---|
| Session store | `session.py` | the saved session; for `FileStore` the record, temporary files, an asyncio lock per object, a file lock | `load`, `save`, `replace` (compare and save) | readers without locks, several objects and processes, death between any two file operations, loss of power, unreadable records | seen from its callers it is a register with one-step operations; a reported save is durable |
| Session life cycle | `client.py` (`load` … `_refresh`, `_iov_read`, `_dispatch_command`) | per client: `_session`, `_base`, `_auth_dead`, `_dead_refresh`, `_changing`; per process: `_REFRESH_GATE` | load, sign-in, refresh, renewal from the account, account-token refresh, burial, commit and settle | everything read before an await and used after it; cancellation; answers lost after the service has acted; another client of the same store | no refresh token is spent twice (which `_refresh` keeps for a client alone with its store, and not between two), no rotated pair or account token is lost, nothing is used before it is saved, no sign-in is overwritten, a dead session sends nothing, every call ends |
| Request limiter | `limits.py`, budgets in `const.py` | stamps of finished requests and commands, last finish, pause; a shared state file; a mutex and a file lock | `slot`, `block`, `hold`, export / import, load / save | crashes between reservation and settlement, failed saves, a corrupt record, 429 pauses that other processes must learn of | one request at a time, the gap, the budgets and the pauses, counted by what was really sent |
| Push channel | `push.py` | stop event, connected, broker, backoff delay | `run`, `_pump`, `stop`, `interpret`, `_unwrap` | stop racing a message or a reconnection, backoff, handler errors | it ends after a stop, with at most the message that was already there; the backoff fits the failures; nothing else ends a live feed |
| Sign-in puzzle | `puzzle.py`, `auth.py`, the page and its server in `cli.py` | status, busy, need-new, attempt, notice | `submit`, `state` | two tabs, a failed fetch of a new puzzle, lost replies, a poll reading from another thread | one SMS; no rejected puzzle is checked again; a slide drawn on a puzzle is checked against that puzzle; the button comes back |
| Charge windows | `vehicle.py`, `client.py` (`_charge_windows`, `resume_schedule`), `models.py` | last usable reported window per car | next occurrence, rebuild of a reported window, preserved operation | midnight, a window open now, the next minute; five forms in which a window is reported; a cached window that is stale | what is sent is the first occurrence that counts, it starts in time, and a resumed window is the one last seen |
| Status decoding, capabilities, alerts | `models.py`, `capabilities.py`, `alerts.py` | the evidence of a car's equipment, kept over restarts | decode records; `observe`, `observe_equipment`, `confirm_command`, `restore` | malformed and partial records in any order | unknown is never read as locked or off; what is called supported was listed, seen or done |
| Command catalogue | `commands.py` | none | build and validate bodies | parameter ranges, rounding, units | exactly the values both sides accept are offered |
| Envelopes, signatures, keys | `crypto.py`, `signing.py`, `keys.py` | none | encrypt, sign, load keys | — | functions of bytes |
| Command line and helpers | `cli.py`, `__init__.py`, `errors.py`, `phone.py` | none | one client call per run | — | — |

How they interact: every request of the client passes its limiters (`_post` enters each
limiter's slot, outermost first), a refresh holds the process's gate while it reads the store,
asks the service, and saves through `_change` → `_commit` → the store's `replace`. Reads and
commands call `_ensure_token` first; a rejected read refreshes and is repeated once, a
rejected command only marks the token. The push channel takes its broker details through a
read, so through the same gate. Sign-in asks for its SMS through a `PuzzleSession`, whose captcha the
client holds. `get_status` keeps the reported charge window for `resume_schedule`, and a caller
hands the decoded status, the capability list and the results of its commands (pushed or
polled, read alike) to its `Capabilities`.

`PROJECT.json` lists these components, the hazards of the code at the lines where they bite,
and for each hazard the properties that cover it (or why none does yet).

## 2. Modules

| Module | Models | Extends / instantiates |
|---|---|---|
| `SessionStore` | what a store promises: a one-step register (`ConditionalStore`, `MemoryStore`) | — |
| `FileStore` | `FileStore`, one action per step of a read or a locked write | `Store == INSTANCE SessionStore` |
| `MCFileStore` | three callers, two objects, two processes | `FileStore` |
| `FileStoreProofs` | invariant and refinement, proved | `FileStore` |
| `TokenSession` | the session life cycle over a store that is the register | — |
| `MCTokenSession` | its instances | `TokenSession` |
| `TokenSessionProofs` | its gate, the client's turn and its types, proved | `TokenSession` |
| `TokenSafetyProofs` | what becomes of the tokens, proved | `TokenSessionProofs` |
| `Limiter` | the limiter and its state file | — |
| `MCLimiter` | two processes, three tasks | `Limiter` |
| `LimiterProofs` | its types, one request at a time, the gap, the record, the budgets and the pauses, proved | `Limiter` |
| `CommandResult` | what a reply to a command, or a result of one, means | — |
| `PushFeed` | the push subscription | `CommandResult` |
| `MCPushFeed` | six broker details, four messages | `PushFeed` |
| `PushFeedProofs` | its types, stop, the kept feed and the backoff, proved | `PushFeed` |
| `Puzzle` | the puzzle session, its page in several tabs, the server between them | — |
| `MCPuzzle` | two tabs | `Puzzle` |
| `PuzzleProofs` | its types, one SMS, no rejected puzzle checked again, the slide and its puzzle, proved | `Puzzle` |
| `ChargeWindow` | pure: what is sent for a window, what a reported one means | — |
| `Charging` | a client and the car's window | `ChargeWindow` |
| `MCCharging` | a week of two days of four minutes | `Charging` |
| `ChargingProofs` | all of its properties, proved | `Charging` |
| `StatusReport` | pure: doors, windows, hatches, tyres, seats, brakes, lights, A/C of a report | — |
| `CommandValues` | pure: values accepted, sent and offered | — |
| `Equipment` | the evidence of one car's equipment | `StatusReport`, `CommandResult`, `V == INSTANCE CommandValues` |
| `MCEquipment` | four cars, damaged reports, capability entries | `Equipment` |
| `EquipmentProofs` | its types, what is called supported, what is decoded and what is offered, proved | `Equipment` |

The operators named "Mutant of X" in the modules are deliberately wrong variants of X (a
dropped lock, a missing reset, ...). Nothing in a specification uses them; replacing X by its
mutant makes a run fail, which shows that the property can fail.

### SessionStore and FileStore

`SessionStore` is the abstract specification: `Load`, `Apply` and `Decline` each take effect
at one moment, a call may fail before or after its write, processes die (`Crash`), and a loss
of power leaves one of `survivors`, which a write that was reported as done (`Settle`) has
narrowed to itself. A conditional write that finds the record unreadable, for good or only for a
moment, counts it as the expected one: `_replace` says so (`current = None`), and the register lets
such a write become an unconditional one (`Misread`), from there on like any `save`.

`FileStore` has a program counter per caller. A writer takes its object's turn (the asyncio
lock), then the flock (or fails to get it, `LockFails`: no directory, no `.lock` file, no lock), then compares
(`Proceed`, `Decline`, or `ProceedUnread` if its read fails), makes the temporary file, writes it, renames it, syncs
the directory, unlocks, leaves. A reader reads in one step without a lock. `CancelWaiting` is
a cancellation while the writer queues; once its thread runs, `_finish` waits for it and a
cancellation changes nothing in the store. A death of the process (`Crash`) releases its
locks and leaves the temporary file, which nothing reads. `file` is what the path shows;
`survivors` what the disk may hold after a loss of power, and only the directory sync narrows
it. The refinement is `file` for `saved`, and `StageOf(pc)` for the stage.

### TokenSession

A task is one call in progress on one client; the code between two awaits is one action, so
everything another coroutine can interleave with is a step boundary. `at` is the step,
`loc` the call's local variables. The correspondence with `client.py`:

| Code | Actions |
|---|---|
| `load` | `BeginLoad`, `ReadStore`, `InstallLoaded`, `ReadFails` |
| `_ensure_token`, `_iov_read`, `_dispatch_command` | `BeginRequest`, `SendRequest`, `RequestAnswered`, `ReadRejected`, `CommandRejected` |
| `_refresh`: gate, look at the store, decide | `TakeGate`, `GateFindsDead`, `ReadStore`, `FindDead`, `AdoptStored`, `SkipRefresh` |
| `_refresh`: the request and its answer | `SpendToken`, `NoRefreshToken`, `RefreshAnswered` |
| `_renew_from_account`, `_establish_iov`, `_rotate_account_token`, `_refresh_account_token` | `RenewOrBury`, `MintAnswered`, `RefreshAccount`, `AccountAnswered`, `Established` |
| `login_sms`, `get_alerts` through `_account_call` | `BeginSignIn`, `LoginAnswered`, `BeginAlarms` |
| `_change`, `_commit`, `_settle` and what the callers do next | `TakeChanging`, `StartCommit`, `WriteStore`, `StoreFails`, `SettleSaved`, `SettleNewer`, `SettleFailed`, `AfterChange` |
| cancellation at an await | `Cancel` (during a commit it is only noted, as `shield` does) |
| the gateway and the account service | `ServiceRefresh`, `ServiceMint`, `ServiceAccount`, `ServiceLogin`, `ServiceRejects`, `Elapse` (external) |

A token pair is the number of its issue. `origin` and `history` are history fields that no
action reads: `origin` numbers the sign-in a session's tokens descend from. `Quiet` states what
the event loop guarantees: a free `_changing` is taken, and a new commit task started,
before anything that completes later is seen by a coroutine. The store here is the register,
which `FileStore` is proved to implement.

### Limiter

One clock in whole units. A slot is `Enter`, `TakeMutex`, then under the file's lock
`LoadRecord` (or `ReadFails`, `LoadCorrupt`, `LoadUndecodable`), the sleep for the gap, and `Refuse`, `Send` or
`CannotRecord`; a request ends with `Finish` or, on a 429, `FinishPaused`. `Exported`,
`Imported`, `Pruned`, `Reserved` and `Settled` are the pure parts. A stamp is a time together with the
slot it belongs to: the code's sorted queues of times are read here only for how many fall in a
window, and what is settled is the slot's own reservation. A process may be killed at
any step (`Crash`), a slot cancelled while it waits for the mutex, the file's lock or the gap
(`CancelWaiting`), saves and reads may fail, and the record may be found damaged (`Damage`): corrupt, or no text at
all. Of the latter the code makes nothing: `read_text` raises `UnicodeDecodeError` (`limits.py:292`), which is
no `OSError`, so the pause that a corrupt record is replaced by (`limits.py:301-303`) is never written and
every slot ends with that exception until somebody removes the file. Nothing is sent meanwhile, so the safety
properties hold.
`history` records what was really sent and which pauses each process was told of.

### PushFeed and CommandResult

One coroutine, so `at` is where `run` is, and a step ends at an await. `Run` is the coroutine:
`Begin`, `FetchFails` / `Fetched`, `ConnectFails` / `Connect`, the pump's `Take`, `HandlerDone`,
`StopSeen`, `LinkLost`, `CleanEnd`, then `Disconnect` and `Wake`; `Fail` is the `except` of `run`.
`World` is what it meets: `Stop` and `Cancel` from its caller, `Arrive` and `Drop` of the
MQTT library, `Tick`. Time is in seconds, ages beyond `STABLE_SECONDS` are not told apart.
A message is a record of what `_unwrap`, `interpret` and `car_reported` tell apart: the kind of
its envelope, its success flag, its codes, its items with their causes.

### Puzzle

A press of Verify is a `submit()`: `Answer` or `Start`, then one action per answer of the two
services (`Right`, `Wrong`, `Sent`, `Refused`, `CannotReach`, and `SentUnheard` and `Unexpected`, whose
number is bounded). `_new_puzzle` takes two steps, `NewPuzzle` and `CountAttempt`, because the server's
threads read the session while the event loop is in between; for the same reason a poll is `Ask`, then one
`ReadOn` for each field of `state()` in its order, the two images included, then `Show`. `Verify`, `Heard`,
`Shown` and `Enable` are the page's script: its button, its timers, and the attempt and notice it has seen. The
button is enabled from the load of the page, so `Verify` may be *blind*, before the first poll has shown a puzzle
(`tests/puzzle_page.test.cjs` presses then). After a blind press the first puzzle that arrives enables the button
again while the slide is still being checked, and a second slide can then be checked against a puzzle that
replaced the one it was drawn on; `SlideFits` claims nothing once a press was blind. `Shut` is the command line's end.

### ChargeWindow and Charging

A minute counted from day 0 stands for a dated calendar field, a clock is a minute of the day,
and now is counted in half minutes, the grain of `_next_minute`. A window the car has is reported in
one of the forms the code knows: daily times, UTC stamps with or without calendar fields,
undated fields alone, or the "not set" placeholder; `Window` is what `reported_window` keeps
of it, `ShownClocks` what the status shows. The usable times may be missing from any report (`usable`); a read
that is refused or has no report raises before anything is kept. The car (`Applied`, `WindowEnds`) is written from the
observations in the docstrings and comments of `vehicle.py` and `models.py`. `saw` remembers what the car
really had when it was last read.

### Equipment, StatusReport and CommandValues

`Equipment` is one `Capabilities` object and its caller: status reports (`ReadStatus`), capability lists
(`ReadCapabilities`, merged or replaced), a command from its reply to its result (`SendCommand`, `CarDoes`,
`PollResult`), and a restart from what was stored. Features are seven readings (of single
fields, and of the items of a seat and a tyre, which `observe` takes by their position) and the equipment they
belong to, in five groups of the capability list; between them they take every branch of `feature` and of `_flag`,
the group whose own switch is the field included (`SWITCH`). A report may show any value of what is not fitted, as the
cars' placeholders do, except a light that is on. A list deals with each group in a manner of its own (`Manners`): with
its level, without it, as an empty list, or not at all, beside few or many other groups; so an answer with enough
groups may still lack one that is fitted. `applied`, `posed` and `told` are read by properties only: what the car did,
which readings of unfitted equipment were reported, and what the lists that count said last.
`StatusReport` and `CommandValues` are
functions; the module holds one report or list at a time and the properties compare what they
return with what the report is true of, and with what the car and the library take. Numbers of
`CommandValues` are quarters, so that they fall between the halves and wholes they are rounded to.
A report is any list of items that are each true of the car as far as they are valid (`TrueDoor`,
`TrueHatch`, ... and `BodyAssumption`): items may be missing, repeated, misnumbered or flagged. A list of
values may have several entries, of which at most one is switched on and states the field
(`ListAssumption`): of several the code takes the first, and nobody could say what the car means.

## 3. Runs

Passing runs:

| Run | Instance | What it shows |
|---|---|---|
| `filestore` | callers `a`, `b` on one object, `c` on another in another process; two pairs; fair | `Inv` (exclusive locked section, no lost update, whole records) and `ImplementsStore`: every behaviour is one of the register, crashes, losses of power and reads that fail for a moment included; `CallsReturn`: every call ends, whatever dies or fails while it waits |
| `token_shared` | a reader and a commander on client A, and a client B of the same store that loads and signs in; sessions ended from outside; two calls each | nothing is used before it is saved; rotated pairs are kept; no sign-in is overwritten |
| `token_overlap` | one client, two tasks that read, one of them also for alarms (which refreshes the account token); one store failure, one cancellation, one lost answer; fair | gate and turn are held exactly when they should be and released on every way out; overlapping changes keep each other's tokens; no token is spent twice until something fails (`SpentOnce`); a dead session sends nothing, by a call that waited at the gate either; every call ends |
| `limiter` | two processes, three tasks, one command or request each, one failure, one crash, one damaged record, cancellations at any wait | one request at a time, the gap, the record, the budgets, the pauses |
| `limiter_slots_end` | the same, shorter clock, fair | every slot ends |
| `push_feed` | six broker details (TLS by scheme, by port, plain, unusable), four messages, delays 1 to 5, stable after 2 | stop ends the feed with at most one message after it; the backoff fits the failures; nothing but stop or a cancellation ends a live connection |
| `puzzle` | two tabs, one poll at a time, two presses, two puzzles, two notices, one fault | one SMS, no rejected puzzle checked again, a slide fits its puzzle, the button comes back |
| `charging` | one and a half days of four minutes each, weeks of two days, four windows asked for, three set by the app; two commands, two changes by the app | the first occurrence that counts is sent and starts in time; a resumed window is the one last seen; the two readers of a report agree |
| `equipment` | four cars, every order of evidence; 1,363 body reports, most of them damaged, and 414 capability entries, each decoded once | the library is wrong of its car only where it was told so: by a list with enough groups that left one out, or by a placeholder of a reading's own (`SupportSound`); a damaged report is believed only as far as it goes; exactly the values both sides accept are offered |

Runs that end in a violation, each a finding in `PROJECT.json` with the sentence of the code
it contradicts:

| Run | What happens |
|---|---|
| `token_same_client` | A sign-in completes on the client whose refresh is out. The refresh's answer is merged into the new session and compared against the new base, so it is written over the sign-in. |
| `token_cancelled_save` | A refresh is cancelled while it queues for `_changing` with the rotated pair in hand: the pair is dropped. |
| `token_spent_twice` | Two clients on one store. A rotates pair 1 to 2 and saves it; 2's access time runs out; B, which still holds 1, takes the gate, does not adopt the stored pair because it is not access-valid any more (`client.py:530`), and spends 1 again. The comment on `_REFRESH_GATE` (`client.py:92-93`) says that clients sharing a store never do. |

Two more configurations of `MCTokenSession` end in a violation and are kept for reading; they are
checked by hand (`tlc -config TokenBaseRace.cfg MCTokenSession`):

| Configuration | What happens |
|---|---|
| `TokenRenewalRefused.cfg` | A renewal refreshes the account token and finds, while saving, a newer sign-in; the same `False` means "refused" to its caller (`client.py:499`), which then buries the sign-in. |
| `TokenBaseRace.cfg` | A session is built, then `_commit`'s task reads `_base` one step later (`client.py:236`); a refresh that adopts the stored session in between makes the old session pass the comparison. |

**Why the hold and the violation of one property do not contradict each other.** `SignInKept`
passes in `token_shared`, where the sign-in is on *another* client and account tokens do not
run out (`AccountLapse = FALSE`): the ordinary conditional save works. The violation runs and the
configurations checked by hand each add one circumstance. The same goes for `RotatedPairKept` (no
cancellation in `token_shared`). `NeverSpentTwice` is claimed of two clients by the code's comment and broken by the code; what it
does keep is `SpentOnce`: the calls of one client, alone with its store, spend no token twice until a save fails, a
call is cancelled or an answer is lost (`token_overlap`).

**Bounds.** `MaxPair`, `MaxAcct`: tokens the service issues, one more than a run's tasks can
rotate on the interesting paths (a rotation, a mint after it, and a sign-in); when the bound is
reached the service only refuses. `MaxCalls`: one or two calls a task, so that a call can
follow a completed one. `Lapsing`, `Outdating`, `Ending`, `EndingAccts`: which tokens may run out or be
ended; restricted so that each run asks its own question. Three tasks are enough for each
two-party race to be seen by a third. In the limiter, gap 1, timeout 2, windows of 4, a pause of
2 or 4 and a clock of 6 keep the order of the real values (gap < timeout < window ≤ recovery
pause ≤ longest pause), with time for a window to fill, a pause to pass and a window to clear.
In `FileStore` two pairs make a comparison match or differ, and three callers put one writer
in the locked section, one in its object's queue and one in the file lock's queue. `SYMMETRY`
is used only for callers and tasks that the definitions treat alike, and in no liveness run.
In `PushFeed` a delay of 1 doubled up to 5 reaches its limit after three failures and is capped
there (4 doubled is not 5); an inbox of two lets a message wait behind another at the stop. In
`Puzzle` two puzzles let a slide follow a wrong slide and a failed fetch, and two notices a failure follow a
failure; one fault is one lost reply, one lost answer to the SMS or one unexpected error; polls do not act on
each other, so that one of them is read at a time (`MaxPolls`) leaves each free to straddle every change. In
`Charging` four-minute days make every minute a boundary, a week of two days has a selected and
another day, one and a half days let a window cross midnight after it was set, and the behaviour starts on a day late enough that no stamp reads as a time of the
day; the car and the app have more windows than a client can ask for. In `Equipment` five groups are told apart and
`MinGroups` is 5, as in the code: a list with no other groups is too small as soon as one is left out, one with five
others never; each group is fitted in one of the four cars and missing in another.
Each report of the body is damaged in one place.

**Deadlock** is checked for `FileStore` and `PushFeed`. The other runs stop when the calls they bound are over,
so there the check is off and progress is a property instead (`CallsEnd`, `SlotsEnd`, `ButtonReturns`);
`Charging` stops with its clock and `Equipment` has nothing that must happen.

**Fairness.** `FileStore`: strong for the next step of each running call, because `asyncio.Lock` queues its
waiters, a blocked `flock` is granted in turn, and a thread that can run does. A cancellation or a failing lock is
owed to nobody.
`TokenSession`: weak for the next step of each call; requests have a timeout, ready
coroutines are run, and with finitely many calls the polled gate is free continuously in the
end. `Limiter`: weak for each slot's next step and for the clock. The limiter's locks are polled,
so a steady stream of other slots could starve one; with finitely many slots weak fairness is
enough, and `SlotsEnd` claims no more. `CutShort` excuses a gap that the bound on the clock
cuts short. `PushFeed`: weak for the coroutine and for time: requests and connections have a
time limit, and the handler is expected to return; nothing is assumed of the broker. `Puzzle`: weak for
the submits and replies, the timers and the polls; an open page asks for the state again and again, which the bound
`MaxPolls` must not stop; nobody has to press Verify, and an end the server was shut down on is excused. `Charging` and `Equipment` have no liveness: nothing obliges a
car to answer.

## 4. Proofs

Proved by TLAPS for every value of the constants; the assumptions are `StoreAssumption`,
`TokenAssumption`, `LimiterAssumption`, `BudgetAssumption`, `PauseAssumption`, `PushAssumption`,
`BoundAssumption`, `PuzzleAssumption`, `WindowAssumption`, `ChargingAssumption`, `EquipmentAssumption`,
`BodyAssumption` and `ListAssumption`
(types, a lock's "nobody" is no task, "no puzzle" is no puzzle, gap ≤ recovery pause ≤ longest pause,
no bound below zero, a day of three minutes or more, a car has a level of each group). Six say more than
types. `BudgetAssumption`: no budget's window is longer than a recovery pause (both are a day at
most, `const.py:153-174`). `PauseAssumption`: a recovery pause is no
shorter than the longest pause; only `LimiterPauseKept` uses it. `BoundAssumption`:
failures are counted until the backoff has reached its limit, so the bound on the count hides no wait.
`ChargingAssumption` starts the clock on the seventh day, so that no stamp reads as a time of the day.
`BodyAssumption` and `ListAssumption` are about the service (section 2): the valid items of a report are true,
and its list does not contradict itself; without them there is nothing true to decode.

* `FileStoreInvariant`: `Spec => [](TypeOK /\ Inv)`, and `FileStoreTyped` from it. `NoLostUpdate` alone is not inductive: it
  needs that only the flock's holder is past the comparison (`FlockExclusive`), and a
  writer's step needs to know its operation (`RequestFits`). `WholeRecord` is what the
  refinement needs at the rename.
* `FileStoreImplementsRegister`: `Spec => Store!Spec`. `Rename` is the register's `Apply`,
  `SyncDirectory` its `Settle`; reads, comparisons that fail and errors are `Load`, `Decline`
  and `Fail`; all other steps leave the register unchanged.
* `LimiterOneAtATime`, `LimiterGapKept`. The gap holds because of an invariant about the
  *record*, not about what is out: a valid record, and the memory of a slot that has
  loaded it, make their reader wait long enough (`RecordCovers`): their last request is no
  earlier than the last real end, or they hold a pause that outlasts the gap, or the gap is over.
  That survives a crash and a failed final save because a request that is out has its latest
  possible end recorded (`Pending`), and a corrupt record because the recovery pause is at least
  the gap. `import_state` reads a future time as now, which is still no earlier than the real end.
* `LimiterPauseKept`. A pause is known to a process by its memory, by a valid record or, of unknown
  length, by a corrupt one. What makes this inductive is the slot between its load and its end: it is
  about to write the record for everybody, so its memory must hold the pauses of every process that
  has forgotten its own (`PausesKnown`). A corrupt record is made good because no pause is longer
  than the recovery pause (`PausesBounded`).
* `LimiterTyped`, `LimiterRecorded`, `LimiterBudgetKept`. A budget is kept because every request that was
  sent has a stamp of its own, no earlier than itself, in the record and in the memory of the slot
  that is about to decide (`SendsCounted`), or the record pauses until the request is out of every
  window: after a corrupt record, that is what the recovery pause is for. A slot sends once
  (`SendsOnce`), so the stamps of a window are at least as many as its requests (a fact about an injection
  between finite sets), and what `_over` counts is no less than what was sent. The windows that ended
  earlier stay as they were (`WindowsKept`).
* `TokenGateHeld`, `TokenChangingHeld`, `TokenOneRefresh`: the gate and the client's turn, over all
  35 actions. The strengthening is `JobFits`: only a read or a command reaches the gate, only a
  sign-in logs in.
* `TokenTyped`, over the same actions. An answer holds a pair or an account token by its kind
  (`AnswerFits`), and a call that saves something was answered with it (`WhyFits`): without the second
  the session built from an answer has no type.
* `TokenSavedBeforeUse`. The request itself is easy; what is not is a call that sends one without
  looking at the session again: one that repeats a rejected read, or goes on after a renewal whose
  account-token refresh failed. `SavedCall` says that by then its client's session is a saved one,
  and every session a client takes over was in the store before (`AllSaved`). All of it holds until
  a save fails, which is why `SavedBeforeUse` says so: the code then holds the pair in memory on purpose.
* `TokenDeadSendsNothing`, for a client that has its store to itself (`SoleClient`: one client, loaded,
  which neither loads nor signs in again, with any number of tasks; an integration that runs beside nothing
  else). The session it gives up is buried in the store first. Until then the saved session is
  alive, and so is what was read from it or is being built from it; afterwards the store is a
  tombstone (`Gone`), every refresh finds it there, and what is still being saved was built from it
  (`SoleCalls`). So no refresh is under way on a dead session (`RefreshAlive`), which is what sends
  requests. With a second client, or a sign-in, a dead session may come back to life while a refresh waits,
  so `RefreshAlive` is no longer inductive: nothing is claimed there.
* `TokenAccountKept`, `TokenRotatedKept`, `TokenSpentOnce`, for such a client as long as no save
  fails and no call is cancelled (and, for the last, no answer is lost). `SyncInv`: between two changes the
  client's session and base are the saved ones, so a save is never refused, and a call that holds the gate
  holds the pair it decided on. `AcctInv`: only the last account token issued can be accepted; if it was
  received it is the saved one or in the one call that is saving it, and no change of the vehicle pair
  writes over it, since that change starts from the session of its own turn. `PairInv`: a refresh gets
  beyond a pair only when the gateway does not accept it any more (`Failed`), so what a new pair, a
  renewal or a burial replaces in the store is never a live pair. `SpentInv`: a client whose session
  holds a spent pair has a call that carries its successor (`Rotated`), and that call holds the gate.
  Without these circumstances the statements are false: a sign-in elsewhere replaces an account token, a
  cancelled save drops a pair (`token_cancelled_save`), a second client spends a pair again
  (`token_spent_twice`). `RotatedPairKept` is also checked with two clients, in the circumstances of
  `token_shared`.
* `TokenSignInKept`, for any number of clients, tasks, failures, cancellations and lost answers, as long as
  they keep apart (`Apart`): a client that refreshes has loaded the session and is not signed in or loaded
  again, all that refresh are in one process, and a client that is signed in has one task; and as long as no account
  token runs out by itself (`Lasting`), which the service's do (`client.py:96-97`): without it the statement is
  false, and `TokenRenewalRefused.cfg` shows how. `token_shared` is such an instance. A save compares pairs, and
  lines of descent are what must not go back, so the invariant (`LineInv`) is that a pair tells its line:
  whatever a client, a call or the store holds, if it has the saved pair, it is of the saved line
  (`SavedLine`); and a pair on its way to the store is new to every session saved and every other call
  (`FreshPairs`). A tombstone has no pair and tells nothing. That no save compares against one is the gate's
  work: only the holder buries, and it has seen that the store has a pair (`RefreshKept`). A
  call builds on its client's own line (`BuildKept`), and an account token that was refused is not accepted
  later, so a renewal never comes to the point where it takes a newer sign-in for a refusal. Each circumstance is
  needed: a sign-in on the client that refreshes, or a call that adopts while another commits, is
  `token_same_client` and `TokenBaseRace.cfg`; and in a
  second process a burial saved meanwhile is a tombstone like the one a call compares against. The
  invariant was checked on the instance of `token_shared`, with a fault, a cancellation and a lost answer
  added, before it was proved.
* `PushFeedTyped`, `PushFeedStops`, `PushFeedKeeps`. `StopInv` is what makes "at most one message after a
  stop" inductive: nothing leads back into the pump once the feed is stopped, so while the feed is still
  in the pump no message has been taken since the stop. That a live connection ends only
  by a stop or a cancellation needs the type of what was received (each cause an item names is a
  cause) and nothing else: no content of a message is an exit of the pump.
* `PushFeedBackoff`. The delay is `FirstDelay` doubled once for every failure since a connection last held,
  cut at `MaxDelay`. The code cuts after each doubling, the property once at the end: that these agree for
  any delays (`WaitDoubles`), and that doubling never stops short of the limit, is proved with a
  recursive function.
* `PuzzleSmsOnce`, `PuzzleRejectedNotReused`, `PuzzleOneSubmit`. One submit at a time is the handover of
  the `busy` flag: it is held exactly while a submit is not over (`OneSubmit`). One SMS then needs
  that a submit past the check has the one reason to send (`SmsCounted`); a rejected puzzle is not
  checked again because `_need_new` stays set from the rejection until a new puzzle is in place
  (`Rejected`), with the two steps of `_new_puzzle` told apart.
* `PuzzleTyped`, `PuzzleSlideFits`. That a slide is checked against the puzzle it was drawn on is a matter of
  who may press: a tab that is used alone has at most one of an enabled button, a running timer, a `submit()` under
  way, or an attempt or notice it has not seen (`Rights`), so it cannot press on a puzzle that is being
  replaced, once it has shown one (no press is blind); and a poll that reads the session between the two steps of
  `_new_puzzle`, or between the two images, shows the new captcha only with the attempt that follows (`Fitting`).
* `ChargingTyped`, `ChargingNextOccurrence`, `ChargingStartsInTime`, `ChargingResumeFaithful`,
  `ChargingClocksAgree`: every property of the module, for any length of a day and a week. The search of
  `_next_window` is a function that looks a day further: it is proved to end, at the least day that
  fits (by the least counterexample, where induction would be used), and that day is the first of all starts
  a window is ordered for (`FirstStart`). `Remembered` is what makes a resumed window faithful: what the
  client keeps has the clocks, days, mode and end the car had when it was read, and each of the
  forms a window is reported in is read back as those clocks, except the one nobody can tell from "not set"
  (`Ambiguous`).
* `EquipmentTyped`, `EquipmentSupportSound`. Each kind of evidence is sound for itself: readings are of
  what is fitted or was reported though it is not, a confirmed command was done by a car that can, and a flag
  is there exactly if a list that counts has spoken of its group, and says what that list made of it: what the car
  can do, or wrongly nothing (`ReadingsTrue`, `CommandsTrue`, `FlagsTrue`). For a single list this is `FlaggedTrue`,
  by the manners in which it deals with a group; merging keeps what the new list does not speak of, as `told`
  does; restoring only drops evidence; and a result confirms the command it is polled for because `OrderTrue` ties
  a finished order to what the car did.
* `EquipmentDecodedTruth`. A report of any length is read by position: what is said of a door is true of the
  first item that has its number (`FirstPosition`); of the whole car something is said only if the four
  numbers are found, so no missing, repeated or misnumbered item reads as locked. Open is another matter:
  `any_open` (`models.py:466-472`) speaks of the items that are listed validly, so a door that is open but missing, or
  flagged, still reads as none open, and the theorem claims no more. A tyre or
  seat is read only if one item has its number (`OnlyOne`).
* `EquipmentOfferedOfAll`, and `EquipmentOfferedExactly` from it: of all whole values, not only those the run
  tries. A limit between two whole numbers is rounded inwards (`Inwards`), and minutes are compared in the
  seconds they are sent in; the library's own bounds are whole, so cutting at both loses no value. What is
  sent of a value is a fixed point of what is sent (`SentAccepted`).

Model-checked only: everything under fairness (`CallsReturn`, `CallsEnd`, `SlotsEnd`, `Ends`,
`ButtonReturns`: liveness and ENABLED are out of the proof system's reach); and `RotatedPairKept`
between two clients, which holds in the circumstances of its run.

## 5. Not modelled, and why

* Cryptography, signatures, keys, envelopes: functions of bytes. The TLS context of the feed: which
  certificates it accepts is the library's; that it is used at all is modelled (`Connect`).
* Request bodies and response parsing of the gateway: an answer is one of the outcomes the code
  distinguishes (tokens, spent, refused, failed).
* The two vehicle-session requests of `_establish_iov` are one: nothing is read or written
  between them. Limiter slots inside a request are part of the time a request is out.
* The limiter's hooks, warnings and `parse_retry_after`; platforms without `fcntl`; steps of the
  wall clock against the monotonic one.
* A second cancellation while a caller waits for its disk write.
* Pages of the sign-in answered 404 or 400, its texts and its HTML.
* Charge windows: a change of the zone's offset between two reports (the code reads the calendar
  fields against the stamps for this, `models.py:236-262`); the texts of `describe`; the refusal
  of arguments out of range.
* `restart_needed` (`models.py:149-166`), a comparison of three fields of one report; fields read without a
  condition; the names, paths, bodies and hints of the catalogue.
* The command line: it calls one client operation a run, in order, and prints.

Three things a reader of the source may stumble over, none of which a run calls wrong:

* `preserved_operation` (`vehicle.py`) says a saved window is "rebuilt in loop mode"; a dated one is sent back as a
  window for once, which is what the comment inside it says.
* A window "until the limit" has no end, so a late start is judged by its start alone: without the
  margin of half a minute that a window with an end is given.
* A window reported as 00:00 to 00:01 without any date is what the car reports for "not set", and is
  read as that.

## 6. Plan

Done, in this order: `SessionStore` and `FileStore` with their proofs, `TokenSession` with its runs
and the proofs of its locks and of what becomes of its tokens, `Limiter` with its runs and proofs,
`CommandResult` and `PushFeed` with their proofs, `Puzzle` with its proofs, `ChargeWindow` and `Charging`
with their proofs, `StatusReport`, `CommandValues` and `Equipment` with its proofs. Left:

1. Two limiters inside the client: the gate, two mutexes and two files as a lock order, and a
   reservation that runs out while its slot waits for the other limiter.
2. `TokenSession` in two processes, with the tombstone of one meeting the rotated pair of the other.
3. Proofs: `RotatedPairKept` of `TokenSession` beside sign-ins of other clients.
4. `Puzzle` with a captcha page that expires, and `restart_needed` of a status report.
