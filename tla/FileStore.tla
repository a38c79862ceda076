-------------------------------- MODULE FileStore --------------------------------
(***************************************************************************)
(* FileStore (session.py): a session kept in a JSON file that several store  *)
(* objects, in several processes, may share.                                 *)
(*                                                                          *)
(* A writer takes its store object's asyncio lock, then (on a worker thread)  *)
(* the exclusive flock on the sidecar .lock file, and under both reads and    *)
(* compares, writes a temporary file, renames it over the record and syncs    *)
(* the directory.  A reader takes no lock.  A process may die at any step:    *)
(* its locks are released; nothing reads the temporary file it leaves.        *)
(*                                                                          *)
(* Abstractions.  A missing file reads as an empty session (_load), so it is  *)
(* one of the values of file.  A caller cancelled once its thread has started *)
(* waits for the thread (_finish), so from there on cancellation changes      *)
(* nothing here.  A conditional write whose comparison cannot read the record *)
(* (current is None in _replace) goes on as a save: from there on the code    *)
(* is the same.  Platforms without fcntl are left out.                        *)
(***************************************************************************)
CONSTANTS
    Caller, Pair, Rest,
    Ops,                \* Ops[c]: the operations caller c calls
    Object, StoreOf,    \* StoreOf[c]: the FileStore object c calls
    Process, HomeOf,    \* HomeOf[o]: the process object o lives in
    NoOne               \* nobody holds the lock

ASSUME StoreAssumption ==
    /\ Ops \in [Caller -> SUBSET {"load", "save", "replace"}]
    /\ StoreOf \in [Caller -> Object]
    /\ HomeOf \in [Object -> Process]
    /\ NoOne \notin Caller

VARIABLES
    file,       \* what the path's directory entry holds
    readable,   \* FALSE when reading or decoding it fails
    survivors,  \* contents of the path a loss of power may leave
    temp,       \* temp[c]: c's temporary file
    turn,       \* turn[o]: the caller holding object o's asyncio lock (_lock)
    flock,      \* the caller whose thread holds the exclusive flock
    pc, arg, out

vars == <<file, readable, survivors, temp, turn, flock, pc, arg, out>>

\* How far a call of each step has got, for a caller that cannot see the steps.
StageOf(p) ==
    CASE p = "idle" -> "idle"
      [] p = "sync" -> "applied"
      [] p \in {"unlock", "leave"} -> "done"
      [] OTHER -> "called"

Store == INSTANCE SessionStore WITH
            saved <- file, stage <- [c \in Caller |-> StageOf(pc[c])]

Session == Store!Session
NoTemp == [state |-> "none"]
TempFile == {NoTemp} \cup [state : {"torn", "complete"}, session : Session]

Locked == {"compare", "make", "write", "rename", "sync", "unlock"}
Step == Locked \cup {"idle", "load", "turn", "flock", "leave"}

\* Every variable holds a value of its kind: the callers' steps and requests, the holders of
\* the turns and of the flock, the record and the temporary files (FileStore).
TypeOK ==
    /\ file \in Session
    /\ readable \in BOOLEAN
    /\ survivors \in SUBSET Session
    /\ temp \in [Caller -> TempFile]
    /\ turn \in [Object -> Caller \cup {NoOne}]
    /\ flock \in Caller \cup {NoOne}
    /\ pc \in [Caller -> Step]
    /\ arg \in [Caller -> Store!Request \cup {Store!NoRequest}]
    /\ out \in [Caller -> Store!Outcome]

Init ==
    /\ file \in Session
    /\ readable = TRUE
    /\ survivors = {file}
    /\ temp = [c \in Caller |-> NoTemp]
    /\ turn = [o \in Object |-> NoOne]
    /\ flock = NoOne
    /\ pc = [c \in Caller |-> "idle"]
    /\ arg = [c \in Caller |-> Store!NoRequest]
    /\ out = [c \in Caller |-> Store!Nothing]

Goto(c, from, to) == pc[c] = from /\ pc' = [pc EXCEPT ![c] = to]

\* Leave the locked work with outcome o.
Conclude(c, from, o) ==
    /\ Goto(c, from, "unlock")
    /\ out' = [out EXCEPT ![c] = o]
---------------------------------------------------------------------------------
Call(c) ==
    /\ \E a \in Store!Request :
        /\ a.op \in Ops[c]
        /\ Goto(c, "idle", IF a.op = "load" THEN "load" ELSE "turn")
        /\ arg' = [arg EXCEPT ![c] = a]
    /\ UNCHANGED <<file, readable, survivors, temp, turn, flock, out>>

\* A reader opens the path once: it sees one complete record, old or new.  What it cannot
\* read, for good or for a passing reason, it raises.
Load(c) ==
    /\ Goto(c, "load", "leave")
    /\ \/ readable /\ out' = [out EXCEPT ![c] = Store!Found(file)]
       \/ out' = [out EXCEPT ![c] = Store!Error]
    /\ UNCHANGED <<file, readable, survivors, temp, turn, flock, arg>>

TakeTurn(c) ==
    /\ turn[StoreOf[c]] = NoOne
    /\ Goto(c, "turn", "flock")
    /\ turn' = [turn EXCEPT ![StoreOf[c]] = c]
    /\ UNCHANGED <<file, readable, survivors, temp, flock, arg, out>>

\* Cancelled while it waits for its turn: nothing was started.
CancelWaiting(c) ==
    /\ Goto(c, "turn", "leave")
    /\ out' = [out EXCEPT ![c] = Store!Error]
    /\ UNCHANGED <<file, readable, survivors, temp, turn, flock, arg>>

\* Mutant of TakeFlock: the lock is not exclusive.
TakeFlockShared(c) ==
    /\ Goto(c, "flock", IF arg[c].op = "replace" THEN "compare" ELSE "make")
    /\ flock' = c
    /\ UNCHANGED <<file, readable, survivors, temp, turn, arg, out>>

TakeFlock(c) ==
    /\ flock = NoOne
    /\ Goto(c, "flock", IF arg[c].op = "replace" THEN "compare" ELSE "make")
    /\ flock' = c
    /\ UNCHANGED <<file, readable, survivors, temp, turn, arg, out>>

\* The directory or the .lock file cannot be made, or the lock is refused: the turn alone is held.
LockFails(c) ==
    /\ Goto(c, "flock", "leave")
    /\ out' = [out EXCEPT ![c] = Store!Error]
    /\ UNCHANGED <<file, readable, survivors, temp, turn, flock, arg>>

\* _replace: the current record is read and its pair compared.
Matches(c) == file.pair = arg[c].expected

Proceed(c) ==
    /\ Goto(c, "compare", "make")
    /\ readable /\ Matches(c)
    /\ UNCHANGED <<file, readable, survivors, temp, turn, flock, arg, out>>

Decline(c) ==
    /\ Conclude(c, "compare", Store!Found(file))
    /\ readable /\ ~Matches(c)
    /\ UNCHANGED <<file, readable, survivors, temp, turn, flock, arg>>

\* The record cannot be read, for good or for a passing reason: the write is unconditional.
ProceedUnread(c) ==
    /\ Goto(c, "compare", "make")
    /\ arg' = [arg EXCEPT ![c] = Store!Unconditional(@)]
    /\ UNCHANGED <<file, readable, survivors, temp, turn, flock, out>>

\* _save: a temporary file, written out and synced, then renamed over the record.
MakeTemp(c) ==
    /\ Goto(c, "make", "write")
    /\ temp' = [temp EXCEPT ![c] = [state |-> "torn", session |-> arg[c].session]]
    /\ UNCHANGED <<file, readable, survivors, turn, flock, arg, out>>

\* Mutant of WriteTemp: the session does not reach the temporary file.
WriteTempEmpty(c) ==
    /\ Goto(c, "write", "rename")
    /\ temp' = [temp EXCEPT ![c] = [state |-> "complete"]]
    /\ UNCHANGED <<file, readable, survivors, turn, flock, arg, out>>

WriteTemp(c) ==
    /\ Goto(c, "write", "rename")
    /\ temp' = [temp EXCEPT ![c].state = "complete"]
    /\ UNCHANGED <<file, readable, survivors, turn, flock, arg, out>>

Rename(c) ==
    /\ Goto(c, "rename", "sync")
    /\ file' = temp[c].session
    /\ readable' = (temp[c].state = "complete")
    /\ survivors' = survivors \cup {file'}
    /\ temp' = [temp EXCEPT ![c] = NoTemp]
    /\ UNCHANGED <<turn, flock, arg, out>>

\* Mutant of SyncDirectory: the save is reported as done without a sync.
SyncNothing(c) ==
    /\ Conclude(c, "sync", Store!Saved)
    /\ UNCHANGED <<file, readable, survivors, temp, turn, flock, arg>>

SyncDirectory(c) ==
    /\ Conclude(c, "sync", Store!Saved)
    /\ survivors' = {file}
    /\ UNCHANGED <<file, readable, temp, turn, flock, arg>>

\* A disk error at any step of the write: the temporary file is removed.
WriteFails(c) ==
    /\ \E step \in {"make", "write", "rename", "sync"} : Conclude(c, step, Store!Error)
    /\ temp' = [temp EXCEPT ![c] = NoTemp]
    /\ UNCHANGED <<file, readable, survivors, turn, flock, arg>>

Unlock(c) ==
    /\ Goto(c, "unlock", "leave")
    /\ flock' = NoOne
    /\ UNCHANGED <<file, readable, survivors, temp, turn, arg, out>>

\* Mutant of End: the object's asyncio lock stays held.
EndHolding(S) ==
    /\ pc' = [c \in Caller |-> IF c \in S THEN "idle" ELSE pc[c]]
    /\ arg' = [c \in Caller |-> IF c \in S THEN Store!NoRequest ELSE arg[c]]
    /\ out' = [c \in Caller |-> IF c \in S THEN Store!Nothing ELSE out[c]]
    /\ UNCHANGED turn

\* The calls of the callers in S are over: what they hold, they let go.
End(S) ==
    /\ pc' = [c \in Caller |-> IF c \in S THEN "idle" ELSE pc[c]]
    /\ arg' = [c \in Caller |-> IF c \in S THEN Store!NoRequest ELSE arg[c]]
    /\ out' = [c \in Caller |-> IF c \in S THEN Store!Nothing ELSE out[c]]
    /\ turn' = [o \in Object |-> IF turn[o] \in S THEN NoOne ELSE turn[o]]

\* The coroutine resumes, gives its turn back and returns or raises.
Leave(c) ==
    /\ pc[c] = "leave"
    /\ End({c})
    /\ UNCHANGED <<file, readable, survivors, temp, flock>>
---------------------------------------------------------------------------------
\* A process dies: its callers are gone, its locks are released by the system.
In(p) == {c \in Caller : HomeOf[StoreOf[c]] = p}

Perish(S) ==
    /\ End(S)
    /\ temp' = [c \in Caller |-> IF c \in S THEN NoTemp ELSE temp[c]]
    /\ flock' = IF flock \in S THEN NoOne ELSE flock

Crash(p) == Perish(In(p)) /\ UNCHANGED <<file, readable, survivors>>

PowerLoss ==
    /\ Perish(Caller)
    /\ file' \in survivors
    /\ survivors' = {file'}
    /\ UNCHANGED readable

Damage ==
    /\ readable
    /\ readable' = FALSE
    /\ UNCHANGED <<file, survivors, temp, turn, flock, pc, arg, out>>

Work(c) ==
    \/ Load(c) \/ TakeTurn(c) \/ TakeFlock(c)
    \/ Proceed(c) \/ Decline(c) \/ ProceedUnread(c)
    \/ MakeTemp(c) \/ WriteTemp(c) \/ Rename(c) \/ SyncDirectory(c) \/ WriteFails(c)
    \/ Unlock(c) \/ Leave(c)

Next ==
    \/ \E c \in Caller : Call(c) \/ CancelWaiting(c) \/ LockFails(c) \/ Work(c)
    \/ \E p \in Process : Crash(p)
    \/ PowerLoss
    \/ Damage

\* asyncio.Lock and flock serve waiters in turn, and a thread that can run does: a call that can
\* go on time and again does.  Nobody owes a caller a cancellation or a lock that fails.
Fairness == \A c \in Caller : SF_vars(Work(c))

Spec == Init /\ [][Next]_vars
FairSpec == Spec /\ Fairness
---------------------------------------------------------------------------------
\* The locked work of _locked is done by the one caller whose thread holds the flock.
FlockExclusive == \A c \in Caller : pc[c] \in Locked <=> flock = c

\* A conditional write that could read the record and passed its comparison still matches it
\* when it is renamed into place: no other writer's session is lost in between (_replace).
NoLostUpdate ==
    \A c \in Caller :
        pc[c] \in {"make", "write", "rename"} /\ arg[c].op = "replace" => Matches(c)

\* What is renamed over the record is the whole of the caller's session (_save).
WholeRecord ==
    \A c \in Caller :
        /\ pc[c] = "write" => temp[c] = [state |-> "torn", session |-> arg[c].session]
        /\ pc[c] = "rename" => temp[c] = [state |-> "complete", session |-> arg[c].session]

\* Which operation each step belongs to.
RequestFits ==
    \A c \in Caller :
        /\ pc[c] = "load" => arg[c].op = "load"
        /\ pc[c] = "compare" => arg[c].op = "replace"
        /\ pc[c] \in {"turn", "flock", "make", "write", "rename"} => arg[c].op \in {"save", "replace"}

\* Inductive: what the exclusive section keeps true while it runs.
Inv == FlockExclusive /\ NoLostUpdate /\ WholeRecord /\ RequestFits

\* Seen from its callers the file store is the one-step register of SessionStore,
\* whatever its steps interleave with and wherever a process dies.
ImplementsStore == Store!Spec

\* Every call of the store ends: no chain of turns and flocks blocks a caller for ever.
CallsReturn == \A c \in Caller : pc[c] # "idle" ~> pc[c] = "idle"
=================================================================================
