------------------------------ MODULE SessionStore ------------------------------
(***************************************************************************)
(* What a session store promises its callers (session.py, ConditionalStore  *)
(* and MemoryStore): one register, read and written in single steps, whose   *)
(* conditional write compares the stored credential pair and writes as one   *)
(* step.  A call may fail, its process may die, and after a write the system *)
(* may lose power; a write that was reported as done survives that.  A        *)
(* conditional write that finds the record unreadable, if only for a moment,  *)
(* counts it as the expected one and is unconditional from there on.          *)
(*                                                                          *)
(* A session is identified by its vehicle-session token pair                 *)
(* (credential_pair); the rest of its fields is opaque here.                 *)
(***************************************************************************)
CONSTANTS
    Caller,     \* the coroutines that call the store
    Pair,       \* vehicle-session token pairs, "no tokens" included
    Rest        \* the other fields of a session (account tokens, expired, ...)

VARIABLES
    saved,      \* the session a reader gets
    readable,   \* FALSE once the record can no longer be read
    survivors,  \* the sessions a loss of power may leave behind
    stage,      \* stage[c]: how far c's call has got
    arg,        \* arg[c]: the operation of c's call and its arguments
    out         \* out[c]: what c's call reports

storeVars == <<saved, readable, survivors, stage, arg, out>>

Session == [pair : Pair, rest : Rest]
Request == [op : {"load"}] \cup [op : {"save"}, session : Session]
              \cup [op : {"replace"}, expected : Pair, session : Session]
NoRequest == [op |-> "none"]
Outcome == [kind : {"none", "saved", "error"}] \cup [kind : {"session"}, session : Session]

Nothing == [kind |-> "none"]
Saved == [kind |-> "saved"]
Error == [kind |-> "error"]
Found(s) == [kind |-> "session", session |-> s]

Init ==
    /\ saved \in Session
    /\ readable = TRUE
    /\ survivors = {saved}
    /\ stage = [c \in Caller |-> "idle"]
    /\ arg = [c \in Caller |-> NoRequest]
    /\ out = [c \in Caller |-> Nothing]

Invoke(c) ==
    /\ stage[c] = "idle"
    /\ stage' = [stage EXCEPT ![c] = "called"]
    /\ \E a \in Request : arg' = [arg EXCEPT ![c] = a]
    /\ UNCHANGED <<saved, readable, survivors, out>>

Finish(c, o) ==
    /\ stage' = [stage EXCEPT ![c] = "done"]
    /\ out' = [out EXCEPT ![c] = o]

Load(c) ==
    /\ stage[c] = "called"
    /\ arg[c].op = "load"
    /\ readable
    /\ Finish(c, Found(saved))
    /\ UNCHANGED <<saved, readable, survivors, arg>>

Expected(c) == saved.pair = arg[c].expected

Unconditional(a) == [op |-> "save", session |-> a.session]

\* A record that cannot be read counts as the expected one.
Misread(c) ==
    /\ stage[c] = "called"
    /\ arg[c].op = "replace"
    /\ arg' = [arg EXCEPT ![c] = Unconditional(@)]
    /\ UNCHANGED <<saved, readable, survivors, stage, out>>

Apply(c) ==
    /\ stage[c] = "called"
    /\ \/ arg[c].op = "save"
       \/ arg[c].op = "replace" /\ Expected(c)
    /\ saved' = arg[c].session
    /\ readable' = TRUE
    /\ survivors' = survivors \cup {saved'}
    /\ stage' = [stage EXCEPT ![c] = "applied"]
    /\ UNCHANGED <<arg, out>>

Decline(c) ==
    /\ stage[c] = "called"
    /\ arg[c].op = "replace"
    /\ readable /\ ~Expected(c)
    /\ Finish(c, Found(saved))
    /\ UNCHANGED <<saved, readable, survivors, arg>>

Settle(c) ==
    /\ stage[c] = "applied"
    /\ survivors' = {saved}
    /\ Finish(c, Saved)
    /\ UNCHANGED <<saved, readable, arg>>

\* An error leaves the register as it is; it may follow the write itself.
Fail(c) ==
    /\ stage[c] \in {"called", "applied"}
    /\ Finish(c, Error)
    /\ UNCHANGED <<saved, readable, survivors, arg>>

\* The calls of the callers in S are over, answered or not.
End(S) ==
    /\ stage' = [c \in Caller |-> IF c \in S THEN "idle" ELSE stage[c]]
    /\ arg' = [c \in Caller |-> IF c \in S THEN NoRequest ELSE arg[c]]
    /\ out' = [c \in Caller |-> IF c \in S THEN Nothing ELSE out[c]]

Return(c) == stage[c] = "done" /\ End({c}) /\ UNCHANGED <<saved, readable, survivors>>

\* The processes of some callers die; what they wrote stays written.
Crash(S) == End(S) /\ UNCHANGED <<saved, readable, survivors>>

PowerLoss ==
    /\ End(Caller)
    /\ saved' \in survivors
    /\ survivors' = {saved'}
    /\ UNCHANGED readable

\* Something outside the library makes the record unreadable.
Damage ==
    /\ readable
    /\ readable' = FALSE
    /\ UNCHANGED <<saved, survivors, stage, arg, out>>

Next ==
    \/ \E c \in Caller : \/ Invoke(c) \/ Load(c) \/ Misread(c) \/ Apply(c) \/ Decline(c)
                         \/ Settle(c) \/ Fail(c) \/ Return(c)
    \/ \E S \in SUBSET Caller : Crash(S)
    \/ PowerLoss
    \/ Damage

Spec == Init /\ [][Next]_storeVars
=================================================================================
