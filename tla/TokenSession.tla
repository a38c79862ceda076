------------------------------- MODULE TokenSession -------------------------------
(***************************************************************************)
(* The life of a saved session (client.py): clients that share one session   *)
(* store refresh, renew, sign in, read, command and bury their sessions at    *)
(* the same time, against a gateway whose refresh tokens are single-use.      *)
(*                                                                          *)
(* A task is one call in progress on one client.  The code between two awaits *)
(* is one action, so every point where another coroutine can run is a step    *)
(* boundary.  A request is out from the action that builds it (its tokens are *)
(* read then) until a Service action answers it.                              *)
(*                                                                          *)
(* Abstractions.  A vehicle token pair, and an account token pair, is the     *)
(* number of its issue; 0 is None.  zeroed stands for expire_time = 0, written *)
(* by a rejected command; otherwise a pair's access time has run out once it  *)
(* is in lapsed, and its refresh time once it is in outdated.  The SSO          *)
(* exchange and the vehicle sign-in after it are one request: nothing is read   *)
(* or written between them.  The store is the                                   *)
(* register of SessionStore.  origin, in a session, numbers the sign-in its   *)
(* tokens descend from: a history field that no code reads.                   *)
(***************************************************************************)
EXTENDS Integers

CONSTANTS
    Client, Process, ProcessOf,     \* a process has one _REFRESH_GATE
    Task, ClientOf, Jobs,           \* Jobs[t]: the kinds of call task t makes
    Loaded,                         \* the clients that have loaded the session
    NoTask,                         \* a lock nobody holds
    \* Bounds of an instance, and what its environment may do.
    MaxPair, MaxAcct,               \* pairs the gateway and the account service issue
    MaxCalls,                       \* calls of each task
    MaxFaults, MaxCancels, MaxLost, \* store failures, cancellations, lost answers
    Lapsing, Outdating,             \* pairs whose access, or refresh, time may run out
    Ending,                         \* pairs that may be ended
    EndingAccts,                    \* account tokens that may be ended
    AccountLapse                    \* account tokens may run out (and then be refreshed)

ASSUME TokenAssumption ==
    /\ ProcessOf \in [Client -> Process]
    /\ ClientOf \in [Task -> Client]
    /\ Jobs \in [Task -> SUBSET {"load", "read", "command", "signin", "alarms"}]
    /\ Loaded \subseteq Client
    /\ NoTask \notin Task
    /\ {MaxPair, MaxAcct, MaxCalls, MaxFaults, MaxCancels, MaxLost} \subseteq Nat
    /\ MaxPair >= 1 /\ MaxAcct >= 1
    /\ AccountLapse \in BOOLEAN

VARIABLES
    store,      \* the saved session
    session,    \* session[c]: client c's own copy (_session)
    base,       \* base[c]: the saved pair as c last saw it (_base)
    authDead,   \* authDead[c]: a refresh failed for good (_auth_dead)
    deadPair,   \* deadPair[c]: the pair it failed with (_dead_refresh)
    gate,       \* gate[p]: the task holding process p's _REFRESH_GATE
    changing,   \* changing[c]: the task holding client c's _changing
    at,         \* at[t]: the step task t has reached
    job,        \* job[t]: the call task t is making
    loc,        \* loc[t]: the local variables of that call
    calls,      \* calls[t]: the calls task t has begun
    service,    \* the pairs issued, and those the gateway and the account service accept
    budget,     \* faults, cancellations and lost answers still allowed
    history     \* pairs spent, received and saved so far: read by properties only

clientVars == <<session, base, authDead, deadPair>>
taskVars == <<at, job, loc>>
vars == <<store, clientVars, gate, changing, taskVars, calls, service, budget, history>>

None == 0
NoBase == -1
Pairs == 0..MaxPair
Accts == 0..MaxAcct
Session == [pair : Pairs, acct : Accts, zeroed : BOOLEAN, expired : BOOLEAN, origin : Nat]
Empty == [pair |-> None, acct |-> None, zeroed |-> FALSE, expired |-> FALSE, origin |-> 0]
First == [Empty EXCEPT !.pair = 1, !.acct = 1]

Answer == [kind : {"none", "pair", "acct", "spent", "refused", "failed"}, value : Nat]
Answered(k, v) == [kind |-> k, value |-> v]

Locals ==
    [stale : Pairs,         \* the token a read was rejected with (stale_token)
     used : Pairs,          \* the token its request carries
     again : BOOLEAN,       \* the read is being repeated
     spend : Pairs,         \* the refresh token being spent, then the one that died
     root : Nat,            \* the origin of that token
     acct : Accts,          \* the account token its request carries
     acctRoot : Nat,        \* the origin of that token
     attempt : {0, 1},      \* of _renew_from_account
     after : {"none", "establish", "renew", "alarms"},  \* who refreshes the account token
     answer : Answer,
     why : {"none", "refresh", "bury", "mint", "account"},  \* what is being saved
     rec : Session,         \* what was loaded, is being saved, or was found saved instead
     expected : Pairs \cup {NoBase},
     outcome : {"none", "saved", "newer", "failed"},
     cancelled : BOOLEAN]

Blank == [stale |-> None, used |-> None, again |-> FALSE, spend |-> None, root |-> 0,
          acct |-> None, acctRoot |-> 0, attempt |-> 0, after |-> "none",
          answer |-> Answered("none", 0), why |-> "none", rec |-> Empty,
          expected |-> NoBase, outcome |-> "none", cancelled |-> FALSE]

\* Between taking the gate and the end of _refresh.
Refreshing == {"gated", "decide", "refreshing", "refreshed", "minting", "minted",
               "rotating", "rotated", "lock", "start", "write", "settle"}
Committing == {"start", "write", "settle"}
Step == Refreshing \cup {"idle", "loading", "install", "login", "loggedin", "gate",
                         "request", "rejected"}

Init ==
    /\ store = First
    /\ session = [c \in Client |-> IF c \in Loaded THEN First ELSE Empty]
    /\ base = [c \in Client |-> IF c \in Loaded THEN First.pair ELSE NoBase]
    /\ authDead = [c \in Client |-> FALSE]
    /\ deadPair = [c \in Client |-> None]
    /\ gate = [p \in Process |-> NoTask]
    /\ changing = [c \in Client |-> NoTask]
    /\ at = [t \in Task |-> "idle"]
    /\ job = [t \in Task |-> "none"]
    /\ loc = [t \in Task |-> Blank]
    /\ calls = [t \in Task |-> 0]
    /\ service = [pairs |-> 1, accts |-> 1, live |-> {1}, acctLive |-> {1},
                  lapsed |-> {}, outdated |-> {}]
    /\ history = [spent |-> {}, received |-> {}, accts |-> {}, saved |-> {1}]
    /\ budget = [faults |-> MaxFaults, cancels |-> MaxCancels, lost |-> MaxLost]
---------------------------------------------------------------------------------
Mine(t) == session[ClientOf[t]]
GateOf(t) == ProcessOf[ClientOf[t]]

\* Session.access_valid
AccessValid(s) == s.pair # None /\ ~s.zeroed /\ s.pair \notin service.lapsed

\* Session.refresh_valid
RefreshValid(s) == s.pair # None /\ s.pair \notin service.outdated

Go(t, from, to) == at[t] = from /\ at' = [at EXCEPT ![t] = to]
Keep(t, new) == loc' = [loc EXCEPT ![t] = new]
FreeGate(t) == gate' = [p \in Process |-> IF gate[p] = t THEN NoTask ELSE gate[p]]
\* Mutant of FreeChanging: the lock is not released.
KeepChanging(t) == UNCHANGED changing

FreeChanging(t) == changing' = [c \in Client |-> IF changing[c] = t THEN NoTask ELSE changing[c]]

\* Mutant of End: the gate is released on the normal way out only.
EndHolding(t) ==
    /\ at' = [at EXCEPT ![t] = "idle"]
    /\ job' = [job EXCEPT ![t] = "none"]
    /\ Keep(t, Blank)
    /\ UNCHANGED gate

\* The call returns or raises; what it holds is released on the way out.
End(t) ==
    /\ at' = [at EXCEPT ![t] = "idle"]
    /\ job' = [job EXCEPT ![t] = "none"]
    /\ Keep(t, Blank)
    /\ FreeGate(t)

\* A request of the vehicle gateway is built with the client's current token.
SendRequest(t, s, again) ==
    /\ at' = [at EXCEPT ![t] = "request"]
    /\ Keep(t, [Blank EXCEPT !.used = s.pair, !.again = again])
    /\ FreeGate(t)
    /\ UNCHANGED job

Install(c, s) ==
    /\ session' = [session EXCEPT ![c] = s]
    /\ base' = [base EXCEPT ![c] = s.pair]

\* Mutant of MarkDead: it forgets which pair died, and says that none was ever read.
MarkDeadUnread(c, dead, pair) ==
    /\ authDead' = [authDead EXCEPT ![c] = dead]
    /\ deadPair' = [deadPair EXCEPT ![c] = NoBase]

MarkDead(c, dead, pair) ==
    /\ authDead' = [authDead EXCEPT ![c] = dead]
    /\ deadPair' = [deadPair EXCEPT ![c] = pair]

\* A free _changing is taken at once, and a commit's task is queued behind what is ready to
\* run: until it has started, nothing that completes later is seen by any coroutine.
Quiet ==
    \A u \in Task :
        /\ at[u] # "start"
        /\ at[u] = "lock" => changing[ClientOf[u]] # NoTask

Begin(t, kind) ==
    /\ at[t] = "idle"
    /\ kind \in Jobs[t]
    /\ calls[t] < MaxCalls
    /\ calls' = [calls EXCEPT ![t] = @ + 1]
---------------------------------------------------------------------------------
\* load: one await, and the session is replaced by what was read.
BeginLoad(t) ==
    /\ Begin(t, "load")
    /\ Go(t, "idle", "loading")
    /\ job' = [job EXCEPT ![t] = "load"]
    /\ UNCHANGED <<store, clientVars, gate, changing, loc, service, budget, history>>

\* The store is read: by load, and by a refresh that holds the gate.
ReadStore(t) ==
    /\ Quiet
    /\ \/ Go(t, "loading", "install")
       \/ Go(t, "gated", "decide")
    /\ Keep(t, [loc[t] EXCEPT !.rec = store])
    /\ UNCHANGED <<store, clientVars, gate, changing, job, calls, service, budget, history>>

\* The store cannot be read: the call raises.
ReadFails(t) ==
    /\ Quiet
    /\ at[t] \in {"loading", "gated"}
    /\ budget.faults > 0
    /\ budget' = [budget EXCEPT !.faults = @ - 1]
    /\ End(t)
    /\ UNCHANGED <<store, clientVars, changing, calls, service, history>>

InstallLoaded(t) ==
    LET c == ClientOf[t]
        s == loc[t].rec
    IN  /\ at[t] = "install"
        /\ Install(c, s)
        /\ authDead' = [authDead EXCEPT ![c] = s.expired \/ (@ /\ s.pair = deadPair[c])]
        /\ End(t)
        /\ UNCHANGED <<store, deadPair, changing, calls, service, budget, history>>

\* _iov_read and _dispatch_command: _ensure_token, then the request.  On a client whose
\* session is dead the call raises at once and changes nothing.
BeginRequest(t) ==
    /\ \E kind \in {"read", "command"} :
        /\ Begin(t, kind)
        /\ job' = [job EXCEPT ![t] = kind]
    /\ ~authDead[ClientOf[t]]
    /\ IF AccessValid(Mine(t))
       THEN /\ Go(t, "idle", "request")
            /\ Keep(t, [Blank EXCEPT !.used = Mine(t).pair])
       ELSE Go(t, "idle", "gate") /\ UNCHANGED loc
    /\ UNCHANGED <<store, clientVars, gate, changing, service, budget, history>>

RequestAnswered(t) ==
    /\ Quiet
    /\ at[t] = "request"
    /\ End(t)
    /\ UNCHANGED <<store, clientVars, changing, calls, service, budget, history>>

\* The gateway answers ERR_TOKEN_INVALID: the token's pair was rotated or ended, or ran out.
ServiceRejects(t) ==
    /\ Quiet
    /\ Go(t, "request", "rejected")
    /\ loc[t].used \notin service.live \ service.lapsed
    /\ UNCHANGED <<store, clientVars, gate, changing, job, loc, calls, service, budget, history>>

\* A read refreshes and is repeated, once.
ReadRejected(t) ==
    /\ job[t] = "read"
    /\ \/ /\ ~loc[t].again
          /\ Go(t, "rejected", "gate")
          /\ Keep(t, [Blank EXCEPT !.stale = loc[t].used])
          /\ UNCHANGED <<gate, job>>
       \/ loc[t].again /\ at[t] = "rejected" /\ End(t)
    /\ UNCHANGED <<store, clientVars, changing, calls, service, budget, history>>

\* A command is never repeated; only a token still in use is marked for refreshing.
CommandRejected(t) ==
    LET c == ClientOf[t]
    IN  /\ at[t] = "rejected"
        /\ job[t] = "command"
        /\ session' = [session EXCEPT ![c].zeroed = @ \/ session[c].pair = loc[t].used]
        /\ End(t)
        /\ UNCHANGED <<store, base, authDead, deadPair, changing, calls, service, budget, history>>
---------------------------------------------------------------------------------
\* Mutant of TakeGate: a gate that is already held is taken.
TakeGateHeld(t) ==
    /\ ~authDead[ClientOf[t]]
    /\ Go(t, "gate", "gated")
    /\ gate' = [gate EXCEPT ![GateOf(t)] = t]
    /\ UNCHANGED <<store, clientVars, changing, job, loc, calls, service, budget, history>>

\* Mutant of TakeGate: _auth_dead is not looked at again once the gate is free.
TakeGateDead(t) ==
    /\ gate[GateOf(t)] = NoTask
    /\ Go(t, "gate", "gated")
    /\ gate' = [gate EXCEPT ![GateOf(t)] = t]
    /\ UNCHANGED <<store, clientVars, changing, job, loc, calls, service, budget, history>>

\* _refresh: one at a time in the process.
TakeGate(t) ==
    /\ gate[GateOf(t)] = NoTask
    /\ ~authDead[ClientOf[t]]
    /\ Go(t, "gate", "gated")
    /\ gate' = [gate EXCEPT ![GateOf(t)] = t]
    /\ UNCHANGED <<store, clientVars, changing, job, loc, calls, service, budget, history>>

GateFindsDead(t) ==
    /\ at[t] = "gate"
    /\ gate[GateOf(t)] = NoTask
    /\ authDead[ClientOf[t]]
    /\ End(t)
    /\ UNCHANGED <<store, clientVars, changing, calls, service, budget, history>>

\* What the stored session and this client's own say, in the order the code asks.
StoredDead(t) == loc[t].rec.expired /\ loc[t].rec.pair = None

StoredNewer(t) ==
    /\ ~StoredDead(t)
    /\ AccessValid(loc[t].rec)
    /\ loc[t].rec.pair # Mine(t).pair

NothingToDo(t) ==
    /\ ~StoredDead(t) /\ ~StoredNewer(t)
    /\ IF loc[t].stale = None THEN AccessValid(Mine(t)) ELSE Mine(t).pair # loc[t].stale

MustRefresh(t) == ~StoredDead(t) /\ ~StoredNewer(t) /\ ~NothingToDo(t)

FindDead(t) ==
    /\ at[t] = "decide"
    /\ StoredDead(t)
    /\ MarkDead(ClientOf[t], TRUE, Mine(t).pair)
    /\ End(t)
    /\ UNCHANGED <<store, session, base, changing, calls, service, budget, history>>

AdoptStored(t) ==
    /\ at[t] = "decide"
    /\ StoredNewer(t)
    /\ Install(ClientOf[t], loc[t].rec)
    /\ SendRequest(t, loc[t].rec, loc[t].stale # None)
    /\ UNCHANGED <<store, authDead, deadPair, changing, calls, service, budget, history>>

SkipRefresh(t) ==
    /\ at[t] = "decide"
    /\ NothingToDo(t)
    /\ SendRequest(t, Mine(t), loc[t].stale # None)
    /\ UNCHANGED <<store, clientVars, changing, calls, service, budget, history>>

SpendToken(t) ==
    /\ Go(t, "decide", "refreshing")
    /\ MustRefresh(t)
    /\ RefreshValid(Mine(t))
    /\ Keep(t, [loc[t] EXCEPT !.rec = Empty, !.spend = Mine(t).pair, !.root = Mine(t).origin])
    /\ UNCHANGED <<store, clientVars, gate, changing, job, calls, service, budget, history>>

\* The refresh failed for good: mint a new session from the account, or give this one up.
Bury(t, l) ==
    /\ at' = [at EXCEPT ![t] = "lock"]
    /\ Keep(t, [l EXCEPT !.why = "bury", !.spend = Mine(t).pair])

RenewOrBury(t, l) ==
    IF Mine(t).acct = None
    THEN Bury(t, l)
    ELSE /\ at' = [at EXCEPT ![t] = "minting"]
         /\ Keep(t, [l EXCEPT !.acct = Mine(t).acct, !.acctRoot = Mine(t).origin])

NoRefreshToken(t) ==
    /\ at[t] = "decide"
    /\ MustRefresh(t)
    /\ ~RefreshValid(Mine(t))
    /\ RenewOrBury(t, [loc[t] EXCEPT !.rec = Empty, !.root = Mine(t).origin])
    /\ UNCHANGED <<store, clientVars, gate, changing, job, calls, service, budget, history>>

RefreshAnswered(t) ==
    LET l == [loc[t] EXCEPT !.answer = Answered("none", 0)]
        n == loc[t].answer.value
    IN  /\ at[t] = "refreshed"
        /\ \/ /\ loc[t].answer.kind = "pair"
              /\ at' = [at EXCEPT ![t] = "lock"]
              /\ Keep(t, [loc[t] EXCEPT !.why = "refresh"])
              /\ history' = [history EXCEPT !.received = @ \cup {<<n, loc[t].root>>}]
              /\ UNCHANGED <<gate, job>>
           \/ /\ loc[t].answer.kind = "spent"
              /\ RenewOrBury(t, l)
              /\ UNCHANGED <<gate, job, history>>
           \/ /\ loc[t].answer.kind = "failed"
              /\ End(t)
              /\ UNCHANGED history
        /\ UNCHANGED <<store, clientVars, changing, calls, service, budget>>
---------------------------------------------------------------------------------
\* login_sms: the account token is set on the session in place, then exchanged.
BeginSignIn(t) ==
    /\ Begin(t, "signin")
    /\ Go(t, "idle", "login")
    /\ job' = [job EXCEPT ![t] = "signin"]
    /\ UNCHANGED <<store, clientVars, gate, changing, loc, service, budget, history>>

LoginAnswered(t) ==
    /\ at[t] = "loggedin"
    /\ \/ /\ loc[t].answer.kind = "acct"
          /\ session' = [session EXCEPT ![ClientOf[t]].acct = loc[t].answer.value]
          /\ at' = [at EXCEPT ![t] = "minting"]
          /\ Keep(t, [Blank EXCEPT !.acct = loc[t].answer.value])
          /\ UNCHANGED <<gate, job>>
       \/ loc[t].answer.kind = "failed" /\ End(t) /\ UNCHANGED session
    /\ UNCHANGED <<store, base, authDead, deadPair, changing, calls, service, budget, history>>

\* _refresh_account_token: the account tokens are read when the request is built.
RefreshAccount(t, l, who) ==
    /\ at' = [at EXCEPT ![t] = "rotating"]
    /\ Keep(t, [l EXCEPT !.acct = Mine(t).acct, !.after = who])

\* _establish_iov's answer: a new vehicle session, a refusal (LoginError) or no answer.
MintAnswered(t) ==
    LET c == ClientOf[t]
        l == [loc[t] EXCEPT !.answer = Answered("none", 0)]
    IN  /\ at[t] = "minted"
        /\ \/ /\ loc[t].answer.kind = "pair"
              /\ MarkDead(c, FALSE, None)
              /\ at' = [at EXCEPT ![t] = "lock"]
              /\ Keep(t, [loc[t] EXCEPT !.why = "mint"])
              /\ UNCHANGED <<gate, job>>
           \/ /\ loc[t].answer.kind = "refused"
              /\ job[t] # "signin"
              /\ IF loc[t].attempt = 0 THEN RefreshAccount(t, l, "renew") ELSE Bury(t, l)
              /\ UNCHANGED <<authDead, deadPair, gate, job>>
           \/ /\ \/ loc[t].answer.kind = "failed"
                 \/ loc[t].answer.kind = "refused" /\ job[t] = "signin"
              /\ End(t)
              /\ UNCHANGED <<authDead, deadPair>>
        /\ UNCHANGED <<store, session, base, changing, calls, service, budget, history>>

\* get_alarms: the account token had run out, so it is refreshed (_account_call).
BeginAlarms(t) ==
    /\ Begin(t, "alarms")
    /\ AccountLapse
    /\ Mine(t).acct # None
    /\ RefreshAccount(t, Blank, "alarms")
    /\ job' = [job EXCEPT ![t] = "alarms"]
    /\ UNCHANGED <<store, clientVars, gate, changing, service, budget, history>>

\* A vehicle session was established: a sign-in ends, a refresh returns to its request.
Established(t, s) ==
    IF job[t] = "signin" THEN End(t) ELSE SendRequest(t, s, loc[t].stale # None)

AccountAnswered(t) ==
    LET l == [loc[t] EXCEPT !.answer = Answered("none", 0)]
    IN  /\ at[t] = "rotated"
        /\ \/ /\ loc[t].answer.kind = "acct"
              /\ at' = [at EXCEPT ![t] = "lock"]
              /\ Keep(t, [loc[t] EXCEPT !.why = "account"])
              /\ history' = [history EXCEPT !.accts = @ \cup {loc[t].answer.value}]
              /\ UNCHANGED <<gate, job>>
           \/ /\ loc[t].answer.kind \in {"refused", "failed"}
              /\ loc[t].after = "establish"         \* _rotate_account_token: best effort
              /\ Established(t, Mine(t))
              /\ UNCHANGED history
           \/ /\ loc[t].answer.kind = "refused"
              /\ loc[t].after = "renew"
              /\ Bury(t, l)
              /\ UNCHANGED <<gate, job, history>>
           \/ /\ \/ loc[t].answer.kind = "failed" /\ loc[t].after = "renew"
                 \/ loc[t].answer.kind \in {"refused", "failed"} /\ loc[t].after = "alarms"
              /\ End(t)
              /\ UNCHANGED history
        /\ UNCHANGED <<store, clientVars, changing, calls, service, budget>>
---------------------------------------------------------------------------------
\* Mutant of Built: a refresh keeps the pair it has just spent.
BuiltOnOldPair(t, s) ==
    LET n == loc[t].answer.value
    IN  CASE loc[t].why = "refresh" -> [s EXCEPT !.zeroed = FALSE, !.origin = loc[t].root]
          [] loc[t].why = "mint" ->
                [s EXCEPT !.pair = n, !.zeroed = FALSE, !.expired = FALSE, !.origin = loc[t].acctRoot]
          [] loc[t].why = "account" -> [s EXCEPT !.acct = n]
          [] OTHER -> [s EXCEPT !.pair = None, !.zeroed = FALSE, !.expired = TRUE, !.origin = loc[t].root]

\* _change: wait for the client's turn, build the new session from the current one, save it.
Built(t, s) ==
    LET n == loc[t].answer.value
    IN  CASE loc[t].why = "refresh" ->
                [s EXCEPT !.pair = n, !.zeroed = FALSE, !.origin = loc[t].root]
          [] loc[t].why = "mint" ->
                [s EXCEPT !.pair = n, !.zeroed = FALSE, !.expired = FALSE, !.origin = loc[t].acctRoot]
          [] loc[t].why = "account" -> [s EXCEPT !.acct = n]
          [] OTHER -> [s EXCEPT !.pair = None, !.zeroed = FALSE, !.expired = TRUE, !.origin = loc[t].root]

SigningIn(t) == job[t] = "signin" /\ loc[t].why = "mint"

\* Mutant of TakeChanging: no lock, so overlapping changes build from the same session.
TakeChangingHeld(t) ==
    /\ Go(t, "lock", "start")
    /\ changing' = [changing EXCEPT ![ClientOf[t]] = t]
    /\ Keep(t, [loc[t] EXCEPT !.rec = Built(t, Mine(t))])
    /\ UNCHANGED <<store, clientVars, gate, job, calls, service, budget, history>>

\* Mutant of TakeChanging: the new session is installed before it is saved.
TakeChangingEarly(t) ==
    /\ changing[ClientOf[t]] = NoTask
    /\ Go(t, "lock", "start")
    /\ changing' = [changing EXCEPT ![ClientOf[t]] = t]
    /\ session' = [session EXCEPT ![ClientOf[t]] = Built(t, @)]
    /\ Keep(t, [loc[t] EXCEPT !.rec = Built(t, Mine(t))])
    /\ UNCHANGED <<store, base, authDead, deadPair, gate, job, calls, service, budget, history>>

TakeChanging(t) ==
    /\ changing[ClientOf[t]] = NoTask
    /\ Go(t, "lock", "start")
    /\ changing' = [changing EXCEPT ![ClientOf[t]] = t]
    /\ Keep(t, [loc[t] EXCEPT !.rec = Built(t, Mine(t))])
    /\ UNCHANGED <<store, clientVars, gate, job, calls, service, budget, history>>

\* Mutant of StartCommit: the save is unconditional.
StartUnconditional(t) ==
    /\ Go(t, "start", "write")
    /\ Keep(t, [loc[t] EXCEPT !.expected = NoBase])
    /\ UNCHANGED <<store, clientVars, gate, changing, job, calls, service, budget, history>>

\* _commit's task starts: it compares against the base of this moment, a sign-in against none.
StartCommit(t) ==
    /\ Go(t, "start", "write")
    /\ Keep(t, [loc[t] EXCEPT !.expected = IF SigningIn(t) THEN NoBase ELSE base[ClientOf[t]]])
    /\ UNCHANGED <<store, clientVars, gate, changing, job, calls, service, budget, history>>

\* The store's save or replace; a sign-in begins a new line of descent.
WriteStore(t) ==
    LET new == IF SigningIn(t) THEN [loc[t].rec EXCEPT !.origin = store.origin + 1] ELSE loc[t].rec
    IN  /\ Quiet
        /\ Go(t, "write", "settle")
        /\ \/ /\ loc[t].expected \in {NoBase, store.pair}
              /\ store' = new
              /\ history' = [history EXCEPT !.saved = @ \cup {new.pair}]
              /\ Keep(t, [loc[t] EXCEPT !.rec = new, !.outcome = "saved"])
           \/ /\ loc[t].expected \notin {NoBase, store.pair}
              /\ Keep(t, [loc[t] EXCEPT !.rec = store, !.outcome = "newer"])
              /\ UNCHANGED <<store, history>>
        /\ UNCHANGED <<clientVars, gate, changing, job, calls, service, budget>>

StoreFails(t) ==
    /\ Quiet
    /\ Go(t, "write", "settle")
    /\ budget.faults > 0
    /\ budget' = [budget EXCEPT !.faults = @ - 1]
    /\ Keep(t, [loc[t] EXCEPT !.outcome = "failed"])
    /\ UNCHANGED <<store, clientVars, gate, changing, job, calls, service, history>>

\* The session was given up, unless a sign-in was saved meanwhile and can be used.
Buried(t, s, ok) ==
    IF ok \/ s.expired THEN End(t) ELSE SendRequest(t, s, loc[t].stale # None)

\* The account token was refreshed, or a newer session found: each caller goes its way.
AccountRefreshed(t, s, ok, l) ==
    CASE loc[t].after = "establish" -> Established(t, s)
      [] loc[t].after = "renew" ->
            /\ IF ok
               THEN /\ at' = [at EXCEPT ![t] = "minting"]
                    /\ Keep(t, [l EXCEPT !.acct = s.acct, !.acctRoot = s.origin, !.attempt = 1])
               ELSE /\ at' = [at EXCEPT ![t] = "lock"]
                    /\ Keep(t, [l EXCEPT !.why = "bury", !.spend = s.pair])
            /\ UNCHANGED <<gate, job>>
      [] OTHER -> End(t)

\* _settle, and what the caller of _change does next.
AfterChange(t, s, ok) ==
    LET l == [loc[t] EXCEPT !.answer = Answered("none", 0), !.why = "none", !.rec = Empty,
                            !.expected = NoBase, !.outcome = "none", !.acct = None]
    IN  IF loc[t].cancelled THEN End(t)
        ELSE CASE loc[t].why = "refresh" -> SendRequest(t, s, loc[t].stale # None)
               [] loc[t].why = "bury" -> Buried(t, s, ok)
               [] loc[t].why = "mint" ->
                    IF ok /\ s.acct # None
                    THEN /\ at' = [at EXCEPT ![t] = "rotating"]
                         /\ Keep(t, [l EXCEPT !.acct = s.acct, !.after = "establish"])
                         /\ UNCHANGED <<gate, job>>
                    ELSE Established(t, s)
               [] OTHER -> AccountRefreshed(t, s, ok, l)

SettleSaved(t) ==
    LET c == ClientOf[t]
    IN  /\ at[t] = "settle"
        /\ loc[t].outcome = "saved"
        /\ Install(c, loc[t].rec)
        /\ IF loc[t].why = "bury" /\ ~loc[t].cancelled
           THEN MarkDead(c, TRUE, loc[t].spend)
           ELSE UNCHANGED <<authDead, deadPair>>
        /\ FreeChanging(t)
        /\ AfterChange(t, loc[t].rec, TRUE)
        /\ UNCHANGED <<store, calls, service, budget, history>>

SettleNewer(t) ==
    LET c == ClientOf[t]
        s == loc[t].rec
    IN  /\ at[t] = "settle"
        /\ loc[t].outcome = "newer"
        /\ Install(c, s)
        /\ IF loc[t].why = "bury" /\ s.expired /\ ~loc[t].cancelled
           THEN MarkDead(c, TRUE, loc[t].spend)
           ELSE MarkDead(c, s.expired, None)
        /\ FreeChanging(t)
        /\ AfterChange(t, s, FALSE)
        /\ UNCHANGED <<store, calls, service, budget, history>>

\* The save failed: a refresh holds the rotated pair in memory; a burial gives the session up.
SettleFailed(t) ==
    LET c == ClientOf[t]
    IN  /\ at[t] = "settle"
        /\ loc[t].outcome = "failed"
        /\ IF loc[t].why = "refresh"
           THEN session' = [session EXCEPT ![c] = Built(t, @)]
           ELSE UNCHANGED session
        /\ IF loc[t].why = "bury"
           THEN MarkDead(c, TRUE, loc[t].spend)
           ELSE UNCHANGED <<authDead, deadPair>>
        /\ FreeChanging(t)
        /\ End(t)
        /\ UNCHANGED <<store, base, calls, service, budget, history>>
---------------------------------------------------------------------------------
\* A caller is cancelled at an await.  A commit under way runs to its end first (_commit).
Cancel(t) ==
    /\ at[t] # "idle"
    /\ at[t] = "lock" => changing[ClientOf[t]] # NoTask
    /\ budget.cancels > 0
    /\ budget' = [budget EXCEPT !.cancels = @ - 1]
    /\ IF at[t] \in Committing
       THEN /\ ~loc[t].cancelled
            /\ Keep(t, [loc[t] EXCEPT !.cancelled = TRUE])
            /\ UNCHANGED <<gate, at, job>>
       ELSE End(t)
    /\ UNCHANGED <<store, clientVars, changing, calls, service, history>>

\* External: the answers of the gateway and of the account service.  An answer may be lost
\* after the service has acted, and a request may fail before it does.
Reply(t, from, to, kind, value) ==
    /\ Quiet
    /\ Go(t, from, to)
    /\ \/ /\ Keep(t, [loc[t] EXCEPT !.answer = Answered(kind, value)])
          /\ UNCHANGED budget
       \/ /\ budget.lost > 0
          /\ budget' = [budget EXCEPT !.lost = @ - 1]
          /\ Keep(t, [loc[t] EXCEPT !.answer = Answered("failed", 0)])

Refuse(t, from, to, kind) ==
    /\ Quiet
    /\ Go(t, from, to)
    /\ Keep(t, [loc[t] EXCEPT !.answer = Answered(kind, 0)])

Untouched == <<store, clientVars, gate, changing, job, calls>>

ServiceRefresh(t) ==
    LET n == service.pairs + 1
        spend == loc[t].spend
    IN  /\ \/ /\ spend \in service.live /\ n \in Pairs
              /\ Reply(t, "refreshing", "refreshed", "pair", n)
              /\ service' = [service EXCEPT !.pairs = n, !.live = (@ \ {spend}) \cup {n}]
              /\ history' = [history EXCEPT !.spent = @ \cup {spend}]
           \/ /\ spend \notin service.live
              /\ Refuse(t, "refreshing", "refreshed", "spent")
              /\ UNCHANGED <<service, budget, history>>
           \/ /\ Refuse(t, "refreshing", "refreshed", "failed")
              /\ UNCHANGED <<service, budget, history>>
        /\ UNCHANGED Untouched

ServiceMint(t) ==
    LET n == service.pairs + 1
    IN  /\ \/ /\ loc[t].acct \in service.acctLive /\ n \in Pairs
              /\ Reply(t, "minting", "minted", "pair", n)
              /\ service' = [service EXCEPT !.pairs = n, !.live = @ \cup {n}]
           \/ /\ loc[t].acct \notin service.acctLive \/ AccountLapse
              /\ Refuse(t, "minting", "minted", "refused")
              /\ UNCHANGED <<service, budget>>
           \/ /\ Refuse(t, "minting", "minted", "failed")
              /\ UNCHANGED <<service, budget>>
        /\ UNCHANGED <<Untouched, history>>

ServiceAccount(t) ==
    LET n == service.accts + 1
        acct == loc[t].acct
    IN  /\ \/ /\ acct \in service.acctLive /\ n \in Accts
              /\ Reply(t, "rotating", "rotated", "acct", n)
              /\ service' = [service EXCEPT !.accts = n, !.acctLive = (@ \ {acct}) \cup {n}]
           \/ /\ acct \notin service.acctLive
              /\ Refuse(t, "rotating", "rotated", "refused")
              /\ UNCHANGED <<service, budget>>
           \/ /\ Refuse(t, "rotating", "rotated", "failed")
              /\ UNCHANGED <<service, budget>>
        /\ UNCHANGED <<Untouched, history>>

ServiceLogin(t) ==
    LET n == service.accts + 1
    IN  /\ \/ /\ n \in Accts
              /\ Reply(t, "login", "loggedin", "acct", n)
              /\ service' = [service EXCEPT !.accts = n, !.acctLive = @ \cup {n}]
           \/ /\ Refuse(t, "login", "loggedin", "failed")
              /\ UNCHANGED <<service, budget>>
        /\ UNCHANGED <<Untouched, history>>

\* External: time passes, and a sign-in elsewhere ends a vehicle or an account session.
Elapse ==
    /\ \/ \E p \in Lapsing \cap (1..service.pairs) :
            /\ p \notin service.lapsed
            /\ service' = [service EXCEPT !.lapsed = @ \cup {p}]
       \/ \E p \in Outdating \cap service.lapsed :
            /\ p \notin service.outdated
            /\ service' = [service EXCEPT !.outdated = @ \cup {p}, !.live = @ \ {p}]
       \/ \E p \in Ending \cap service.live : service' = [service EXCEPT !.live = @ \ {p}]
       \/ \E a \in EndingAccts \cap service.acctLive :
            service' = [service EXCEPT !.acctLive = @ \ {a}]
    /\ UNCHANGED <<store, clientVars, gate, changing, taskVars, calls, budget, history>>

\* A step of a call that its coroutine, the event loop and the service will take in the end.
Advance(t) ==
    \/ ReadStore(t) \/ ReadFails(t) \/ InstallLoaded(t)
    \/ RequestAnswered(t) \/ ServiceRejects(t) \/ ReadRejected(t) \/ CommandRejected(t)
    \/ TakeGate(t) \/ GateFindsDead(t) \/ FindDead(t) \/ AdoptStored(t) \/ SkipRefresh(t)
    \/ SpendToken(t) \/ NoRefreshToken(t) \/ ServiceRefresh(t) \/ RefreshAnswered(t)
    \/ ServiceLogin(t) \/ LoginAnswered(t) \/ ServiceMint(t) \/ MintAnswered(t)
    \/ ServiceAccount(t) \/ AccountAnswered(t)
    \/ TakeChanging(t) \/ StartCommit(t) \/ WriteStore(t) \/ StoreFails(t)
    \/ SettleSaved(t) \/ SettleNewer(t) \/ SettleFailed(t)

BeginCall(t) == BeginLoad(t) \/ BeginRequest(t) \/ BeginSignIn(t) \/ BeginAlarms(t)

Next ==
    \/ \E t \in Task : BeginCall(t) \/ Advance(t) \/ Cancel(t)
    \/ Elapse

Spec == Init /\ [][Next]_vars

\* Every request is answered or times out, every coroutine that can run is run, and the gate
\* is polled: with finitely many calls, weak fairness of each call's next step is enough.
FairSpec == Spec /\ \A t \in Task : WF_vars(Advance(t))
---------------------------------------------------------------------------------
\* Every variable holds a value of its kind: the sessions saved and held, the calls' local
\* variables, the locks' holders and the service's tokens (GacClient.__init__, _refresh).
TypeOK ==
    /\ store \in Session
    /\ session \in [Client -> Session]
    /\ base \in [Client -> Pairs \cup {NoBase}]
    /\ authDead \in [Client -> BOOLEAN]
    /\ deadPair \in [Client -> Pairs]
    /\ gate \in [Process -> Task \cup {NoTask}]
    /\ changing \in [Client -> Task \cup {NoTask}]
    /\ at \in [Task -> Step]
    /\ job \in [Task -> {"none", "load", "read", "command", "signin", "alarms"}]
    /\ loc \in [Task -> Locals]
    /\ calls \in [Task -> 0..MaxCalls]
    /\ service \in [pairs : Pairs, accts : Accts, live : SUBSET Pairs, acctLive : SUBSET Accts,
                     lapsed : SUBSET Pairs, outdated : SUBSET Pairs]
    /\ budget \in [faults : 0..MaxFaults, cancels : 0..MaxCancels, lost : 0..MaxLost]

InRefresh(t) == at[t] \in Refreshing /\ job[t] \in {"read", "command"}

\* _REFRESH_GATE: whichever way a refresh goes (adopted, renewed, buried, failed, cancelled),
\* its task holds the process's gate from its first look at the store to its end, and not after.
GateHeld == \A t \in Task : InRefresh(t) <=> gate[GateOf(t)] = t

\* _changing: a session is built from the current one, saved and installed by one task at a time.
ChangingHeld == \A t \in Task : at[t] \in Committing <=> changing[ClientOf[t]] = t

\* One refresh at a time in the process, whatever clients its tasks are of (_REFRESH_GATE).
OneRefresh ==
    \A t, u \in Task : InRefresh(t) /\ InRefresh(u) /\ GateOf(t) = GateOf(u) => t = u

\* The module docstring: a refresh, renewal or account-token refresh never writes over a
\* sign-in saved meanwhile, nor does a session given up: the saved session's line of descent
\* is never replaced by an older one.
SignInKept == [][store'.origin >= store.origin]_store

\* The rotated pair is saved before anything uses it (session.py, _refresh), as long as no
\* save failed: after a failure the code says itself that the pair is held in memory only.
SavedBeforeUse ==
    budget.faults = MaxFaults => \A t \in Task : at[t] = "request" => loc[t].used \in history.saved

\* A rotated pair, whose predecessor the service has already spent, is never lost (_commit):
\* while the gateway accepts it, it is saved, held by a client or on its way to the store,
\* unless a later sign-in has replaced it.
RotatedPairKept ==
    \A r \in history.received :
        \/ r[1] \notin service.live
        \/ store.pair = r[1] \/ store.origin > r[2]
        \/ \E c \in Client : session[c].pair = r[1]
        \/ \E t \in Task : at[t] = "lock" /\ loc[t].answer = Answered("pair", r[1])
        \/ \E t \in Task : at[t] \in Committing /\ loc[t].rec.pair = r[1]

\* An account token that was refreshed is not dropped by a vehicle-token rotation that
\* overlaps its save (_change), as long as no save failed and no call was cancelled.
AccountTokenKept ==
    budget.faults = MaxFaults /\ budget.cancels = MaxCancels => \A a \in history.accts :
        \/ a \notin service.acctLive
        \/ store.acct = a
        \/ \E t \in Task : at[t] = "lock" /\ loc[t].answer = Answered("acct", a)
        \/ \E t \in Task : at[t] \in Committing /\ loc[t].rec.acct = a

\* The comment on _REFRESH_GATE: clients that share a session and a store never spend the same
\* single-use refresh token twice.  _refresh does not keep this between two clients of a store.
NeverSpentTwice == \A t \in Task : at[t] = "refreshing" => loc[t].spend \notin history.spent

\* What is left of it: until a save fails, a call is cancelled or an answer is lost, the calls of
\* a client alone with its store send no refresh token the gateway has already rotated (_refresh).
SpentOnce ==
    budget = [faults |-> MaxFaults, cancels |-> MaxCancels, lost |-> MaxLost] => NeverSpentTwice

\* A call of the vehicle gateway sends a request: its own, or one to refresh or renew its tokens.
Sending(t) == at[t] = "request" \/ (InRefresh(t) /\ at[t] \in {"refreshing", "minting", "rotating"})

\* _ensure_token and _refresh never send anything for a session that was given up: neither the
\* request itself nor a refresh or renewal, by a call that waited at the gate meanwhile either.
DeadSendsNothing ==
    [][\A t \in Task : at'[t] # at[t] /\ Sending(t)' => ~authDead'[ClientOf[t]]]_vars

\* Every call ends: no failure, refusal or cancellation leaves the gate or a client's turn taken
\* for good (_refresh, _change).
CallsEnd == \A t \in Task : at[t] # "idle" ~> at[t] = "idle"
=================================================================================
