---------------------------- MODULE TokenSessionProofs ----------------------------
(***************************************************************************)
(* The two locks and the types of a session's life, for any clients,          *)
(* processes, tasks and calls.                                               *)
(*                                                                          *)
(* First the gate of a refresh and the client's turn to change its session,    *)
(* over every way a call can go on, fail or be cancelled.  Then the types: an   *)
(* answer holds a pair or an account token by its kind, and what is being saved  *)
(* has the answer it needs (AnswerFits, WhyFits): without these a session built   *)
(* from an answer would have no type.                                         *)
(***************************************************************************)
EXTENDS TokenSession, TLAPS

Kinds == {"none", "load", "read", "command", "signin", "alarms"}

LockTypes ==
    /\ gate \in [Process -> Task \cup {NoTask}]
    /\ changing \in [Client -> Task \cup {NoTask}]
    /\ at \in [Task -> Step]
    /\ job \in [Task -> Kinds]

\* Only a read or a command waits for the gate and goes through it, only a sign-in logs in.
JobFits ==
    \A t \in Task :
        /\ at[t] \in {"gate", "gated", "decide", "refreshing", "refreshed"} => job[t] \in {"read", "command"}
        /\ at[t] \in {"login", "loggedin"} => job[t] = "signin"

LockInv == LockTypes /\ JobFits /\ GateHeld /\ ChangingHeld
-----------------------------------------------------------------------------------
\* Every step keeps the locks' invariant.
LEMMA LockStep == LockInv /\ [Next]_vars => LockInv'
<1> SUFFICES ASSUME LockInv, [Next]_vars PROVE LockInv'
    OBVIOUS
<1> USE TokenAssumption DEF LockInv, LockTypes, Kinds, JobFits, GateHeld, ChangingHeld, InRefresh, GateOf,
        Refreshing, Committing, Step, Go, End, FreeGate, Begin
<1>1. ASSUME NEW t \in Task, BeginLoad(t) PROVE LockInv'
    BY <1>1 DEF BeginLoad, clientVars, taskVars
<1>2. ASSUME NEW t \in Task, BeginRequest(t) PROVE LockInv'
    BY <1>2 DEF BeginRequest, clientVars, taskVars
<1>3. ASSUME NEW t \in Task, BeginSignIn(t) PROVE LockInv'
    BY <1>3 DEF BeginSignIn, clientVars, taskVars
<1>4. ASSUME NEW t \in Task, BeginAlarms(t) PROVE LockInv'
    BY <1>4 DEF BeginAlarms, RefreshAccount, clientVars, taskVars
<1>5. ASSUME NEW t \in Task, ReadStore(t) PROVE LockInv'
    BY <1>5 DEF ReadStore, clientVars, taskVars
<1>6. ASSUME NEW t \in Task, InstallLoaded(t) PROVE LockInv'
    BY <1>6 DEF InstallLoaded, clientVars, taskVars
<1>7. ASSUME NEW t \in Task, RequestAnswered(t) PROVE LockInv'
    BY <1>7 DEF RequestAnswered, clientVars, taskVars
<1>8. ASSUME NEW t \in Task, ServiceRejects(t) PROVE LockInv'
    BY <1>8 DEF ServiceRejects, clientVars, taskVars
<1>9. ASSUME NEW t \in Task, ReadRejected(t) PROVE LockInv'
    BY <1>9 DEF ReadRejected, clientVars, taskVars
<1>10. ASSUME NEW t \in Task, CommandRejected(t) PROVE LockInv'
    BY <1>10 DEF CommandRejected, clientVars, taskVars
<1>11. ASSUME NEW t \in Task, TakeGate(t) PROVE LockInv'
    BY <1>11 DEF TakeGate, clientVars, taskVars
<1>12. ASSUME NEW t \in Task, GateFindsDead(t) PROVE LockInv'
    BY <1>12 DEF GateFindsDead, clientVars, taskVars
<1>13. ASSUME NEW t \in Task, FindDead(t) PROVE LockInv'
    BY <1>13 DEF FindDead, clientVars, taskVars
<1>14. ASSUME NEW t \in Task, AdoptStored(t) PROVE LockInv'
    BY <1>14 DEF AdoptStored, SendRequest, clientVars, taskVars
<1>15. ASSUME NEW t \in Task, SkipRefresh(t) PROVE LockInv'
    BY <1>15 DEF SkipRefresh, SendRequest, clientVars, taskVars
<1>16. ASSUME NEW t \in Task, SpendToken(t) PROVE LockInv'
    BY <1>16 DEF SpendToken, clientVars, taskVars
<1>17. ASSUME NEW t \in Task, NoRefreshToken(t) PROVE LockInv'
    BY <1>17 DEF NoRefreshToken, RenewOrBury, Bury, clientVars, taskVars
<1>18. ASSUME NEW t \in Task, ServiceRefresh(t) PROVE LockInv'
    BY <1>18 DEF ServiceRefresh, Reply, Refuse, Untouched, clientVars, taskVars
<1>19. ASSUME NEW t \in Task, RefreshAnswered(t) PROVE LockInv'
    BY <1>19 DEF RefreshAnswered, RenewOrBury, Bury, clientVars, taskVars
<1>20. ASSUME NEW t \in Task, ServiceLogin(t) PROVE LockInv'
    BY <1>20 DEF ServiceLogin, Reply, Refuse, Untouched, clientVars, taskVars
<1>21. ASSUME NEW t \in Task, LoginAnswered(t) PROVE LockInv'
    BY <1>21 DEF LoginAnswered, clientVars, taskVars
<1>22. ASSUME NEW t \in Task, ServiceMint(t) PROVE LockInv'
    BY <1>22 DEF ServiceMint, Reply, Refuse, Untouched, clientVars, taskVars
<1>23. ASSUME NEW t \in Task, MintAnswered(t) PROVE LockInv'
    <2>1. at[t] = "minted" /\ UNCHANGED changing
        BY <1>23 DEF MintAnswered
    <2>2. CASE End(t)
        BY <2>1, <2>2
    <2>3. CASE /\ UNCHANGED <<gate, job>>
               /\ at' = [at EXCEPT ![t] = "lock"] \/ at' = [at EXCEPT ![t] = "rotating"]
        BY <2>1, <2>3
    <2> QED
        BY <1>23, <2>2, <2>3 DEF MintAnswered, RefreshAccount, Bury
<1>24. ASSUME NEW t \in Task, ServiceAccount(t) PROVE LockInv'
    BY <1>24 DEF ServiceAccount, Reply, Refuse, Untouched, clientVars, taskVars
<1>25. ASSUME NEW t \in Task, AccountAnswered(t) PROVE LockInv'
    BY <1>25 DEF AccountAnswered, Established, SendRequest, Bury, clientVars, taskVars
<1>26. ASSUME NEW t \in Task, TakeChanging(t) PROVE LockInv'
    BY <1>26 DEF TakeChanging, clientVars, taskVars
<1>27. ASSUME NEW t \in Task, StartCommit(t) PROVE LockInv'
    BY <1>27 DEF StartCommit, clientVars, taskVars
<1>28. ASSUME NEW t \in Task, WriteStore(t) PROVE LockInv'
    BY <1>28 DEF WriteStore, clientVars, taskVars
<1>29. ASSUME NEW t \in Task, StoreFails(t) PROVE LockInv'
    BY <1>29 DEF StoreFails, clientVars, taskVars
<1>30. ASSUME NEW t \in Task, SettleSaved(t) PROVE LockInv'
    BY <1>30 DEF SettleSaved, AfterChange, AccountRefreshed, Established, Buried, SendRequest, FreeChanging, clientVars, taskVars
<1>31. ASSUME NEW t \in Task, SettleNewer(t) PROVE LockInv'
    BY <1>31 DEF SettleNewer, AfterChange, AccountRefreshed, Established, Buried, SendRequest, FreeChanging, clientVars, taskVars
<1>32. ASSUME NEW t \in Task, SettleFailed(t) PROVE LockInv'
    BY <1>32 DEF SettleFailed, FreeChanging, clientVars, taskVars
<1>33. ASSUME NEW t \in Task, Cancel(t) PROVE LockInv'
    BY <1>33 DEF Cancel, clientVars, taskVars
<1>34. ASSUME Elapse PROVE LockInv'
    BY <1>34 DEF Elapse, clientVars, taskVars
<1>35. ASSUME NEW t \in Task, ReadFails(t) PROVE LockInv'
    BY <1>35 DEF ReadFails, clientVars, taskVars
<1>36. ASSUME UNCHANGED vars PROVE LockInv'
    BY <1>36 DEF vars, taskVars
<1> QED
    BY <1>1, <1>2, <1>3, <1>4, <1>5, <1>6, <1>7, <1>8, <1>9, <1>10, <1>11, <1>12, <1>13, <1>14, <1>15, <1>16, <1>17, <1>18, <1>19, <1>20, <1>21, <1>22, <1>23, <1>24, <1>25, <1>26, <1>27, <1>28, <1>29, <1>30, <1>31, <1>32, <1>33, <1>34, <1>35, <1>36
    DEF Next, BeginCall, Advance

\* No lock is held before the first call.
LEMMA LockInit == Init => LockInv
BY TokenAssumption DEF Init, LockInv, LockTypes, Kinds, JobFits, GateHeld, ChangingHeld, InRefresh, GateOf,
   Refreshing, Committing, Step

\* For any clients, tasks and processes: however a refresh goes, its task holds the process's
\* gate from its first look at the store to its end, and not after (_refresh).
THEOREM TokenGateHeld == Spec => []GateHeld
<1>1. LockInv => GateHeld
    BY DEF LockInv
<1> QED
    BY <1>1, LockInit, LockStep, PTL DEF Spec

\* For any clients and tasks: a session is built, saved and installed by one task at a time,
\* cancelled or not (_change, _commit).
THEOREM TokenChangingHeld == Spec => []ChangingHeld
<1>1. LockInv => ChangingHeld
    BY DEF LockInv
<1> QED
    BY <1>1, LockInit, LockStep, PTL DEF Spec

\* For any clients and processes: two tasks of one process never refresh at once.
THEOREM TokenOneRefresh == Spec => []OneRefresh
<1>1. GateHeld => OneRefresh
    BY DEF GateHeld, OneRefresh
<1> QED
    BY <1>1, TokenGateHeld, PTL
-----------------------------------------------------------------------------------
Changing == {"lock"} \cup Committing

\* The value of an answer is of its kind.
AnswerFits(l) ==
    /\ l.answer.kind = "pair" => l.answer.value \in Pairs
    /\ l.answer.kind = "acct" => l.answer.value \in Accts

\* A call that saves a rotated or minted pair, or an account token, was answered with it.
WhyFits(l) ==
    /\ l.why \in {"refresh", "mint"} => l.answer.kind = "pair"
    /\ l.why = "account" => l.answer.kind = "acct"

\* The part of the state that belongs to the calls.
CallTypes ==
    /\ gate \in [Process -> Task \cup {NoTask}]
    /\ at \in [Task -> Step]
    /\ job \in [Task -> Kinds]
    /\ loc \in [Task -> Locals]
    /\ \A t \in Task : AnswerFits(loc[t]) /\ (at[t] \in Changing => WhyFits(loc[t]))

\* The part that belongs to the store, the clients and the services.
StoreTypes ==
    /\ store \in Session
    /\ session \in [Client -> Session]
    /\ base \in [Client -> Pairs \cup {NoBase}]
    /\ authDead \in [Client -> BOOLEAN]
    /\ deadPair \in [Client -> Pairs]
    /\ changing \in [Client -> Task \cup {NoTask}]
    /\ calls \in [Task -> 0..MaxCalls]
    /\ service \in [pairs : Pairs, accts : Accts, live : SUBSET Pairs, acctLive : SUBSET Accts,
                     lapsed : SUBSET Pairs, outdated : SUBSET Pairs]
    /\ budget \in [faults : 0..MaxFaults, cancels : 0..MaxCancels, lost : 0..MaxLost]

TypeInv == CallTypes /\ StoreTypes
------------------------------------------------------------------------------------
\* The locals of a new call.
LEMMA BlankTyped == Blank \in Locals /\ AnswerFits(Blank)
BY TokenAssumption DEF Blank, Locals, AnswerFits, Answered, Answer, Pairs, Accts, Session, Empty, None, NoBase

\* A call that goes on with locals of the right type keeps the calls' types.
LEMMA MoveTyped ==
    ASSUME CallTypes, NEW t \in Task, NEW step \in Step, NEW l \in Locals, AnswerFits(l),
           step \in Changing => WhyFits(l),
           at' = [at EXCEPT ![t] = step], Keep(t, l),
           gate' \in [Process -> Task \cup {NoTask}], job' \in [Task -> Kinds]
    PROVE  CallTypes'
<1>1. at' \in [Task -> Step] /\ loc' \in [Task -> Locals]
    BY DEF CallTypes, Keep
<1>2. \A u \in Task : AnswerFits(loc'[u]) /\ (at'[u] \in Changing => WhyFits(loc'[u]))
    <2> SUFFICES ASSUME NEW u \in Task PROVE AnswerFits(loc'[u]) /\ (at'[u] \in Changing => WhyFits(loc'[u]))
        OBVIOUS
    <2>1. CASE u = t
        BY <2>1 DEF CallTypes, Keep
    <2>2. CASE u # t
        BY <2>2 DEF CallTypes, Keep
    <2> QED
        BY <2>1, <2>2
<1> QED
    BY <1>1, <1>2 DEF CallTypes, AnswerFits, WhyFits

\* A call that ends keeps the calls' types.
LEMMA EndTyped ==
    ASSUME CallTypes, NEW t \in Task, End(t)
    PROVE  CallTypes'
<1>1. gate' \in [Process -> Task \cup {NoTask}] /\ job' \in [Task -> Kinds]
    BY DEF CallTypes, End, FreeGate, Kinds
<1>2. at' = [at EXCEPT ![t] = "idle"] /\ Keep(t, Blank)
    BY DEF End
<1>3. "idle" \in Step /\ "idle" \notin Changing
    BY DEF Step, Changing, Committing
<1> QED
    BY <1>1, <1>2, <1>3, BlankTyped, MoveTyped

\* A request that is sent keeps the calls' types.
LEMMA SendTyped ==
    ASSUME CallTypes, NEW t \in Task, NEW s \in Session, NEW again \in BOOLEAN, SendRequest(t, s, again)
    PROVE  CallTypes'
<1> DEFINE l == [Blank EXCEPT !.used = s.pair, !.again = again]
<1>1. gate' \in [Process -> Task \cup {NoTask}] /\ job' \in [Task -> Kinds]
    BY DEF CallTypes, SendRequest, FreeGate
<1>2. at' = [at EXCEPT ![t] = "request"] /\ Keep(t, l)
    BY DEF SendRequest
<1>3. "request" \in Step /\ "request" \notin Changing
    BY DEF Step, Changing, Committing
<1>4. l \in Locals /\ AnswerFits(l)
    <2>1. s.pair \in Pairs
        BY DEF Session
    <2> QED
        BY <2>1, BlankTyped DEF Locals, AnswerFits
<1> QED
    BY <1>1, <1>2, <1>3, <1>4, MoveTyped

\* A session that is given up: what is saved needs no answer.
LEMMA BuryTyped ==
    ASSUME CallTypes, NEW t \in Task, NEW l \in Locals, AnswerFits(l), Mine(t) \in Session,
           Bury(t, l), UNCHANGED <<gate, job>>
    PROVE  CallTypes'
<1> DEFINE m == [l EXCEPT !.why = "bury", !.spend = Mine(t).pair]
<1>1. at' = [at EXCEPT ![t] = "lock"] /\ Keep(t, m)
    BY DEF Bury
<1>2. "lock" \in Step
    BY DEF Step, Refreshing
<1>3. m \in Locals /\ AnswerFits(m) /\ WhyFits(m)
    <2>1. Mine(t).pair \in Pairs
        BY DEF Session
    <2> QED
        BY <2>1 DEF Locals, AnswerFits, WhyFits
<1>4. gate' \in [Process -> Task \cup {NoTask}] /\ job' \in [Task -> Kinds]
    BY DEF CallTypes
<1> QED
    BY <1>1, <1>2, <1>3, <1>4, MoveTyped

\* So does a renewal, whose request carries the account token.
LEMMA RenewTyped ==
    ASSUME CallTypes, NEW t \in Task, NEW l \in Locals, AnswerFits(l), Mine(t) \in Session,
           RenewOrBury(t, l), UNCHANGED <<gate, job>>
    PROVE  CallTypes'
<1>1. CASE Mine(t).acct = None
    BY <1>1, BuryTyped DEF RenewOrBury
<1>2. CASE Mine(t).acct # None
    <2> DEFINE m == [l EXCEPT !.acct = Mine(t).acct, !.acctRoot = Mine(t).origin]
    <2>1. at' = [at EXCEPT ![t] = "minting"] /\ Keep(t, m)
        BY <1>2 DEF RenewOrBury
    <2>2. "minting" \in Step /\ "minting" \notin Changing
        BY DEF Step, Refreshing, Changing, Committing
    <2>3. m \in Locals /\ AnswerFits(m)
        <3>1. Mine(t).acct \in Accts /\ Mine(t).origin \in Nat
            BY DEF Session
        <3> QED
            BY <3>1 DEF Locals, AnswerFits
    <2>4. gate' \in [Process -> Task \cup {NoTask}] /\ job' \in [Task -> Kinds]
        BY DEF CallTypes
    <2> QED
        BY <2>1, <2>2, <2>3, <2>4, MoveTyped
<1> QED
    BY <1>1, <1>2

\* And a refresh of the account token.
LEMMA RotateTyped ==
    ASSUME CallTypes, NEW t \in Task, NEW l \in Locals, AnswerFits(l), Mine(t) \in Session,
           NEW who \in {"establish", "renew", "alarms"},
           RefreshAccount(t, l, who), UNCHANGED gate, job' \in [Task -> Kinds]
    PROVE  CallTypes'
<1> DEFINE m == [l EXCEPT !.acct = Mine(t).acct, !.after = who]
<1>1. at' = [at EXCEPT ![t] = "rotating"] /\ Keep(t, m)
    BY DEF RefreshAccount
<1>2. "rotating" \in Step /\ "rotating" \notin Changing
    BY DEF Step, Refreshing, Changing, Committing
<1>3. m \in Locals /\ AnswerFits(m)
    <2>1. Mine(t).acct \in Accts
        BY DEF Session
    <2> QED
        BY <2>1 DEF Locals, AnswerFits
<1>4. gate' \in [Process -> Task \cup {NoTask}]
    BY DEF CallTypes
<1> QED
    BY <1>1, <1>2, <1>3, <1>4, MoveTyped

\* A new vehicle session leads on to the request, or ends a sign-in.
LEMMA EstablishedTyped ==
    ASSUME CallTypes, NEW t \in Task, NEW s \in Session, Established(t, s)
    PROVE  CallTypes'
BY EndTyped, SendTyped DEF Established

\* What is built to be saved is a session.
LEMMA BuiltTyped ==
    ASSUME NEW t \in Task, NEW s \in Session, loc[t] \in Locals, AnswerFits(loc[t]), WhyFits(loc[t])
    PROVE  Built(t, s) \in Session
<1>1. loc[t].root \in Nat /\ loc[t].acctRoot \in Nat /\ None \in Pairs
    BY TokenAssumption DEF Locals, None, Pairs
<1>2. CASE loc[t].why \in {"refresh", "mint"}
    <2>1. loc[t].answer.value \in Pairs
        BY <1>2 DEF AnswerFits, WhyFits
    <2> QED
        BY <1>1, <1>2, <2>1 DEF Built, Session
<1>3. CASE loc[t].why = "account"
    <2>1. loc[t].answer.value \in Accts
        BY <1>3 DEF AnswerFits, WhyFits
    <2> QED
        BY <1>1, <1>3, <2>1 DEF Built, Session
<1>4. CASE loc[t].why \notin {"refresh", "mint", "account"}
    BY <1>1, <1>4 DEF Built, Session
<1> QED
    BY <1>2, <1>3, <1>4

\* Whatever follows a change keeps the calls' types.
LEMMA AfterTyped ==
    ASSUME CallTypes, NEW t \in Task, NEW s \in Session, NEW ok \in BOOLEAN, AfterChange(t, s, ok)
    PROVE  CallTypes'
<1> DEFINE l == [loc[t] EXCEPT !.answer = Answered("none", 0), !.why = "none", !.rec = Empty,
                               !.expected = NoBase, !.outcome = "none", !.acct = None]
<1>1. l \in Locals /\ AnswerFits(l)
    <2>1. Answered("none", 0) \in Answer /\ Empty \in Session /\ None \in Accts
        BY TokenAssumption DEF Answered, Answer, Empty, Session, None, Pairs, Accts
    <2>2. loc[t] \in Locals
        BY DEF CallTypes
    <2> QED
        BY <2>1, <2>2 DEF Locals, AnswerFits, Answered
<1>2. s.pair \in Pairs /\ s.acct \in Accts /\ s.origin \in Nat
    BY DEF Session
<1>3. {"rotating", "minting", "lock"} \subseteq Step /\ "rotating" \notin Changing /\ "minting" \notin Changing
    BY DEF Step, Refreshing, Changing, Committing
<1>4. CASE End(t) \/ Established(t, s) \/ SendRequest(t, s, loc[t].stale # None)
    BY <1>4, EndTyped, EstablishedTyped, SendTyped
<1>5. CASE AccountRefreshed(t, s, ok, l)
    <2>1. CASE End(t) \/ Established(t, s)
        BY <2>1, EndTyped, EstablishedTyped
    <2>2. CASE /\ at' = [at EXCEPT ![t] = "minting"]
               /\ Keep(t, [l EXCEPT !.acct = s.acct, !.acctRoot = s.origin, !.attempt = 1])
               /\ UNCHANGED <<gate, job>>
        <3> DEFINE m == [l EXCEPT !.acct = s.acct, !.acctRoot = s.origin, !.attempt = 1]
        <3>1. m \in Locals /\ AnswerFits(m)
            BY <1>1, <1>2 DEF Locals, AnswerFits
        <3>2. gate' \in [Process -> Task \cup {NoTask}] /\ job' \in [Task -> Kinds]
            BY <2>2 DEF CallTypes
        <3> QED
            BY <1>3, <2>2, <3>1, <3>2, MoveTyped
    <2>3. CASE /\ at' = [at EXCEPT ![t] = "lock"]
               /\ Keep(t, [l EXCEPT !.why = "bury", !.spend = s.pair])
               /\ UNCHANGED <<gate, job>>
        <3> DEFINE m == [l EXCEPT !.why = "bury", !.spend = s.pair]
        <3>1. m \in Locals /\ AnswerFits(m) /\ WhyFits(m)
            BY <1>1, <1>2 DEF Locals, AnswerFits, WhyFits
        <3>2. gate' \in [Process -> Task \cup {NoTask}] /\ job' \in [Task -> Kinds]
            BY <2>3 DEF CallTypes
        <3> QED
            BY <1>3, <2>3, <3>1, <3>2, MoveTyped
    <2> HIDE DEF l
    <2> QED
        BY <1>5, <2>1, <2>2, <2>3 DEF AccountRefreshed
<1>6. CASE /\ at' = [at EXCEPT ![t] = "rotating"]
           /\ Keep(t, [l EXCEPT !.acct = s.acct, !.after = "establish"])
           /\ UNCHANGED <<gate, job>>
    <2> DEFINE m == [l EXCEPT !.acct = s.acct, !.after = "establish"]
    <2>1. m \in Locals /\ AnswerFits(m)
        BY <1>1, <1>2 DEF Locals, AnswerFits
    <2>2. gate' \in [Process -> Task \cup {NoTask}] /\ job' \in [Task -> Kinds]
        BY <1>6 DEF CallTypes
    <2> QED
        BY <1>3, <1>6, <2>1, <2>2, MoveTyped
<1> QED
    BY <1>4, <1>5, <1>6 DEF AfterChange, Buried
------------------------------------------------------------------------------------
\* The answers of the services keep the calls' types.
LEMMA ReplyTyped ==
    ASSUME CallTypes, NEW t \in Task, NEW from, NEW to \in Step \ Changing, NEW kind, NEW value,
           Answered(kind, value) \in Answer,
           kind = "pair" => value \in Pairs, kind = "acct" => value \in Accts,
           Reply(t, from, to, kind, value) \/ Refuse(t, from, to, kind), UNCHANGED <<gate, job>>
    PROVE  CallTypes'
<1>1. PICK a \in {Answered(kind, value), Answered("failed", 0), Answered(kind, 0)} :
          at' = [at EXCEPT ![t] = to] /\ Keep(t, [loc[t] EXCEPT !.answer = a])
    BY DEF Reply, Refuse, Go
<1> DEFINE m == [loc[t] EXCEPT !.answer = a]
<1>2. a \in Answer /\ (a.kind = "pair" => a.value \in Pairs) /\ (a.kind = "acct" => a.value \in Accts)
    BY TokenAssumption DEF Answered, Answer, Pairs, Accts
<1>3. m \in Locals /\ AnswerFits(m)
    BY <1>2 DEF CallTypes, Locals, AnswerFits
<1>4. gate' \in [Process -> Task \cup {NoTask}] /\ job' \in [Task -> Kinds]
    BY DEF CallTypes
<1> QED
    BY <1>1, <1>3, <1>4, MoveTyped

\* A pair or an account token that is issued, and what it replaces, keep the service's type.
LEMMA IssueTyped ==
    ASSUME service \in [pairs : Pairs, accts : Accts, live : SUBSET Pairs, acctLive : SUBSET Accts,
                         lapsed : SUBSET Pairs, outdated : SUBSET Pairs],
           NEW p \in Pairs, NEW gone
    PROVE  [service EXCEPT !.pairs = p, !.live = (@ \ gone) \cup {p}] \in
               [pairs : Pairs, accts : Accts, live : SUBSET Pairs, acctLive : SUBSET Accts,
                lapsed : SUBSET Pairs, outdated : SUBSET Pairs]
<1>1. (service.live \ gone) \cup {p} \in SUBSET Pairs
    OBVIOUS
<1> QED
    BY <1>1

\* A step that leaves a call's locals alone keeps the calls' types.
LEMMA StayTyped ==
    ASSUME CallTypes, NEW t \in Task, NEW step \in Step \ Changing,
           at' = [at EXCEPT ![t] = step], UNCHANGED loc,
           gate' \in [Process -> Task \cup {NoTask}], job' \in [Task -> Kinds]
    PROVE  CallTypes'
<1>1. Keep(t, loc[t]) /\ loc[t] \in Locals /\ AnswerFits(loc[t])
    BY DEF CallTypes, Keep
<1> QED
    BY <1>1, MoveTyped

\* The types at first.
LEMMA TypeInit == Init => TypeInv
<1>1. First \in Session /\ Empty \in Session
    <2>1. 1 \in Pairs /\ 1 \in Accts /\ 0 \in Pairs /\ 0 \in Accts
        BY TokenAssumption DEF Pairs, Accts
    <2>2. Empty \in Session
        BY <2>1 DEF Empty, Session, None
    <2> QED
        BY <2>1, <2>2 DEF First, Session
<1>2. First.pair = 1
    BY DEF First, Empty
<1>3. "idle" \in Step /\ "idle" \notin Changing
    BY DEF Step, Changing, Committing
<1> QED
    <2> SUFFICES ASSUME Init PROVE TypeInv
        OBVIOUS
    <2>1. 1 \in Pairs /\ 1 \in Accts /\ 0 \in Pairs
        BY TokenAssumption DEF Pairs, Accts
    <2>2. CallTypes
        BY <1>3, BlankTyped DEF Init, CallTypes, Kinds
    <2>3. StoreTypes
        BY <1>1, <1>2, <2>1, TokenAssumption DEF Init, StoreTypes, None
    <2> QED
        BY <2>2, <2>3 DEF TypeInv

\* Every step keeps the types.
LEMMA TypeStep == TypeInv /\ [Next]_vars => TypeInv'
<1> SUFFICES ASSUME TypeInv, [Next]_vars PROVE TypeInv'
    OBVIOUS
<1> USE DEF TypeInv
<1>0. /\ \A t \in Task : Mine(t) \in Session /\ ClientOf[t] \in Client /\ GateOf(t) \in Process /\ loc[t] \in Locals
      /\ {"loading", "install", "gate", "gated", "decide", "request", "rejected", "refreshing", "refreshed",
          "minting", "minted", "rotating", "rotated", "login", "loggedin"} \subseteq Step \ Changing
      /\ Changing \subseteq Step
    BY TokenAssumption DEF StoreTypes, CallTypes, Mine, GateOf, Step, Refreshing, Changing, Committing
<1>a. UNCHANGED <<gate, job>> => gate' \in [Process -> Task \cup {NoTask}] /\ job' \in [Task -> Kinds]
    BY DEF CallTypes
<1>b. UNCHANGED <<store, clientVars, changing, calls, service, budget>> => StoreTypes'
    BY DEF StoreTypes, clientVars
<1>1. ASSUME NEW t \in Task, BeginLoad(t) PROVE TypeInv'
    <2>1. CallTypes'
        BY <1>1, <1>0, StayTyped DEF BeginLoad, Go, CallTypes, Kinds
    <2> QED
        BY <1>1, <2>1, TokenAssumption DEF BeginLoad, Begin, StoreTypes, clientVars
<1>2. ASSUME NEW t \in Task, BeginRequest(t) PROVE TypeInv'
    <2>1. gate' \in [Process -> Task \cup {NoTask}] /\ job' \in [Task -> Kinds]
        BY <1>2 DEF BeginRequest, CallTypes, Kinds
    <2>2. CASE Go(t, "idle", "request") /\ Keep(t, [Blank EXCEPT !.used = Mine(t).pair])
        <3> DEFINE m == [Blank EXCEPT !.used = Mine(t).pair]
        <3>1. Mine(t).pair \in Pairs
            BY <1>0 DEF Session
        <3>2. m \in Locals /\ AnswerFits(m)
            BY <3>1, BlankTyped DEF Locals, AnswerFits
        <3>3. CallTypes'
            BY <1>0, <2>1, <2>2, <3>2, MoveTyped DEF Go
        <3> QED
            BY <1>2, <3>3, TokenAssumption DEF BeginRequest, Begin, StoreTypes, clientVars
    <2>3. CASE Go(t, "idle", "gate") /\ UNCHANGED loc
        <3>1. CallTypes'
            BY <1>0, <2>1, <2>3, StayTyped DEF Go
        <3> QED
            BY <1>2, <3>1, TokenAssumption DEF BeginRequest, Begin, StoreTypes, clientVars
    <2> QED
        BY <1>2, <2>2, <2>3 DEF BeginRequest
<1>3. ASSUME NEW t \in Task, BeginSignIn(t) PROVE TypeInv'
    <2>1. CallTypes'
        BY <1>3, <1>0, StayTyped DEF BeginSignIn, Go, CallTypes, Kinds
    <2> QED
        BY <1>3, <2>1, TokenAssumption DEF BeginSignIn, Begin, StoreTypes, clientVars
<1>4. ASSUME NEW t \in Task, BeginAlarms(t) PROVE TypeInv'
    <2>1. UNCHANGED gate /\ job' \in [Task -> Kinds]
        BY <1>4 DEF BeginAlarms, CallTypes, Kinds
    <2>2. CallTypes'
        BY <1>4, <1>0, <2>1, BlankTyped, RotateTyped DEF BeginAlarms
    <2> QED
        BY <1>4, <2>2, TokenAssumption DEF BeginAlarms, Begin, StoreTypes, clientVars
<1>5. ASSUME NEW t \in Task, ReadStore(t) PROVE TypeInv'
    <2> DEFINE m == [loc[t] EXCEPT !.rec = store]
    <2>0. store \in Session
        BY DEF StoreTypes
    <2>1. m \in Locals /\ AnswerFits(m)
        BY <1>0, <2>0 DEF CallTypes, Locals, AnswerFits
    <2>2. CallTypes'
        BY <1>5, <1>0, <1>a, <2>1, MoveTyped DEF ReadStore, Go
    <2> QED
        BY <1>5, <1>b, <2>2 DEF ReadStore
<1>6. ASSUME NEW t \in Task, ReadFails(t) PROVE TypeInv'
    <2>1. CallTypes'
        BY <1>6, EndTyped DEF ReadFails
    <2> QED
        BY <1>6, <2>1, TokenAssumption DEF ReadFails, StoreTypes, clientVars
<1>7. ASSUME NEW t \in Task, InstallLoaded(t) PROVE TypeInv'
    <2>1. CallTypes'
        BY <1>7, EndTyped DEF InstallLoaded
    <2>2. loc[t].rec \in Session /\ loc[t].rec.pair \in Pairs /\ loc[t].rec.expired \in BOOLEAN
        BY <1>0 DEF Locals, Session
    <2>3. authDead' \in [Client -> BOOLEAN]
        BY <1>7, <2>2 DEF InstallLoaded, StoreTypes
    <2> QED
        BY <1>7, <1>0, <2>1, <2>2, <2>3 DEF InstallLoaded, Install, StoreTypes
<1>8. ASSUME NEW t \in Task, RequestAnswered(t) PROVE TypeInv'
    BY <1>8, <1>b, EndTyped DEF RequestAnswered
<1>9. ASSUME NEW t \in Task, ServiceRejects(t) PROVE TypeInv'
    <2>1. CallTypes'
        BY <1>9, <1>0, <1>a, StayTyped DEF ServiceRejects, Go
    <2> QED
        BY <1>9, <1>b, <2>1 DEF ServiceRejects
<1>10. ASSUME NEW t \in Task, ReadRejected(t) PROVE TypeInv'
    <2> DEFINE m == [Blank EXCEPT !.stale = loc[t].used]
    <2>1. m \in Locals /\ AnswerFits(m)
        BY <1>0, BlankTyped DEF Locals, AnswerFits
    <2>2. ASSUME Go(t, "rejected", "gate"), Keep(t, m), UNCHANGED <<gate, job>>
          PROVE  CallTypes'
        BY <1>0, <1>a, <2>1, <2>2, MoveTyped DEF Go
    <2>3. ASSUME End(t) PROVE CallTypes'
        BY <2>3, EndTyped
    <2>4. CallTypes'
        BY <1>10, <2>2, <2>3 DEF ReadRejected
    <2> QED
        BY <1>10, <1>b, <2>4 DEF ReadRejected
<1>11. ASSUME NEW t \in Task, CommandRejected(t) PROVE TypeInv'
    <2>1. CallTypes'
        BY <1>11, EndTyped DEF CommandRejected
    <2>2. session' \in [Client -> Session]
        BY <1>11, <1>0 DEF CommandRejected, StoreTypes, Session
    <2> QED
        BY <1>11, <2>1, <2>2 DEF CommandRejected, StoreTypes
<1>12. ASSUME NEW t \in Task, TakeGate(t) PROVE TypeInv'
    <2>1. gate' \in [Process -> Task \cup {NoTask}] /\ job' \in [Task -> Kinds]
        BY <1>12 DEF TakeGate, CallTypes
    <2>2. CallTypes'
        BY <1>12, <1>0, <2>1, StayTyped DEF TakeGate, Go
    <2> QED
        BY <1>12, <1>b, <2>2 DEF TakeGate
<1>13. ASSUME NEW t \in Task, GateFindsDead(t) PROVE TypeInv'
    BY <1>13, <1>b, EndTyped DEF GateFindsDead
<1>14. ASSUME NEW t \in Task, FindDead(t) PROVE TypeInv'
    <2>1. CallTypes'
        BY <1>14, EndTyped DEF FindDead
    <2>2. Mine(t).pair \in Pairs
        BY <1>0 DEF Session
    <2> QED
        BY <1>14, <2>1, <2>2 DEF FindDead, MarkDead, StoreTypes
<1>15. ASSUME NEW t \in Task, AdoptStored(t) PROVE TypeInv'
    <2>1. loc[t].rec \in Session /\ loc[t].rec.pair \in Pairs
        BY <1>0 DEF Locals, Session
    <2>2. CallTypes'
        BY <1>15, <2>1, SendTyped DEF AdoptStored
    <2> QED
        BY <1>15, <2>1, <2>2 DEF AdoptStored, Install, StoreTypes
<1>16. ASSUME NEW t \in Task, SkipRefresh(t) PROVE TypeInv'
    <2>1. CallTypes'
        BY <1>16, <1>0, SendTyped DEF SkipRefresh
    <2> QED
        BY <1>16, <1>b, <2>1 DEF SkipRefresh
<1>17. ASSUME NEW t \in Task, SpendToken(t) PROVE TypeInv'
    <2> DEFINE p == Mine(t).pair
               r == Mine(t).origin
               m == [loc[t] EXCEPT !.rec = Empty, !.spend = p, !.root = r]
    <2>1. p \in Pairs /\ r \in Nat /\ Empty \in Session
        BY <1>0, TokenAssumption DEF Session, Empty, None, Pairs, Accts
    <2>2. loc[t] \in Locals /\ AnswerFits(loc[t])
        BY <1>0 DEF CallTypes
    <2> HIDE DEF p, r
    <2>3. m \in Locals /\ AnswerFits(m)
        BY ONLY <2>1, <2>2 DEF Locals, AnswerFits
    <2>4. CallTypes'
        BY <1>17, <1>0, <1>a, <2>3, MoveTyped DEF SpendToken, Go, p, r
    <2> QED
        BY <1>17, <1>b, <2>4 DEF SpendToken
<1>18. ASSUME NEW t \in Task, NoRefreshToken(t) PROVE TypeInv'
    <2> DEFINE m == [loc[t] EXCEPT !.rec = Empty, !.root = Mine(t).origin]
    <2>1. Mine(t).origin \in Nat /\ Empty \in Session
        BY <1>0, TokenAssumption DEF Session, Empty, None, Pairs, Accts
    <2>2. m \in Locals /\ AnswerFits(m)
        BY <1>0, <2>1 DEF CallTypes, Locals, AnswerFits
    <2>3. CallTypes'
        BY <1>18, <1>0, <2>2, RenewTyped DEF NoRefreshToken
    <2> QED
        BY <1>18, <1>b, <2>3 DEF NoRefreshToken
<1>19. ASSUME NEW t \in Task, ServiceRefresh(t) PROVE TypeInv'
    <2> DEFINE n == service.pairs + 1
    <2>1. n \in Nat /\ 0 \in Nat
        BY DEF StoreTypes, Pairs
    <2>2. Answered("pair", n) \in Answer /\ Answered("spent", 0) \in Answer /\ Answered("failed", 0) \in Answer
        BY <2>1 DEF Answered, Answer
    <2>3. UNCHANGED <<gate, job>>
        BY <1>19 DEF ServiceRefresh, Untouched
    <2>4. \/ n \in Pairs /\ Reply(t, "refreshing", "refreshed", "pair", n)
          \/ Refuse(t, "refreshing", "refreshed", "spent")
          \/ Refuse(t, "refreshing", "refreshed", "failed")
        BY <1>19 DEF ServiceRefresh
    <2>5. CallTypes'
        BY <1>0, <2>2, <2>3, <2>4, ReplyTyped
    <2>6. service' \in [pairs : Pairs, accts : Accts, live : SUBSET Pairs, acctLive : SUBSET Accts,
                        lapsed : SUBSET Pairs, outdated : SUBSET Pairs]
        <3>1. \/ UNCHANGED service
              \/ /\ n \in Pairs
                 /\ service' = [service EXCEPT !.pairs = n, !.live = (@ \ {loc[t].spend}) \cup {n}]
            BY <1>19 DEF ServiceRefresh
        <3> HIDE DEF n
        <3> QED
            BY <3>1, IssueTyped DEF StoreTypes
    <2>7. budget' \in [faults : 0..MaxFaults, cancels : 0..MaxCancels, lost : 0..MaxLost]
        BY <1>19, TokenAssumption DEF ServiceRefresh, Reply, StoreTypes
    <2> QED
        BY <1>19, <2>5, <2>6, <2>7 DEF ServiceRefresh, Untouched, clientVars, StoreTypes
<1>20. ASSUME NEW t \in Task, RefreshAnswered(t) PROVE TypeInv'
    <2> DEFINE l == [loc[t] EXCEPT !.answer = Answered("none", 0)]
    <2>1. l \in Locals /\ AnswerFits(l)
        BY <1>0 DEF Locals, AnswerFits, Answered, Answer
    <2>2. ASSUME loc[t].answer.kind = "pair", at' = [at EXCEPT ![t] = "lock"],
                 Keep(t, [loc[t] EXCEPT !.why = "refresh"]), UNCHANGED <<gate, job>>
          PROVE  CallTypes'
        <3> DEFINE m == [loc[t] EXCEPT !.why = "refresh"]
        <3>1. m \in Locals /\ AnswerFits(m) /\ WhyFits(m)
            BY <1>0, <2>2 DEF CallTypes, Locals, AnswerFits, WhyFits
        <3>2. "lock" \in Step
            BY <1>0 DEF Changing
        <3> QED
            BY <1>a, <2>2, <3>1, <3>2, MoveTyped
    <2>3. ASSUME RenewOrBury(t, l), UNCHANGED <<gate, job>> PROVE CallTypes'
        BY <1>0, <2>1, <2>3, RenewTyped
    <2>4. ASSUME End(t) PROVE CallTypes'
        BY <2>4, EndTyped
    <2>5. CallTypes'
        BY <1>20, <2>2, <2>3, <2>4 DEF RefreshAnswered
    <2> QED
        BY <1>20, <1>b, <2>5 DEF RefreshAnswered
<1>21. ASSUME NEW t \in Task, ServiceLogin(t) PROVE TypeInv'
    <2> DEFINE n == service.accts + 1
    <2>1. n \in Nat /\ 0 \in Nat
        BY DEF StoreTypes, Accts
    <2>2. Answered("acct", n) \in Answer /\ Answered("failed", 0) \in Answer
        BY <2>1 DEF Answered, Answer
    <2>3. UNCHANGED <<gate, job>>
        BY <1>21 DEF ServiceLogin, Untouched
    <2>4. \/ n \in Accts /\ Reply(t, "login", "loggedin", "acct", n)
          \/ Refuse(t, "login", "loggedin", "failed")
        BY <1>21 DEF ServiceLogin
    <2>5. CallTypes'
        BY <1>0, <2>2, <2>3, <2>4, ReplyTyped
    <2>6. service' \in [pairs : Pairs, accts : Accts, live : SUBSET Pairs, acctLive : SUBSET Accts,
                        lapsed : SUBSET Pairs, outdated : SUBSET Pairs]
        <3>1. \/ UNCHANGED service
              \/ n \in Accts /\ service' = [service EXCEPT !.accts = n, !.acctLive = @ \cup {n}]
            BY <1>21 DEF ServiceLogin
        <3> QED
            BY <3>1 DEF StoreTypes
    <2>7. budget' \in [faults : 0..MaxFaults, cancels : 0..MaxCancels, lost : 0..MaxLost]
        BY <1>21, TokenAssumption DEF ServiceLogin, Reply, StoreTypes
    <2> QED
        BY <1>21, <2>5, <2>6, <2>7 DEF ServiceLogin, Untouched, clientVars, StoreTypes
<1>22. ASSUME NEW t \in Task, LoginAnswered(t) PROVE TypeInv'
    <2> DEFINE a == loc[t].answer.value
               m == [Blank EXCEPT !.acct = a]
    <2>1. ASSUME loc[t].answer.kind = "acct",
                 session' = [session EXCEPT ![ClientOf[t]].acct = a],
                 at' = [at EXCEPT ![t] = "minting"], Keep(t, m), UNCHANGED <<gate, job>>
          PROVE  CallTypes' /\ session' \in [Client -> Session]
        <3>1. a \in Accts
            BY <2>1 DEF CallTypes, AnswerFits
        <3>2. m \in Locals /\ AnswerFits(m)
            BY <3>1, BlankTyped DEF Locals, AnswerFits
        <3>3. CallTypes'
            BY <1>0, <1>a, <2>1, <3>2, MoveTyped
        <3>4. session' \in [Client -> Session]
            BY <1>0, <2>1, <3>1 DEF StoreTypes, Session
        <3> QED
            BY <3>3, <3>4
    <2>2. ASSUME End(t), UNCHANGED session PROVE CallTypes' /\ session' \in [Client -> Session]
        BY <2>2, EndTyped DEF StoreTypes
    <2>3. CallTypes' /\ session' \in [Client -> Session]
        BY <1>22, <2>1, <2>2 DEF LoginAnswered
    <2> QED
        BY <1>22, <2>3 DEF LoginAnswered, StoreTypes
<1>23. ASSUME NEW t \in Task, ServiceMint(t) PROVE TypeInv'
    <2> DEFINE n == service.pairs + 1
    <2>1. n \in Nat /\ 0 \in Nat
        BY DEF StoreTypes, Pairs
    <2>2. Answered("pair", n) \in Answer /\ Answered("refused", 0) \in Answer /\ Answered("failed", 0) \in Answer
        BY <2>1 DEF Answered, Answer
    <2>3. UNCHANGED <<gate, job>>
        BY <1>23 DEF ServiceMint, Untouched
    <2>4. \/ n \in Pairs /\ Reply(t, "minting", "minted", "pair", n)
          \/ Refuse(t, "minting", "minted", "refused")
          \/ Refuse(t, "minting", "minted", "failed")
        BY <1>23 DEF ServiceMint
    <2>5. CallTypes'
        BY <1>0, <2>2, <2>3, <2>4, ReplyTyped
    <2>6. service' \in [pairs : Pairs, accts : Accts, live : SUBSET Pairs, acctLive : SUBSET Accts,
                        lapsed : SUBSET Pairs, outdated : SUBSET Pairs]
        <3>1. \/ UNCHANGED service
              \/ n \in Pairs /\ service' = [service EXCEPT !.pairs = n, !.live = (@ \ {}) \cup {n}]
            BY <1>23 DEF ServiceMint
        <3> HIDE DEF n
        <3> QED
            BY <3>1, IssueTyped DEF StoreTypes
    <2>7. budget' \in [faults : 0..MaxFaults, cancels : 0..MaxCancels, lost : 0..MaxLost]
        BY <1>23, TokenAssumption DEF ServiceMint, Reply, StoreTypes
    <2> QED
        BY <1>23, <2>5, <2>6, <2>7 DEF ServiceMint, Untouched, clientVars, StoreTypes
<1>24. ASSUME NEW t \in Task, MintAnswered(t) PROVE TypeInv'
    <2> DEFINE l == [loc[t] EXCEPT !.answer = Answered("none", 0)]
               m == [loc[t] EXCEPT !.why = "mint"]
    <2>1. l \in Locals /\ AnswerFits(l)
        BY <1>0 DEF Locals, AnswerFits, Answered, Answer
    <2>2. ASSUME loc[t].answer.kind = "pair", at' = [at EXCEPT ![t] = "lock"], Keep(t, m), UNCHANGED <<gate, job>>
          PROVE  CallTypes'
        <3>1. m \in Locals /\ AnswerFits(m) /\ WhyFits(m)
            BY <1>0, <2>2 DEF CallTypes, Locals, AnswerFits, WhyFits
        <3>2. "lock" \in Step
            BY <1>0 DEF Changing
        <3> QED
            BY <1>a, <2>2, <3>1, <3>2, MoveTyped
    <2>3. ASSUME RefreshAccount(t, l, "renew"), UNCHANGED <<gate, job>> PROVE CallTypes'
        BY <1>0, <1>a, <2>1, <2>3, RotateTyped
    <2>4. ASSUME Bury(t, l), UNCHANGED <<gate, job>> PROVE CallTypes'
        BY <1>0, <2>1, <2>4, BuryTyped
    <2>5. ASSUME End(t) PROVE CallTypes'
        BY <2>5, EndTyped
    <2>6. CallTypes'
        <3> HIDE DEF l, m
        <3> QED
            BY <1>24, <2>2, <2>3, <2>4, <2>5 DEF MintAnswered, l, m
    <2>7. authDead' \in [Client -> BOOLEAN] /\ deadPair' \in [Client -> Pairs]
        <3>1. UNCHANGED <<authDead, deadPair>> \/ MarkDead(ClientOf[t], FALSE, None)
            BY <1>24 DEF MintAnswered
        <3>2. None \in Pairs
            BY TokenAssumption DEF None, Pairs
        <3>3. CASE UNCHANGED <<authDead, deadPair>>
            BY <3>3 DEF StoreTypes
        <3>4. CASE MarkDead(ClientOf[t], FALSE, None)
            <4>1. authDead' \in [Client -> BOOLEAN]
                BY <3>4 DEF MarkDead, StoreTypes
            <4>2. deadPair' \in [Client -> Pairs]
                BY <3>2, <3>4 DEF MarkDead, StoreTypes
            <4> QED
                BY <4>1, <4>2
        <3> QED
            BY <3>1, <3>3, <3>4
    <2> QED
        BY <1>24, <2>6, <2>7 DEF MintAnswered, StoreTypes
<1>25. ASSUME NEW t \in Task, ServiceAccount(t) PROVE TypeInv'
    <2> DEFINE n == service.accts + 1
    <2>1. n \in Nat /\ 0 \in Nat
        BY DEF StoreTypes, Accts
    <2>2. Answered("acct", n) \in Answer /\ Answered("refused", 0) \in Answer /\ Answered("failed", 0) \in Answer
        BY <2>1 DEF Answered, Answer
    <2>3. UNCHANGED <<gate, job>>
        BY <1>25 DEF ServiceAccount, Untouched
    <2>4. \/ n \in Accts /\ Reply(t, "rotating", "rotated", "acct", n)
          \/ Refuse(t, "rotating", "rotated", "refused")
          \/ Refuse(t, "rotating", "rotated", "failed")
        BY <1>25 DEF ServiceAccount
    <2>5. CallTypes'
        BY <1>0, <2>2, <2>3, <2>4, ReplyTyped
    <2>6. service' \in [pairs : Pairs, accts : Accts, live : SUBSET Pairs, acctLive : SUBSET Accts,
                        lapsed : SUBSET Pairs, outdated : SUBSET Pairs]
        <3>1. \/ UNCHANGED service
              \/ /\ n \in Accts
                 /\ service' = [service EXCEPT !.accts = n, !.acctLive = (@ \ {loc[t].acct}) \cup {n}]
            BY <1>25 DEF ServiceAccount
        <3> QED
            BY <3>1 DEF StoreTypes
    <2>7. budget' \in [faults : 0..MaxFaults, cancels : 0..MaxCancels, lost : 0..MaxLost]
        BY <1>25, TokenAssumption DEF ServiceAccount, Reply, StoreTypes
    <2> QED
        BY <1>25, <2>5, <2>6, <2>7 DEF ServiceAccount, Untouched, clientVars, StoreTypes
<1>26. ASSUME NEW t \in Task, AccountAnswered(t) PROVE TypeInv'
    <2> DEFINE l == [loc[t] EXCEPT !.answer = Answered("none", 0)]
               m == [loc[t] EXCEPT !.why = "account"]
    <2>1. l \in Locals /\ AnswerFits(l)
        BY <1>0 DEF Locals, AnswerFits, Answered, Answer
    <2>2. ASSUME loc[t].answer.kind = "acct", at' = [at EXCEPT ![t] = "lock"], Keep(t, m), UNCHANGED <<gate, job>>
          PROVE  CallTypes'
        <3>1. m \in Locals /\ AnswerFits(m) /\ WhyFits(m)
            BY <1>0, <2>2 DEF CallTypes, Locals, AnswerFits, WhyFits
        <3>2. "lock" \in Step
            BY <1>0 DEF Changing
        <3> QED
            BY <1>a, <2>2, <3>1, <3>2, MoveTyped
    <2>3. ASSUME Established(t, Mine(t)) PROVE CallTypes'
        BY <1>0, <2>3, EstablishedTyped
    <2>4. ASSUME Bury(t, l), UNCHANGED <<gate, job>> PROVE CallTypes'
        BY <1>0, <2>1, <2>4, BuryTyped
    <2>5. ASSUME End(t) PROVE CallTypes'
        BY <2>5, EndTyped
    <2>6. CallTypes'
        <3> HIDE DEF l, m
        <3> QED
            BY <1>26, <2>2, <2>3, <2>4, <2>5 DEF AccountAnswered, l, m
    <2> QED
        BY <1>26, <1>b, <2>6 DEF AccountAnswered
<1>27. ASSUME NEW t \in Task, TakeChanging(t) PROVE TypeInv'
    <2> DEFINE m == [loc[t] EXCEPT !.rec = Built(t, Mine(t))]
    <2>1. at[t] \in Changing /\ {"start"} \subseteq Step /\ UNCHANGED <<gate, job>>
        BY <1>27, <1>0 DEF TakeChanging, Go, Changing, Committing
    <2>2. AnswerFits(loc[t]) /\ WhyFits(loc[t])
        BY <2>1 DEF CallTypes
    <2>3. Built(t, Mine(t)) \in Session
        BY <1>0, <2>2, BuiltTyped
    <2>4. m \in Locals /\ AnswerFits(m) /\ WhyFits(m)
        BY <1>0, <2>2, <2>3 DEF Locals, AnswerFits, WhyFits
    <2>5. at' = [at EXCEPT ![t] = "start"] /\ Keep(t, m)
        BY <1>27 DEF TakeChanging, Go
    <2>6. CallTypes'
        <3> HIDE DEF m
        <3> QED
            BY <1>a, <2>1, <2>4, <2>5, MoveTyped
    <2>7. changing' \in [Client -> Task \cup {NoTask}]
        BY <1>27 DEF TakeChanging, StoreTypes
    <2> QED
        BY <1>27, <2>6, <2>7 DEF TakeChanging, StoreTypes, clientVars
<1>28. ASSUME NEW t \in Task, StartCommit(t) PROVE TypeInv'
    <2>1. at[t] \in Changing /\ {"write"} \subseteq Step /\ UNCHANGED <<gate, job>>
        BY <1>28, <1>0 DEF StartCommit, Go, Changing, Committing
    <2>2. AnswerFits(loc[t]) /\ WhyFits(loc[t])
        BY <2>1 DEF CallTypes
    <2>3. PICK e \in Pairs \cup {NoBase} : Keep(t, [loc[t] EXCEPT !.expected = e])
        BY <1>28, <1>0 DEF StartCommit, StoreTypes
    <2> DEFINE m == [loc[t] EXCEPT !.expected = e]
    <2>4. m \in Locals /\ AnswerFits(m) /\ WhyFits(m)
        BY <1>0, <2>2 DEF Locals, AnswerFits, WhyFits
    <2>5. at' = [at EXCEPT ![t] = "write"]
        BY <1>28 DEF StartCommit, Go
    <2>6. CallTypes'
        <3> HIDE DEF m
        <3>1. Keep(t, m)
            BY <2>3 DEF m
        <3> QED
            BY <1>a, <2>1, <2>4, <2>5, <3>1, MoveTyped
    <2> QED
        BY <1>28, <1>b, <2>6 DEF StartCommit
<1>29. ASSUME NEW t \in Task, WriteStore(t) PROVE TypeInv'
    <2> DEFINE new == IF SigningIn(t) THEN [loc[t].rec EXCEPT !.origin = store.origin + 1] ELSE loc[t].rec
    <2>1. at[t] \in Changing /\ {"settle"} \subseteq Step /\ UNCHANGED <<gate, job>>
        BY <1>29, <1>0 DEF WriteStore, Go, Changing, Committing
    <2>2. AnswerFits(loc[t]) /\ WhyFits(loc[t])
        BY <2>1 DEF CallTypes
    <2>3. new \in Session
        BY <1>0 DEF StoreTypes, Locals, Session
    <2>4. PICK r \in Session, o \in {"saved", "newer"} : Keep(t, [loc[t] EXCEPT !.rec = r, !.outcome = o])
        BY <1>29, <2>3 DEF WriteStore, StoreTypes
    <2> DEFINE m == [loc[t] EXCEPT !.rec = r, !.outcome = o]
    <2>5. m \in Locals /\ AnswerFits(m) /\ WhyFits(m)
        <3>1. m \in Locals
            BY <1>0 DEF Locals
        <3>2. m.answer = loc[t].answer /\ m.why = loc[t].why
            BY <1>0 DEF Locals
        <3> HIDE DEF m
        <3> QED
            BY <2>2, <3>1, <3>2 DEF AnswerFits, WhyFits
    <2>6. at' = [at EXCEPT ![t] = "settle"]
        BY <1>29 DEF WriteStore, Go
    <2>7. CallTypes'
        <3> HIDE DEF m
        <3>1. Keep(t, m)
            BY <2>4 DEF m
        <3> QED
            BY <1>a, <2>1, <2>5, <2>6, <3>1, MoveTyped
    <2>8. store' \in Session
        BY <1>29, <2>3 DEF WriteStore, StoreTypes
    <2> QED
        BY <1>29, <2>7, <2>8 DEF WriteStore, StoreTypes, clientVars
<1>30. ASSUME NEW t \in Task, StoreFails(t) PROVE TypeInv'
    <2> DEFINE m == [loc[t] EXCEPT !.outcome = "failed"]
    <2>1. at[t] \in Changing /\ {"settle"} \subseteq Step /\ UNCHANGED <<gate, job>>
        BY <1>30, <1>0 DEF StoreFails, Go, Changing, Committing
    <2>2. m \in Locals /\ AnswerFits(m) /\ WhyFits(m)
        BY <1>0, <2>1 DEF CallTypes, Locals, AnswerFits, WhyFits
    <2>3. at' = [at EXCEPT ![t] = "settle"] /\ Keep(t, m)
        BY <1>30 DEF StoreFails, Go
    <2>4. CallTypes'
        <3> HIDE DEF m
        <3> QED
            BY <1>a, <2>1, <2>2, <2>3, MoveTyped
    <2> QED
        BY <1>30, <2>4, TokenAssumption DEF StoreFails, StoreTypes, clientVars
<1>c. ASSUME NEW t \in Task, FreeChanging(t) PROVE changing' \in [Client -> Task \cup {NoTask}]
    BY <1>c DEF FreeChanging, StoreTypes
<1>d. ASSUME NEW t \in Task PROVE /\ loc[t].rec \in Session /\ loc[t].rec.pair \in Pairs
                                  /\ loc[t].rec.expired \in BOOLEAN /\ loc[t].spend \in Pairs /\ None \in Pairs
    BY <1>0, TokenAssumption DEF Locals, Session, None, Pairs
<1>e. ASSUME NEW c \in Client, NEW dead \in BOOLEAN, NEW p \in Pairs,
             MarkDead(c, dead, p) \/ UNCHANGED <<authDead, deadPair>>
      PROVE  authDead' \in [Client -> BOOLEAN] /\ deadPair' \in [Client -> Pairs]
    <2>1. CASE UNCHANGED <<authDead, deadPair>>
        BY <2>1 DEF StoreTypes
    <2>2. CASE MarkDead(c, dead, p)
        <3>1. authDead' \in [Client -> BOOLEAN]
            BY <2>2 DEF MarkDead, StoreTypes
        <3>2. deadPair' \in [Client -> Pairs]
            BY <2>2 DEF MarkDead, StoreTypes
        <3> QED
            BY <3>1, <3>2
    <2> QED
        BY <1>e, <2>1, <2>2
<1>f. ASSUME NEW c \in Client, NEW s \in Session, Install(c, s)
      PROVE  session' \in [Client -> Session] /\ base' \in [Client -> Pairs \cup {NoBase}]
    <2>1. s.pair \in Pairs
        BY DEF Session
    <2> QED
        BY <1>f, <2>1 DEF Install, StoreTypes
<1>31. ASSUME NEW t \in Task, SettleSaved(t) PROVE TypeInv'
    <2>1. CallTypes'
        BY <1>31, <1>d, AfterTyped DEF SettleSaved
    <2>2. session' \in [Client -> Session] /\ base' \in [Client -> Pairs \cup {NoBase}]
        BY <1>31, <1>0, <1>d, <1>f DEF SettleSaved
    <2>3. authDead' \in [Client -> BOOLEAN] /\ deadPair' \in [Client -> Pairs]
        <3>1. MarkDead(ClientOf[t], TRUE, loc[t].spend) \/ UNCHANGED <<authDead, deadPair>>
            BY <1>31 DEF SettleSaved
        <3> QED
            BY <3>1, <1>0, <1>d, <1>e
    <2>4. changing' \in [Client -> Task \cup {NoTask}]
        BY <1>31, <1>c DEF SettleSaved
    <2> QED
        BY <1>31, <2>1, <2>2, <2>3, <2>4 DEF SettleSaved, StoreTypes
<1>32. ASSUME NEW t \in Task, SettleNewer(t) PROVE TypeInv'
    <2>1. CallTypes'
        BY <1>32, <1>d, AfterTyped DEF SettleNewer
    <2>2. session' \in [Client -> Session] /\ base' \in [Client -> Pairs \cup {NoBase}]
        BY <1>32, <1>0, <1>d, <1>f DEF SettleNewer
    <2>3. authDead' \in [Client -> BOOLEAN] /\ deadPair' \in [Client -> Pairs]
        <3>1. \/ MarkDead(ClientOf[t], TRUE, loc[t].spend)
              \/ MarkDead(ClientOf[t], loc[t].rec.expired, None)
            BY <1>32 DEF SettleNewer
        <3> QED
            BY <3>1, <1>0, <1>d, <1>e
    <2>4. changing' \in [Client -> Task \cup {NoTask}]
        BY <1>32, <1>c DEF SettleNewer
    <2> QED
        BY <1>32, <2>1, <2>2, <2>3, <2>4 DEF SettleNewer, StoreTypes
<1>33. ASSUME NEW t \in Task, SettleFailed(t) PROVE TypeInv'
    <2>1. CallTypes'
        BY <1>33, EndTyped DEF SettleFailed
    <2>2. session' \in [Client -> Session]
        <3>1. at[t] \in Changing
            BY <1>33 DEF SettleFailed, Changing, Committing
        <3>2. AnswerFits(loc[t]) /\ WhyFits(loc[t])
            BY <3>1 DEF CallTypes
        <3>3. Built(t, Mine(t)) \in Session
            BY <1>0, <3>2, BuiltTyped
        <3>4. UNCHANGED session \/ session' = [session EXCEPT ![ClientOf[t]] = Built(t, Mine(t))]
            BY <1>33 DEF SettleFailed, Mine
        <3> QED
            BY <3>3, <3>4 DEF StoreTypes
    <2>3. authDead' \in [Client -> BOOLEAN] /\ deadPair' \in [Client -> Pairs]
        <3>1. MarkDead(ClientOf[t], TRUE, loc[t].spend) \/ UNCHANGED <<authDead, deadPair>>
            BY <1>33 DEF SettleFailed
        <3> QED
            BY <3>1, <1>0, <1>d, <1>e
    <2>4. changing' \in [Client -> Task \cup {NoTask}]
        BY <1>33, <1>c DEF SettleFailed
    <2> QED
        BY <1>33, <2>1, <2>2, <2>3, <2>4 DEF SettleFailed, StoreTypes
<1>34. ASSUME NEW t \in Task, Cancel(t) PROVE TypeInv'
    <2> DEFINE m == [loc[t] EXCEPT !.cancelled = TRUE]
    <2>1. ASSUME at[t] \in Committing, Keep(t, m), UNCHANGED <<gate, at, job>> PROVE CallTypes'
        <3>0. AnswerFits(loc[t]) /\ WhyFits(loc[t])
            BY <2>1 DEF CallTypes, Changing
        <3>1. m \in Locals /\ AnswerFits(m) /\ WhyFits(m)
            <4>1. m \in Locals
                BY <1>0 DEF Locals
            <4>2. m.answer = loc[t].answer /\ m.why = loc[t].why
                BY <1>0 DEF Locals
            <4> HIDE DEF m
            <4> QED
                BY <3>0, <4>1, <4>2 DEF AnswerFits, WhyFits
        <3>2. at[t] \in Step /\ at' = [at EXCEPT ![t] = at[t]]
            BY <2>1 DEF CallTypes
        <3> HIDE DEF m
        <3> QED
            BY <1>a, <2>1, <3>1, <3>2, MoveTyped
    <2>2. ASSUME End(t) PROVE CallTypes'
        BY <2>2, EndTyped
    <2>3. CallTypes'
        BY <1>34, <2>1, <2>2 DEF Cancel
    <2> QED
        BY <1>34, <2>3, TokenAssumption DEF Cancel, StoreTypes, clientVars
<1>35. ASSUME Elapse PROVE TypeInv'
    <2>1. CallTypes'
        BY <1>35 DEF Elapse, taskVars, CallTypes, AnswerFits, WhyFits
    <2>2. service' \in [pairs : Pairs, accts : Accts, live : SUBSET Pairs, acctLive : SUBSET Accts,
                        lapsed : SUBSET Pairs, outdated : SUBSET Pairs]
        <3> DEFINE Kind == [pairs : Pairs, accts : Accts, live : SUBSET Pairs, acctLive : SUBSET Accts,
                            lapsed : SUBSET Pairs, outdated : SUBSET Pairs]
        <3>0. service \in Kind
            BY DEF StoreTypes
        <3>1. 1..service.pairs \subseteq Pairs
            <4>1. service.pairs \in Pairs
                BY <3>0
            <4> QED
                BY <4>1, TokenAssumption DEF Pairs
        <3>2. PICK p, a :
                 \/ p \in 1..service.pairs /\ service' = [service EXCEPT !.lapsed = @ \cup {p}]
                 \/ /\ p \in service.lapsed
                    /\ service' = [service EXCEPT !.outdated = @ \cup {p}, !.live = @ \ {p}]
                 \/ service' = [service EXCEPT !.live = @ \ {p}]
                 \/ service' = [service EXCEPT !.acctLive = @ \ {a}]
            BY <1>35 DEF Elapse
        <3>3. CASE p \in 1..service.pairs /\ service' = [service EXCEPT !.lapsed = @ \cup {p}]
            BY <3>0, <3>1, <3>3
        <3>4. CASE /\ p \in service.lapsed
                   /\ service' = [service EXCEPT !.outdated = @ \cup {p}, !.live = @ \ {p}]
            BY <3>0, <3>4
        <3>5. CASE service' = [service EXCEPT !.live = @ \ {p}]
            BY <3>0, <3>5
        <3>6. CASE service' = [service EXCEPT !.acctLive = @ \ {a}]
            BY <3>0, <3>6
        <3> QED
            BY <3>2, <3>3, <3>4, <3>5, <3>6
    <2> QED
        BY <1>35, <2>1, <2>2 DEF Elapse, StoreTypes, clientVars
<1>36. ASSUME UNCHANGED vars PROVE TypeInv'
    BY <1>36 DEF vars, clientVars, taskVars, CallTypes, StoreTypes, AnswerFits, WhyFits
<1>37. ASSUME NEW t \in Task, BeginCall(t) PROVE TypeInv'
    BY <1>37, <1>1, <1>2, <1>3, <1>4 DEF BeginCall
<1>38. ASSUME NEW t \in Task, Advance(t) PROVE TypeInv'
    BY <1>38, <1>5, <1>6, <1>7, <1>8, <1>9, <1>10, <1>11, <1>12, <1>13, <1>14, <1>15, <1>16, <1>17, <1>18,
       <1>19, <1>20, <1>21, <1>22, <1>23, <1>24, <1>25, <1>26, <1>27, <1>28, <1>29, <1>30, <1>31, <1>32, <1>33
       DEF Advance
<1> QED
    BY <1>34, <1>35, <1>36, <1>37, <1>38 DEF Next

\* Every variable holds a value of its kind, whatever the clients, tasks and bounds: what is
\* saved, held and sent in a refresh, a renewal or a sign-in is a session (_refresh, _commit).
THEOREM TokenTyped == Spec => []TypeOK
<1>1. TypeInv => TypeOK
    BY DEF TypeInv, CallTypes, StoreTypes, Kinds, TypeOK
<1> QED
    BY <1>1, TypeInit, TypeStep, PTL DEF Spec
====================================================================================
