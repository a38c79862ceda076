---------------------------- MODULE TokenSafetyProofs ----------------------------
(***************************************************************************)
(* What becomes of the tokens, for any tasks, bounds and answers.            *)
(*                                                                          *)
(* Any clients: no request carries a token that is not saved, as long as no   *)
(* save failed.  Every session a client takes over was in the store before,   *)
(* and a call that will send a request without looking at the session again   *)
(* (one that repeats a read, or refreshes the account token after a renewal)  *)
(* has made sure that its client's session is a saved one.                    *)
(*                                                                          *)
(* A client that has its store to itself (SoleClient): once its session is    *)
(* dead it sends nothing; and unless a save fails or a call is cancelled, it  *)
(* keeps every account token and every pair it is given, and spends none      *)
(* twice.  Its calls share one refresh at a time and one change at a time, so *)
(* between two changes its session is the saved one (SyncInv).                *)
(*                                                                            *)
(* Sign-ins beside clients that refresh (Apart): a save that is no sign-in    *)
(* goes on with the saved session's line of descent.  What a client holds is  *)
(* of the saved line if it has the saved pair, and a pair that is to be saved *)
(* is new to all (LineInv); so a save that passes its comparison with the     *)
(* pair its client last saw is of that line.                                  *)
(***************************************************************************)
EXTENDS TokenSessionProofs

\* What is known of a call at a step, with locals l, of a client whose pair is own.
SavedCall(step, l, own, saved) ==
    /\ step \in {"install", "decide", "settle"} => l.rec.pair \in saved
    /\ step \in {"request", "rejected"} => l.used \in saved
    /\ step = "settle" => l.outcome # "failed"
    /\ step \in {"request", "rejected"} \/ l.stale # None \/ l.after = "establish" => own \in saved

AllSaved ==
    /\ "saved" \in DOMAIN history
    /\ store.pair \in history.saved
    /\ \A c \in Client : session[c].pair \in history.saved \cup {None}
    /\ \A t \in Task : SavedCall(at[t], loc[t], Mine(t).pair, history.saved)

SavedInv == TypeInv /\ (budget.faults = MaxFaults => AllSaved)

\* The store and the sessions hold saved pairs, old or new, after the step.
Grows ==
    /\ "saved" \in DOMAIN history'
    /\ history.saved \subseteq history'.saved
    /\ store'.pair \in history'.saved
    /\ \A c \in Client : session'[c].pair \in {session[c].pair} \cup history'.saved

Own(t) == session'[ClientOf[t]].pair
---------------------------------------------------------------------------------
\* A call that goes on as it should keeps all saved.
LEMMA MoveSaved ==
    ASSUME TypeInv, AllSaved, Grows, NEW t \in Task, NEW step, NEW l,
           at' = [at EXCEPT ![t] = step], Keep(t, l),
           SavedCall(step, l, Own(t), history'.saved)
    PROVE  AllSaved'
<1>1. \A c \in Client : session'[c].pair \in history'.saved \cup {None}
    BY DEF AllSaved, Grows
<1>2. ASSUME NEW u \in Task PROVE SavedCall(at'[u], loc'[u], Own(u), history'.saved)
    <2>1. CASE u = t
        BY <2>1 DEF TypeInv, CallTypes, Keep
    <2>2. CASE u # t
        <3>1. at'[u] = at[u] /\ loc'[u] = loc[u]
            BY <2>2 DEF TypeInv, CallTypes, Keep
        <3>2. SavedCall(at[u], loc[u], Mine(u).pair, history.saved)
            BY DEF AllSaved
        <3>3. ClientOf[u] \in Client
            BY TokenAssumption
        <3>4. Mine(u).pair \in history.saved => Own(u) \in history'.saved
            BY <3>3 DEF Grows, Own, Mine
        <3> QED
            BY <3>1, <3>2, <3>4 DEF SavedCall, Grows
    <2> QED
        BY <2>1, <2>2
<1> QED
    BY <1>1, <1>2 DEF AllSaved, Grows, Own, Mine

\* A call that ends keeps all saved.
LEMMA EndSaved ==
    ASSUME TypeInv, AllSaved, Grows, NEW t \in Task, End(t)
    PROVE  AllSaved'
<1>1. SavedCall("idle", Blank, Own(t), history'.saved)
    BY DEF SavedCall, Blank
<1> QED
    BY <1>1, MoveSaved DEF End

\* So does a request with a saved token, on a client whose session is a saved one.
LEMMA SendSaved ==
    ASSUME TypeInv, AllSaved, Grows, NEW t \in Task, NEW s, NEW again, SendRequest(t, s, again),
           s.pair \in history'.saved, Own(t) \in history'.saved
    PROVE  AllSaved'
<1> DEFINE l == [Blank EXCEPT !.used = s.pair, !.again = again]
<1>1. SavedCall("request", l, Own(t), history'.saved)
    BY DEF SavedCall, Blank
<1> QED
    BY <1>1, MoveSaved DEF SendRequest

\* And a step that keeps what the locals promise, to a step that promises nothing itself.
LEMMA QuietSaved ==
    ASSUME TypeInv, AllSaved, Grows, NEW t \in Task, NEW l,
           NEW step \in Step \ {"install", "decide", "settle", "request", "rejected"},
           at' = [at EXCEPT ![t] = step], Keep(t, l),
           l.stale \in {None, loc[t].stale},
           l.after = "establish" => loc[t].after = "establish" \/ Own(t) \in history'.saved
    PROVE  AllSaved'
<1>1. SavedCall(at[t], loc[t], Mine(t).pair, history.saved) /\ ClientOf[t] \in Client
    BY TokenAssumption DEF AllSaved
<1>2. Mine(t).pair \in history.saved => Own(t) \in history'.saved
    BY <1>1 DEF Grows, Own, Mine
<1>3. SavedCall(step, l, Own(t), history'.saved)
    BY <1>1, <1>2 DEF SavedCall
<1> QED
    BY <1>3, MoveSaved

\* No fault, cancellation or lost answer is given back.
OnlySpent == \A f \in {"faults", "cancels", "lost"} : budget'[f] \in {budget[f], budget[f] - 1}

LEMMA BudgetSpent == TypeInv /\ [Next]_vars => OnlySpent
<1> SUFFICES ASSUME TypeInv, [Next]_vars PROVE OnlySpent
    OBVIOUS
<1>0. /\ budget \in [faults : 0..MaxFaults, cancels : 0..MaxCancels, lost : 0..MaxLost]
      /\ UNCHANGED budget => OnlySpent
    BY DEF TypeInv, StoreTypes, OnlySpent
<1>1. ASSUME NEW t \in Task, BeginCall(t) PROVE UNCHANGED budget
    BY <1>1 DEF BeginCall, BeginLoad, BeginRequest, BeginSignIn, BeginAlarms
<1>2. ASSUME NEW t \in Task, Advance(t) PROVE OnlySpent
    <2>1. CASE \/ ReadStore(t) \/ InstallLoaded(t) \/ RequestAnswered(t) \/ ServiceRejects(t)
               \/ ReadRejected(t) \/ CommandRejected(t) \/ TakeGate(t) \/ GateFindsDead(t)
        BY <1>0, <2>1 DEF ReadStore, InstallLoaded, RequestAnswered, ServiceRejects, ReadRejected,
                          CommandRejected, TakeGate, GateFindsDead
    <2>2. CASE FindDead(t) \/ AdoptStored(t) \/ SkipRefresh(t) \/ SpendToken(t) \/ NoRefreshToken(t)
        BY <1>0, <2>2 DEF FindDead, AdoptStored, SkipRefresh, SpendToken, NoRefreshToken
    <2>3. CASE RefreshAnswered(t) \/ LoginAnswered(t) \/ MintAnswered(t) \/ AccountAnswered(t)
        BY <1>0, <2>3 DEF RefreshAnswered, LoginAnswered, MintAnswered, AccountAnswered
    <2>4. CASE ServiceRefresh(t) \/ ServiceLogin(t) \/ ServiceMint(t) \/ ServiceAccount(t)
        <3>1. UNCHANGED budget \/ budget' = [budget EXCEPT !.lost = @ - 1]
            BY <2>4 DEF ServiceRefresh, ServiceLogin, ServiceMint, ServiceAccount, Reply
        <3> QED
            BY <1>0, <3>1 DEF OnlySpent
    <2>5. CASE ReadFails(t) \/ StoreFails(t)
        <3>1. budget' = [budget EXCEPT !.faults = @ - 1]
            BY <2>5 DEF ReadFails, StoreFails
        <3> QED
            BY <1>0, <3>1 DEF OnlySpent
    <2>6. CASE \/ TakeChanging(t) \/ StartCommit(t) \/ WriteStore(t)
               \/ SettleSaved(t) \/ SettleNewer(t) \/ SettleFailed(t)
        BY <1>0, <2>6 DEF TakeChanging, StartCommit, WriteStore, SettleSaved, SettleNewer, SettleFailed
    <2> QED
        BY <1>2, <2>1, <2>2, <2>3, <2>4, <2>5, <2>6 DEF Advance
<1>3. ASSUME NEW t \in Task, Cancel(t) PROVE OnlySpent
    <2>1. budget' = [budget EXCEPT !.cancels = @ - 1]
        BY <1>3 DEF Cancel
    <2> QED
        BY <1>0, <2>1 DEF OnlySpent
<1>4. ASSUME Elapse \/ UNCHANGED vars PROVE UNCHANGED budget
    BY <1>4 DEF Elapse, vars
<1> QED
    BY <1>0, <1>1, <1>2, <1>3, <1>4 DEF Next

\* A save fails only at the cost of a fault.
LEMMA FaultsSpent == TypeInv /\ [Next]_vars /\ budget'.faults = MaxFaults => budget.faults = MaxFaults
<1> SUFFICES ASSUME TypeInv, [Next]_vars, budget'.faults = MaxFaults PROVE budget.faults = MaxFaults
    OBVIOUS
<1>1. budget'.faults \in {budget.faults, budget.faults - 1} /\ budget.faults \in 0..MaxFaults
    BY BudgetSpent DEF OnlySpent, TypeInv, StoreTypes
<1> QED
    BY <1>1, TokenAssumption

\* At first the one saved pair is the one clients hold.
LEMMA SavedInit == Init => AllSaved
<1> SUFFICES ASSUME Init PROVE AllSaved
    OBVIOUS
<1>1. First.pair = 1 /\ Empty.pair = None
    BY DEF First, Empty
<1>2. Blank.stale = None /\ Blank.after = "none"
    BY DEF Blank
<1> QED
    BY <1>1, <1>2 DEF Init, AllSaved, SavedCall

\* What follows a change of a client's session to a saved one.
LEMMA AfterSaved ==
    ASSUME TypeInv, AllSaved, Grows, NEW t \in Task, NEW s, NEW ok, AfterChange(t, s, ok),
           s.pair \in history'.saved, Own(t) \in history'.saved
    PROVE  AllSaved'
<1> DEFINE l == [loc[t] EXCEPT !.answer = Answered("none", 0), !.why = "none", !.rec = Empty,
                               !.expected = NoBase, !.outcome = "none", !.acct = None]
<1>0. {"rotating", "minting", "lock"} \subseteq Step \ {"install", "decide", "settle", "request", "rejected"}
    BY DEF Step, Refreshing
<1>1. loc[t] \in Locals
    BY DEF TypeInv, CallTypes
<1>2. l.stale = loc[t].stale /\ l.after = loc[t].after
    BY <1>1 DEF Locals
<1>3. CASE End(t) \/ Established(t, s) \/ SendRequest(t, s, loc[t].stale # None)
    BY <1>3, EndSaved, SendSaved DEF Established
<1>4. ASSUME NEW step \in {"rotating", "minting", "lock"}, NEW m, at' = [at EXCEPT ![t] = step], Keep(t, m),
             m.stale = loc[t].stale
      PROVE  AllSaved'
    BY <1>0, <1>4, QuietSaved
<1>5. CASE /\ at' = [at EXCEPT ![t] = "rotating"]
           /\ Keep(t, [l EXCEPT !.acct = s.acct, !.after = "establish"])
    <2>1. [l EXCEPT !.acct = s.acct, !.after = "establish"].stale = loc[t].stale
        BY <1>1 DEF Locals
    <2> HIDE DEF l
    <2> QED
        BY <1>4, <1>5, <2>1
<1>6. CASE /\ at' = [at EXCEPT ![t] = "minting"]
           /\ Keep(t, [l EXCEPT !.acct = s.acct, !.acctRoot = s.origin, !.attempt = 1])
    <2>1. [l EXCEPT !.acct = s.acct, !.acctRoot = s.origin, !.attempt = 1].stale = loc[t].stale
        BY <1>1 DEF Locals
    <2> HIDE DEF l
    <2> QED
        BY <1>4, <1>6, <2>1
<1>7. CASE /\ at' = [at EXCEPT ![t] = "lock"]
           /\ Keep(t, [l EXCEPT !.why = "bury", !.spend = s.pair])
    <2>1. [l EXCEPT !.why = "bury", !.spend = s.pair].stale = loc[t].stale
        BY <1>1 DEF Locals
    <2> HIDE DEF l
    <2> QED
        BY <1>4, <1>7, <2>1
<1>8. CASE AccountRefreshed(t, s, ok, l)
    <2> HIDE DEF l
    <2> QED
        BY <1>3, <1>6, <1>7, <1>8 DEF AccountRefreshed
<1> QED
    <2> SUFFICES \/ End(t) \/ Established(t, s) \/ SendRequest(t, s, loc[t].stale # None)
                 \/ AccountRefreshed(t, s, ok, l)
                 \/ /\ at' = [at EXCEPT ![t] = "rotating"]
                    /\ Keep(t, [l EXCEPT !.acct = s.acct, !.after = "establish"])
        BY <1>3, <1>5, <1>8
    <2> QED
        BY DEF AfterChange, Buried

\* Every step keeps all saved, unless a save fails.
LEMMA SavedStep == TypeInv /\ AllSaved /\ [Next]_vars /\ budget'.faults = MaxFaults => AllSaved'
<1> SUFFICES ASSUME TypeInv, AllSaved, [Next]_vars, budget'.faults = MaxFaults PROVE AllSaved'
    OBVIOUS
<1> DEFINE Steps == Step \ {"install", "decide", "settle", "request", "rejected"}
<1>0. /\ \A t \in Task : ClientOf[t] \in Client /\ loc[t] \in Locals /\ Keep(t, loc[t]) = UNCHANGED loc
      /\ {"loading", "gate", "gated", "refreshing", "refreshed", "minting", "minted", "rotating", "rotated",
          "login", "loggedin", "lock", "start", "write"} \subseteq Steps
    BY TokenAssumption DEF TypeInv, CallTypes, Step, Refreshing, Keep
<1>1. UNCHANGED <<store, session, history>> => Grows
    BY DEF Grows, AllSaved
<1>2. \A t \in Task : SavedCall(at[t], loc[t], Mine(t).pair, history.saved)
    BY DEF AllSaved
<1>3. ASSUME NEW t \in Task, BeginCall(t) PROVE AllSaved'
    <2>1. Grows
        BY <1>1, <1>3 DEF BeginCall, BeginLoad, BeginRequest, BeginSignIn, BeginAlarms, clientVars
    <2>2. CASE BeginLoad(t) \/ BeginSignIn(t)
        <3>1. PICK step \in Steps : at' = [at EXCEPT ![t] = step] /\ Keep(t, loc[t])
            BY <1>0, <2>2 DEF BeginLoad, BeginSignIn, Go
        <3> QED
            BY <2>1, <3>1, QuietSaved
    <2>3. CASE BeginRequest(t)
        <3>1. CASE Go(t, "idle", "request") /\ Keep(t, [Blank EXCEPT !.used = Mine(t).pair]) /\ AccessValid(Mine(t))
            <4>1. Mine(t).pair \in history'.saved /\ Own(t) \in history'.saved
                BY <1>0, <2>1, <3>1 DEF AccessValid, AllSaved, Mine, Own, Grows
            <4>2. SavedCall("request", [Blank EXCEPT !.used = Mine(t).pair], Own(t), history'.saved)
                BY <4>1 DEF SavedCall, Blank
            <4> QED
                BY <2>1, <3>1, <4>2, MoveSaved DEF Go
        <3>2. CASE Go(t, "idle", "gate") /\ UNCHANGED loc
            BY <1>0, <2>1, <3>2, QuietSaved DEF Go
        <3> QED
            BY <2>3, <3>1, <3>2 DEF BeginRequest
    <2>4. CASE BeginAlarms(t)
        <3> DEFINE m == [Blank EXCEPT !.acct = Mine(t).acct, !.after = "alarms"]
        <3>1. m.stale = None /\ m.after # "establish" /\ at' = [at EXCEPT ![t] = "rotating"] /\ Keep(t, m)
            BY <2>4 DEF BeginAlarms, RefreshAccount, Blank
        <3> QED
            BY <1>0, <2>1, <3>1, QuietSaved
    <2> QED
        BY <1>3, <2>2, <2>3, <2>4 DEF BeginCall
<1>4. ASSUME NEW t \in Task, ReadStore(t) PROVE AllSaved'
    <2> DEFINE m == [loc[t] EXCEPT !.rec = store]
    <2>1. PICK step \in {"install", "decide"} : at' = [at EXCEPT ![t] = step] /\ Keep(t, m)
        BY <1>4 DEF ReadStore, Go
    <2>2. m.rec = store /\ m.stale = loc[t].stale /\ m.after = loc[t].after
        BY <1>0 DEF Locals
    <2>3. Grows /\ Own(t) = Mine(t).pair /\ UNCHANGED history
        BY <1>1, <1>4 DEF ReadStore, clientVars, Own, Mine
    <2>4. SavedCall(step, m, Own(t), history'.saved)
        <3> HIDE DEF m
        <3> QED
            BY <1>2, <2>2, <2>3 DEF SavedCall, AllSaved
    <2> HIDE DEF m
    <2> QED
        BY <2>1, <2>3, <2>4, MoveSaved
<1>5. ASSUME NEW t \in Task,
             ReadFails(t) \/ RequestAnswered(t) \/ GateFindsDead(t) \/ FindDead(t)
      PROVE  AllSaved'
    <2>1. Grows /\ End(t)
        BY <1>1, <1>5 DEF ReadFails, RequestAnswered, GateFindsDead, FindDead, clientVars
    <2> QED
        BY <2>1, EndSaved
<1>6. ASSUME NEW t \in Task, InstallLoaded(t) PROVE AllSaved'
    <2>1. loc[t].rec.pair \in history.saved
        BY <1>2, <1>6 DEF InstallLoaded, SavedCall
    <2>2. Grows
        BY <1>6, <2>1 DEF InstallLoaded, Install, Grows, AllSaved, TypeInv, StoreTypes
    <2> QED
        BY <1>6, <2>2, EndSaved DEF InstallLoaded
<1>7. ASSUME NEW t \in Task, ServiceRejects(t) PROVE AllSaved'
    <2>1. Grows /\ Own(t) = Mine(t).pair /\ UNCHANGED history
        BY <1>1, <1>7 DEF ServiceRejects, clientVars, Own, Mine
    <2>2. SavedCall("rejected", loc[t], Own(t), history'.saved)
        BY <1>2, <1>7, <2>1 DEF ServiceRejects, Go, SavedCall
    <2> QED
        BY <1>0, <1>7, <2>1, <2>2, MoveSaved DEF ServiceRejects, Go
<1>8. ASSUME NEW t \in Task, ReadRejected(t) PROVE AllSaved'
    <2>1. Grows /\ Own(t) = Mine(t).pair /\ UNCHANGED history
        BY <1>1, <1>8 DEF ReadRejected, clientVars, Own, Mine
    <2>2. CASE Go(t, "rejected", "gate") /\ Keep(t, [Blank EXCEPT !.stale = loc[t].used])
        <3>1. SavedCall("gate", [Blank EXCEPT !.stale = loc[t].used], Own(t), history'.saved)
            BY <1>2, <2>1, <2>2 DEF SavedCall, Go, Blank
        <3> QED
            BY <2>1, <2>2, <3>1, MoveSaved DEF Go
    <2>3. CASE End(t)
        BY <2>1, <2>3, EndSaved
    <2> QED
        BY <1>8, <2>2, <2>3 DEF ReadRejected
<1>9. ASSUME NEW t \in Task, CommandRejected(t) PROVE AllSaved'
    <2>1. \A c \in Client : session'[c].pair = session[c].pair
        BY <1>9 DEF CommandRejected, TypeInv, StoreTypes, Session
    <2>2. Grows
        BY <1>9, <2>1 DEF CommandRejected, Grows, AllSaved
    <2> QED
        BY <1>9, <2>2, EndSaved DEF CommandRejected
<1>10. ASSUME NEW t \in Task, TakeGate(t) PROVE AllSaved'
    <2>1. Grows
        BY <1>1, <1>10 DEF TakeGate, clientVars
    <2> QED
        BY <1>0, <1>10, <2>1, QuietSaved DEF TakeGate, Go
<1>11. ASSUME NEW t \in Task, AdoptStored(t) PROVE AllSaved'
    <2>1. loc[t].rec.pair \in history.saved
        BY <1>2, <1>11 DEF AdoptStored, SavedCall
    <2>2. Grows /\ Own(t) = loc[t].rec.pair /\ UNCHANGED history
        BY <1>0, <1>11, <2>1 DEF AdoptStored, Install, Grows, Own, AllSaved, TypeInv, StoreTypes
    <2> QED
        BY <1>11, <2>1, <2>2, SendSaved DEF AdoptStored
<1>12. ASSUME NEW t \in Task, SkipRefresh(t) PROVE AllSaved'
    <2>1. Grows /\ Own(t) = Mine(t).pair /\ UNCHANGED history
        BY <1>1, <1>12 DEF SkipRefresh, clientVars, Own, Mine
    <2>2. Mine(t).pair \in history.saved
        <3>1. CASE loc[t].stale = None
            <4>1. Mine(t).pair # None
                BY <1>12, <3>1 DEF SkipRefresh, NothingToDo, AccessValid
            <4> QED
                BY <1>0, <4>1 DEF AllSaved, Mine
        <3>2. CASE loc[t].stale # None
            BY <1>2, <3>2 DEF SavedCall
        <3> QED
            BY <3>1, <3>2
    <2> QED
        BY <1>12, <2>1, <2>2, SendSaved DEF SkipRefresh
<1>13. ASSUME NEW t \in Task, SpendToken(t) PROVE AllSaved'
    <2> DEFINE m == [loc[t] EXCEPT !.rec = Empty, !.spend = Mine(t).pair, !.root = Mine(t).origin]
    <2>1. m.stale = loc[t].stale /\ m.after = loc[t].after
        BY <1>0 DEF Locals
    <2>2. Grows /\ at' = [at EXCEPT ![t] = "refreshing"] /\ Keep(t, m)
        BY <1>1, <1>13 DEF SpendToken, Go, clientVars
    <2> HIDE DEF m
    <2> QED
        BY <1>0, <2>1, <2>2, QuietSaved
<1>14. ASSUME NEW t \in Task, NEW l \in Locals, l.stale = loc[t].stale, l.after = loc[t].after,
              Grows, Bury(t, l)
       PROVE  AllSaved'
    <2>1. /\ [l EXCEPT !.why = "bury", !.spend = Mine(t).pair].stale = loc[t].stale
          /\ [l EXCEPT !.why = "bury", !.spend = Mine(t).pair].after = loc[t].after
        BY <1>14 DEF Locals
    <2> QED
        BY <1>0, <1>14, <2>1, QuietSaved DEF Bury
<1>15. ASSUME NEW t \in Task, NEW l \in Locals, l.stale = loc[t].stale, l.after = loc[t].after,
              Grows, RenewOrBury(t, l)
       PROVE  AllSaved'
    <2>1. /\ [l EXCEPT !.acct = Mine(t).acct, !.acctRoot = Mine(t).origin].stale = loc[t].stale
          /\ [l EXCEPT !.acct = Mine(t).acct, !.acctRoot = Mine(t).origin].after = loc[t].after
        BY <1>15 DEF Locals
    <2>2. CASE Mine(t).acct = None
        BY <1>14, <1>15, <2>2 DEF RenewOrBury
    <2>3. CASE /\ at' = [at EXCEPT ![t] = "minting"]
               /\ Keep(t, [l EXCEPT !.acct = Mine(t).acct, !.acctRoot = Mine(t).origin])
        BY <1>0, <1>15, <2>1, <2>3, QuietSaved
    <2> QED
        BY <1>15, <2>2, <2>3 DEF RenewOrBury
<1>16. ASSUME NEW t \in Task PROVE
           LET l == [loc[t] EXCEPT !.answer = Answered("none", 0)]
           IN  l \in Locals /\ l.stale = loc[t].stale /\ l.after = loc[t].after
    BY <1>0 DEF Locals, Answered, Answer
<1>17. ASSUME NEW t \in Task, NEW why, Grows,
              at' = [at EXCEPT ![t] = "lock"], Keep(t, [loc[t] EXCEPT !.why = why])
       PROVE  AllSaved'
    <2>1. /\ [loc[t] EXCEPT !.why = why].stale = loc[t].stale
          /\ [loc[t] EXCEPT !.why = why].after = loc[t].after
        BY <1>0 DEF Locals
    <2> QED
        BY <1>0, <1>17, <2>1, QuietSaved
<1>18. ASSUME NEW t \in Task, NoRefreshToken(t) PROVE AllSaved'
    <2> DEFINE l == [loc[t] EXCEPT !.rec = Empty, !.root = Mine(t).origin]
    <2>1. Grows
        BY <1>1, <1>18 DEF NoRefreshToken, clientVars
    <2>2. Mine(t).origin \in Nat /\ Empty \in Session
        BY <1>0, TokenAssumption DEF TypeInv, StoreTypes, Mine, Session, Empty, None, Pairs, Accts
    <2>3. l \in Locals /\ l.stale = loc[t].stale /\ l.after = loc[t].after
        BY <1>0, <2>2 DEF Locals
    <2> HIDE DEF l
    <2> QED
        BY <1>15, <1>18, <2>1, <2>3 DEF NoRefreshToken, l
<1>19. ASSUME NEW t \in Task, RefreshAnswered(t) PROVE AllSaved'
    <2> DEFINE l == [loc[t] EXCEPT !.answer = Answered("none", 0)]
    <2>1. history'.saved = history.saved /\ UNCHANGED <<store, session>>
        BY <1>19 DEF RefreshAnswered, clientVars, AllSaved
    <2>2. Grows
        BY <1>19, <2>1 DEF RefreshAnswered, Grows, AllSaved
    <2>3. CASE at' = [at EXCEPT ![t] = "lock"] /\ Keep(t, [loc[t] EXCEPT !.why = "refresh"])
        BY <1>17, <2>2, <2>3
    <2>4. CASE RenewOrBury(t, l)
        BY <1>15, <1>16, <2>2, <2>4
    <2>5. CASE End(t)
        BY <2>2, <2>5, EndSaved
    <2> QED
        BY <1>19, <2>3, <2>4, <2>5 DEF RefreshAnswered
<1>20. ASSUME NEW t \in Task, LoginAnswered(t) PROVE AllSaved'
    <2>1. \A c \in Client : session'[c].pair = session[c].pair
        BY <1>20 DEF LoginAnswered, TypeInv, StoreTypes, Session
    <2>2. Grows
        BY <1>20, <2>1 DEF LoginAnswered, Grows, AllSaved
    <2>3. CASE at' = [at EXCEPT ![t] = "minting"] /\ Keep(t, [Blank EXCEPT !.acct = loc[t].answer.value])
        <3>1. /\ [Blank EXCEPT !.acct = loc[t].answer.value].stale = None
              /\ [Blank EXCEPT !.acct = loc[t].answer.value].after # "establish"
            BY DEF Blank
        <3> QED
            BY <1>0, <2>2, <2>3, <3>1, QuietSaved
    <2>4. CASE End(t)
        BY <2>2, <2>4, EndSaved
    <2> QED
        BY <1>20, <2>3, <2>4 DEF LoginAnswered
<1>21. ASSUME NEW t \in Task, MintAnswered(t) PROVE AllSaved'
    <2> DEFINE l == [loc[t] EXCEPT !.answer = Answered("none", 0)]
    <2>1. Grows
        BY <1>1, <1>21 DEF MintAnswered
    <2>2. CASE at' = [at EXCEPT ![t] = "lock"] /\ Keep(t, [loc[t] EXCEPT !.why = "mint"])
        BY <1>17, <2>1, <2>2
    <2>3. CASE RefreshAccount(t, l, "renew")
        <3>1. /\ [l EXCEPT !.acct = Mine(t).acct, !.after = "renew"].stale = loc[t].stale
              /\ [l EXCEPT !.acct = Mine(t).acct, !.after = "renew"].after # "establish"
            BY <1>16 DEF Locals
        <3> HIDE DEF l
        <3> QED
            BY <1>0, <2>1, <2>3, <3>1, QuietSaved DEF RefreshAccount
    <2>4. CASE Bury(t, l)
        BY <1>14, <1>16, <2>1, <2>4
    <2>5. CASE End(t)
        BY <2>1, <2>5, EndSaved
    <2> QED
        <3> HIDE DEF l
        <3> QED
            BY <1>21, <2>2, <2>3, <2>4, <2>5 DEF MintAnswered, l
<1>22. ASSUME NEW t \in Task, AccountAnswered(t) PROVE AllSaved'
    <2> DEFINE l == [loc[t] EXCEPT !.answer = Answered("none", 0)]
    <2>1. history'.saved = history.saved /\ UNCHANGED <<store, session>>
        BY <1>22 DEF AccountAnswered, clientVars, AllSaved
    <2>2. Grows /\ Own(t) = Mine(t).pair
        BY <1>22, <2>1 DEF AccountAnswered, Grows, AllSaved, Own, Mine
    <2>3. CASE at' = [at EXCEPT ![t] = "lock"] /\ Keep(t, [loc[t] EXCEPT !.why = "account"])
        BY <1>17, <2>2, <2>3
    <2>4. CASE loc[t].after = "establish" /\ Established(t, Mine(t))
        <3>1. Mine(t).pair \in history.saved
            BY <1>2, <2>4 DEF SavedCall
        <3> QED
            BY <2>1, <2>2, <2>4, <3>1, EndSaved, SendSaved DEF Established
    <2>5. CASE Bury(t, l)
        BY <1>14, <1>16, <2>2, <2>5
    <2>6. CASE End(t)
        BY <2>2, <2>6, EndSaved
    <2> QED
        <3> HIDE DEF l
        <3> QED
            BY <1>22, <2>3, <2>4, <2>5, <2>6 DEF AccountAnswered, l
<1>23. ASSUME NEW t \in Task, ServiceRefresh(t) \/ ServiceLogin(t) \/ ServiceMint(t) \/ ServiceAccount(t)
       PROVE  AllSaved'
    <2>1. history'.saved = history.saved /\ UNCHANGED <<store, session>>
        <3>1. UNCHANGED <<store, session>>
            BY <1>23 DEF ServiceRefresh, ServiceLogin, ServiceMint, ServiceAccount, Untouched, clientVars
        <3>2. CASE ServiceRefresh(t)
            BY <3>1, <3>2 DEF ServiceRefresh, AllSaved
        <3>3. CASE ServiceLogin(t) \/ ServiceMint(t) \/ ServiceAccount(t)
            BY <3>1, <3>3 DEF ServiceLogin, ServiceMint, ServiceAccount
        <3> QED
            BY <1>23, <3>2, <3>3
    <2>2. Grows
        <3>1. DOMAIN history' = DOMAIN history
            <4>1. CASE ServiceRefresh(t)
                BY <4>1 DEF ServiceRefresh
            <4>2. CASE ServiceLogin(t) \/ ServiceMint(t) \/ ServiceAccount(t)
                BY <4>2 DEF ServiceLogin, ServiceMint, ServiceAccount
            <4> QED
                BY <1>23, <4>1, <4>2
        <3> QED
            BY <2>1, <3>1 DEF Grows, AllSaved
    <2>3. PICK step \in {"refreshed", "loggedin", "minted", "rotated"} :
              at' = [at EXCEPT ![t] = step] /\ \E a : Keep(t, [loc[t] EXCEPT !.answer = a])
        <3>1. ASSUME NEW from, NEW to, NEW kind, NEW value,
                     Reply(t, from, to, kind, value) \/ Refuse(t, from, to, kind)
              PROVE  at' = [at EXCEPT ![t] = to] /\ \E a : Keep(t, [loc[t] EXCEPT !.answer = a])
            BY <3>1 DEF Reply, Refuse, Go
        <3>2. CASE ServiceRefresh(t)
            <4>1. \/ Reply(t, "refreshing", "refreshed", "pair", service.pairs + 1)
                  \/ Refuse(t, "refreshing", "refreshed", "spent")
                  \/ Refuse(t, "refreshing", "refreshed", "failed")
                BY <3>2 DEF ServiceRefresh
            <4> QED
                BY <4>1, <3>1
        <3>3. CASE ServiceLogin(t)
            <4>1. \/ Reply(t, "login", "loggedin", "acct", service.accts + 1)
                  \/ Refuse(t, "login", "loggedin", "failed")
                BY <3>3 DEF ServiceLogin
            <4> QED
                BY <4>1, <3>1
        <3>4. CASE ServiceMint(t)
            <4>1. \/ Reply(t, "minting", "minted", "pair", service.pairs + 1)
                  \/ Refuse(t, "minting", "minted", "refused")
                  \/ Refuse(t, "minting", "minted", "failed")
                BY <3>4 DEF ServiceMint
            <4> QED
                BY <4>1, <3>1
        <3>5. CASE ServiceAccount(t)
            <4>1. \/ Reply(t, "rotating", "rotated", "acct", service.accts + 1)
                  \/ Refuse(t, "rotating", "rotated", "refused")
                  \/ Refuse(t, "rotating", "rotated", "failed")
                BY <3>5 DEF ServiceAccount
            <4> QED
                BY <4>1, <3>1
        <3> QED
            BY <1>23, <3>2, <3>3, <3>4, <3>5
    <2>4. PICK a : Keep(t, [loc[t] EXCEPT !.answer = a])
        BY <2>3
    <2>5. [loc[t] EXCEPT !.answer = a].stale = loc[t].stale /\ [loc[t] EXCEPT !.answer = a].after = loc[t].after
        BY <1>0 DEF Locals
    <2> QED
        BY <1>0, <2>2, <2>3, <2>4, <2>5, QuietSaved
<1>24. ASSUME NEW t \in Task, TakeChanging(t) \/ StartCommit(t) PROVE AllSaved'
    <2>1. Grows
        BY <1>1, <1>24 DEF TakeChanging, StartCommit, clientVars
    <2>2. CASE TakeChanging(t)
        <3> DEFINE m == [loc[t] EXCEPT !.rec = Built(t, Mine(t))]
        <3>1. m.stale = loc[t].stale /\ m.after = loc[t].after
            BY <1>0 DEF Locals
        <3>2. at' = [at EXCEPT ![t] = "start"] /\ Keep(t, m)
            BY <2>2 DEF TakeChanging, Go
        <3> HIDE DEF m
        <3> QED
            BY <1>0, <2>1, <3>1, <3>2, QuietSaved
    <2>3. CASE StartCommit(t)
        <3> DEFINE m == [loc[t] EXCEPT !.expected = IF SigningIn(t) THEN NoBase ELSE base[ClientOf[t]]]
        <3>1. m.stale = loc[t].stale /\ m.after = loc[t].after
            BY <1>0 DEF Locals
        <3>2. at' = [at EXCEPT ![t] = "write"] /\ Keep(t, m)
            BY <2>3 DEF StartCommit, Go
        <3> HIDE DEF m
        <3> QED
            BY <1>0, <2>1, <3>1, <3>2, QuietSaved
    <2> QED
        BY <1>24, <2>2, <2>3
<1>25. ASSUME NEW t \in Task, WriteStore(t) PROVE AllSaved'
    <2>1. PICK r, o :
              /\ o \in {"saved", "newer"}
              /\ Keep(t, [loc[t] EXCEPT !.rec = r, !.outcome = o])
              /\ \/ store' = r /\ history' = [history EXCEPT !.saved = @ \cup {r.pair}]
                 \/ r = store /\ UNCHANGED <<store, history>>
        <3> DEFINE new == IF SigningIn(t) THEN [loc[t].rec EXCEPT !.origin = store.origin + 1] ELSE loc[t].rec
        <3>1. \/ /\ store' = new
                 /\ history' = [history EXCEPT !.saved = @ \cup {new.pair}]
                 /\ Keep(t, [loc[t] EXCEPT !.rec = new, !.outcome = "saved"])
              \/ /\ Keep(t, [loc[t] EXCEPT !.rec = store, !.outcome = "newer"])
                 /\ UNCHANGED <<store, history>>
            BY <1>25 DEF WriteStore
        <3> HIDE DEF new
        <3> QED
            BY <3>1
    <2>0. "saved" \in DOMAIN history'
        BY <1>25 DEF WriteStore, AllSaved
    <2> DEFINE m == [loc[t] EXCEPT !.rec = r, !.outcome = o]
    <2>2. m.rec = r /\ m.outcome = o /\ m.stale = loc[t].stale /\ m.after = loc[t].after
        BY <1>0 DEF Locals
    <2>3. Grows /\ Own(t) = Mine(t).pair /\ r.pair \in history'.saved
        BY <1>25, <2>0, <2>1 DEF WriteStore, clientVars, Grows, AllSaved, Own, Mine
    <2>4. SavedCall("settle", m, Own(t), history'.saved)
        <3> HIDE DEF m
        <3> QED
            BY <1>2, <2>1, <2>2, <2>3 DEF SavedCall, Grows
    <2> HIDE DEF m
    <2>5. at' = [at EXCEPT ![t] = "settle"] /\ Keep(t, m)
        BY <1>25, <2>1 DEF WriteStore, Go, m
    <2> QED
        BY <2>3, <2>4, <2>5, MoveSaved
<1>26. ASSUME NEW t \in Task, StoreFails(t) PROVE FALSE
    BY <1>26, TokenAssumption DEF StoreFails, TypeInv, StoreTypes
<1>27. ASSUME NEW t \in Task, SettleSaved(t) \/ SettleNewer(t) PROVE AllSaved'
    <2>1. loc[t].rec.pair \in history.saved
        BY <1>2, <1>27 DEF SettleSaved, SettleNewer, SavedCall
    <2>2. Grows /\ Own(t) = loc[t].rec.pair /\ UNCHANGED history
        BY <1>0, <1>27, <2>1
           DEF SettleSaved, SettleNewer, Install, Grows, Own, AllSaved, TypeInv, StoreTypes
    <2>3. AfterChange(t, loc[t].rec, TRUE) \/ AfterChange(t, loc[t].rec, FALSE)
        BY <1>27 DEF SettleSaved, SettleNewer
    <2> QED
        BY <2>1, <2>2, <2>3, AfterSaved
<1>28. ASSUME NEW t \in Task, SettleFailed(t) PROVE FALSE
    BY <1>2, <1>28 DEF SettleFailed, SavedCall
<1>29. ASSUME NEW t \in Task, Cancel(t) PROVE AllSaved'
    <2>1. Grows /\ Own(t) = Mine(t).pair /\ UNCHANGED history
        BY <1>1, <1>29 DEF Cancel, clientVars, Own, Mine
    <2>2. CASE at[t] \in Committing /\ Keep(t, [loc[t] EXCEPT !.cancelled = TRUE]) /\ UNCHANGED at
        <3> DEFINE m == [loc[t] EXCEPT !.cancelled = TRUE]
        <3>1. /\ m.rec = loc[t].rec /\ m.used = loc[t].used /\ m.outcome = loc[t].outcome
              /\ m.stale = loc[t].stale /\ m.after = loc[t].after
            BY <1>0 DEF Locals
        <3>2. SavedCall(at[t], m, Own(t), history'.saved)
            <4> HIDE DEF m
            <4> QED
                BY <1>2, <2>1, <3>1 DEF SavedCall
        <3>3. at' = [at EXCEPT ![t] = at[t]] /\ Keep(t, m)
            BY <2>2 DEF TypeInv, CallTypes
        <3> HIDE DEF m
        <3> QED
            BY <2>1, <3>2, <3>3, MoveSaved
    <2>3. CASE End(t)
        BY <2>1, <2>3, EndSaved
    <2> QED
        BY <1>29, <2>2, <2>3 DEF Cancel
<1>30. ASSUME Elapse \/ UNCHANGED vars PROVE AllSaved'
    BY <1>30 DEF Elapse, vars, clientVars, taskVars, AllSaved, SavedCall, Mine
<1>31. ASSUME NEW t \in Task, Advance(t) PROVE AllSaved'
    <2>1. CASE SkipRefresh(t) \/ SpendToken(t) \/ AdoptStored(t) \/ NoRefreshToken(t) \/ TakeGate(t)
        BY <1>10, <1>11, <1>12, <1>13, <1>18, <2>1
    <2> QED
        BY <1>31, <1>4, <1>5, <1>6, <1>7, <1>8, <1>9, <1>19, <1>20, <1>21, <1>22, <1>23, <1>24, <1>25,
           <1>26, <1>27, <1>28, <2>1 DEF Advance
<1> QED
    BY <1>3, <1>29, <1>30, <1>31 DEF Next

\* No request carries a pair that was not saved before, whatever the clients, tasks and bounds,
\* as long as no save failed (_refresh, _commit): the save comes first on every way to a request.
THEOREM TokenSavedBeforeUse == Spec => []SavedBeforeUse
<1>1. SavedInv => SavedBeforeUse
    BY DEF SavedInv, AllSaved, SavedCall, SavedBeforeUse
<1>2. Init => SavedInv
    BY TypeInit, SavedInit DEF SavedInv
<1>3. SavedInv /\ [Next]_vars => SavedInv'
    BY TypeStep, FaultsSpent, SavedStep DEF SavedInv
<1> QED
    BY <1>1, <1>2, <1>3, PTL DEF Spec
---------------------------------------------------------------------------------
(* A client that has its store to itself *)

\* The one client of its store has loaded the session and neither loads nor signs in any more.
SoleClient ==
    /\ \A c, d \in Client : c = d
    /\ Loaded = Client
    /\ \A t \in Task : Jobs[t] \subseteq {"read", "command", "alarms"}

Requests == {"read", "command"}

\* A session that was given up.
Gone(s) == s.pair = None /\ s.expired

\* What is known of a call, of kind j, at a step with locals l: a read of the alerts changes
\* nothing but the account token, and what a call found saved instead of its own is alive.
FitCall(step, j, l) ==
    /\ j \in {"none", "alarms"} \cup Requests
    /\ step \notin {"loading", "install", "login", "loggedin"}
    /\ step \in {"gate", "gated", "decide", "refreshing", "refreshed", "minting", "minted"} => j \in Requests
    /\ step \in {"rotating", "rotated"} \cup Changing =>
          \/ j \in Requests
          \/ j = "alarms" /\ l.after = "alarms" /\ (step \in Changing => l.why = "account")
    /\ step \in Changing => l.why # "none"
    /\ step \in {"start", "write"} /\ l.why = "bury" => Gone(l.rec)
    /\ step = "settle" /\ l.outcome = "newer" => ~l.rec.expired

\* A call that has saved that its session is given up.
HasBuried(step, l) == step = "settle" /\ l.why = "bury" /\ l.outcome = "saved"

\* While the saved session is alive, what was read of it or built from it is.
AliveCall(step, l) ==
    /\ step = "decide" => ~l.rec.expired
    /\ step \in Committing => l.why = "bury" \/ ~l.rec.expired
    /\ ~HasBuried(step, l)

\* Once it is given up no refresh gets past its look at the store, and nothing revives it.
GoneCall(step, j, l) ==
    /\ step \in Refreshing /\ j \in Requests =>
          step = "gated" \/ (step = "decide" /\ Gone(l.rec)) \/ HasBuried(step, l)
    /\ step \in Committing => Gone(l.rec)
    /\ step = "write" => l.expected = None

SoleCall(step, j, l) ==
    FitCall(step, j, l) /\ IF store.expired THEN GoneCall(step, j, l) ELSE AliveCall(step, l)

SoleCalls == \A t \in Task : SoleCall(at[t], job[t], loc[t])

\* The client's own session follows the saved one.
SoleStore ==
    /\ ~store.expired => \A c \in Client : ~session[c].expired
    /\ store.expired =>
          /\ store.pair = None
          /\ \/ \A c \in Client : base[c] = None /\ Gone(session[c])
             \/ \E t \in Task : HasBuried(at[t], loc[t])

\* No refresh is under way on a dead session.
RefreshAlive == \A t \in Task : InRefresh(t) => ~authDead[ClientOf[t]]

SoleInv == SoleCalls /\ SoleStore /\ RefreshAlive
---------------------------------------------------------------------------------
\* A step of task t, to the given step, job and locals.
Moves(t, step, j, l) ==
    /\ at'[t] = step /\ job'[t] = j /\ loc'[t] = l
    /\ \A u \in Task \ {t} : at'[u] = at[u] /\ job'[u] = job[u] /\ loc'[u] = loc[u]

OthersAlive(t) == \A u \in Task \ {t} : InRefresh(u) => ~authDead'[ClientOf[u]]

\* The one client's part of the state that SoleStore is about is left alone.
SameStore ==
    /\ UNCHANGED <<store, base>>
    /\ \A c \in Client : session'[c].pair = session[c].pair /\ session'[c].expired = session[c].expired

LEMMA Moved ==
    ASSUME TypeInv, NEW t \in Task, NEW step, NEW j, NEW l, at' = [at EXCEPT ![t] = step], Keep(t, l),
           job' = [job EXCEPT ![t] = j] \/ (UNCHANGED job /\ j = job[t])
    PROVE  Moves(t, step, j, l)
BY DEF TypeInv, CallTypes, Keep, Moves

\* A step that leaves the saved session alone keeps the invariant if it keeps its parts.
LEMMA SoleMove ==
    ASSUME SoleInv, NEW t \in Task, NEW step, NEW j, NEW l, Moves(t, step, j, l),
           UNCHANGED store, SoleStore', SoleCall(step, j, l), OthersAlive(t),
           step \in Refreshing /\ j \in Requests => ~authDead'[ClientOf[t]]
    PROVE  SoleInv'
<1>1. SoleCalls'
    <2> SUFFICES ASSUME NEW u \in Task PROVE SoleCall(at[u], job[u], loc[u])'
        BY DEF SoleCalls
    <2>1. CASE u = t
        BY <2>1 DEF Moves, SoleCall, AliveCall, GoneCall
    <2>2. CASE u # t
        <3>1. at'[u] = at[u] /\ job'[u] = job[u] /\ loc'[u] = loc[u]
            BY <2>2 DEF Moves
        <3>2. SoleCall(at[u], job[u], loc[u])
            BY DEF SoleInv, SoleCalls
        <3> QED
            BY <3>1, <3>2 DEF SoleCall
    <2> QED
        BY <2>1, <2>2
<1>2. RefreshAlive'
    BY DEF Moves, RefreshAlive, InRefresh, OthersAlive, Requests
<1> QED
    BY <1>1, <1>2 DEF SoleInv

\* Nothing changes for the saved session as long as a burial that was saved is not settled.
LEMMA SoleStoreKept ==
    ASSUME SoleInv, NEW t \in Task, NEW step, NEW j, NEW l, Moves(t, step, j, l), SameStore,
           HasBuried(at[t], loc[t]) => HasBuried(step, l)
    PROVE  SoleStore'
<1>1. ASSUME NEW u \in Task, HasBuried(at[u], loc[u]) PROVE HasBuried(at'[u], loc'[u])
    BY <1>1 DEF Moves
<1>2. SoleStore
    BY DEF SoleInv
<1>3. (\E u \in Task : HasBuried(at[u], loc[u])) => (\E u \in Task : HasBuried(at[u], loc[u]))'
    BY <1>1
<1> QED
    BY <1>2, <1>3 DEF SoleStore, SameStore, Gone

\* A call that goes on and changes nothing but its own part.
LEMMA SoleGoesOn ==
    ASSUME SoleInv, NEW t \in Task, NEW step, NEW j, NEW l, Moves(t, step, j, l),
           SameStore, UNCHANGED authDead, ~HasBuried(at[t], loc[t]), SoleCall(step, j, l),
           step \in Refreshing /\ j \in Requests => InRefresh(t) \/ ~authDead[ClientOf[t]]
    PROVE  SoleInv'
<1>1. SoleStore'
    BY SoleStoreKept
<1>2. OthersAlive(t)
    BY DEF OthersAlive, SoleInv, RefreshAlive
<1>3. UNCHANGED store
    BY DEF SameStore
<1>4. step \in Refreshing /\ j \in Requests => ~authDead'[ClientOf[t]]
    BY DEF SoleInv, RefreshAlive
<1> QED
    BY <1>1, <1>2, <1>3, <1>4, SoleMove

\* A call that ends, and one that sends its request.
LEMMA SoleEnd ==
    ASSUME TypeInv, SoleInv, NEW t \in Task, End(t), UNCHANGED store, SoleStore', OthersAlive(t)
    PROVE  SoleInv'
<1>1. Moves(t, "idle", "none", Blank)
    BY Moved DEF End
<1>2. SoleCall("idle", "none", Blank) /\ "idle" \notin Refreshing
    BY DEF SoleCall, FitCall, AliveCall, GoneCall, HasBuried, Refreshing, Committing, Changing, Requests
<1> QED
    BY <1>1, <1>2, SoleMove

LEMMA SoleSend ==
    ASSUME TypeInv, SoleInv, NEW t \in Task, NEW s, NEW again, SendRequest(t, s, again),
           UNCHANGED store, SoleStore', OthersAlive(t)
    PROVE  SoleInv'
<1> DEFINE l == [Blank EXCEPT !.used = s.pair, !.again = again]
<1>1. Moves(t, "request", job[t], l)
    BY Moved DEF SendRequest
<1>2. job[t] \in {"none", "alarms"} \cup Requests
    BY DEF SoleInv, SoleCalls, SoleCall, FitCall
<1> HIDE DEF l
<1>3. SoleCall("request", job[t], l) /\ "request" \notin Refreshing
    BY <1>2 DEF SoleCall, FitCall, AliveCall, GoneCall, HasBuried, Refreshing, Committing, Changing
<1> QED
    BY <1>1, <1>3, SoleMove

\* Of the calls of one client at most one refreshes, and at most one changes the session.
LEMMA SoleAlone ==
    ASSUME LockInv, SoleClient, NEW t \in Task, NEW u \in Task
    PROVE  /\ InRefresh(t) /\ InRefresh(u) => u = t
           /\ at[t] \in Committing /\ at[u] \in Committing => u = t
           /\ at[t] \in Committing => changing[ClientOf[u]] # NoTask
<1>1. ClientOf[t] = ClientOf[u] /\ t # NoTask
    BY TokenAssumption DEF SoleClient
<1> QED
    BY <1>1 DEF LockInv, GateHeld, ChangingHeld, GateOf

\* A refresh that is past its look at the store has a live session, the saved one included.
LEMMA SoleRefreshes ==
    ASSUME SoleInv, NEW t \in Task
    PROVE  /\ at[t] \in {"refreshing", "refreshed", "minting", "minted"} =>
                  job[t] \in Requests /\ ~store.expired
           /\ at[t] \in {"rotating", "rotated", "lock", "start", "write"} =>
                  \/ job[t] \in Requests /\ ~store.expired
                  \/ job[t] = "alarms" /\ loc[t].after = "alarms"
           /\ at[t] \in {"gated", "decide"} => job[t] \in Requests
<1>1. SoleCall(at[t], job[t], loc[t])
    BY DEF SoleInv, SoleCalls
<1> QED
    BY <1>1 DEF SoleCall, FitCall, GoneCall, HasBuried, Refreshing, Requests, Changing, Committing

\* Nothing is asked of a refresh on a live session between its look at the store and its turn.
LEMMA SoleLive ==
    ASSUME ~store.expired, NEW j \in Requests, NEW l,
           NEW step \in {"refreshing", "refreshed", "minting", "minted", "rotating", "rotated", "lock"},
           step = "lock" => l.why # "none"
    PROVE  SoleCall(step, j, l)
BY DEF SoleCall, FitCall, AliveCall, HasBuried, Requests, Changing, Committing

\* What follows a change: the call goes on only if its session is alive.
LEMMA SoleAfter ==
    ASSUME TypeInv, SoleInv, NEW t \in Task, at[t] = "settle", NEW s, NEW ok, AfterChange(t, s, ok),
           UNCHANGED store, SoleStore', OthersAlive(t), loc[t].outcome = "saved" => ok,
           loc[t].why # "bury" /\ job[t] \in Requests => ~authDead'[ClientOf[t]]
    PROVE  SoleInv'
<1> DEFINE l == [loc[t] EXCEPT !.answer = Answered("none", 0), !.why = "none", !.rec = Empty,
                               !.expected = NoBase, !.outcome = "none", !.acct = None]
<1> HIDE DEF l
<1>1. SoleCall(at[t], job[t], loc[t])
    BY DEF SoleInv, SoleCalls
<1>2. \/ job[t] \in Requests /\ (store.expired => loc[t].why = "bury" /\ ok)
      \/ job[t] = "alarms" /\ loc[t].after = "alarms" /\ loc[t].why = "account"
    BY <1>1 DEF SoleCall, FitCall, GoneCall, HasBuried, Refreshing, Changing, Committing
<1>3. CASE End(t) \/ SendRequest(t, s, loc[t].stale # None)
    BY <1>3, SoleEnd, SoleSend
<1>4. ASSUME NEW step \in {"rotating", "minting", "lock"}, NEW m, at' = [at EXCEPT ![t] = step], Keep(t, m),
             step = "lock" => m.why # "none",
             UNCHANGED job, job[t] \in Requests, ~store.expired, loc[t].why # "bury"
      PROVE  SoleInv'
    <2>1. Moves(t, step, job[t], m)
        BY <1>4, Moved
    <2>2. SoleCall(step, job[t], m)
        BY <1>4, SoleLive
    <2> QED
        BY <1>4, <2>1, <2>2, SoleMove
<1>5. CASE loc[t].cancelled \/ loc[t].why = "bury"
    BY <1>3, <1>5 DEF AfterChange, Buried
<1>6. CASE ~loc[t].cancelled /\ loc[t].why = "refresh"
    BY <1>3, <1>6 DEF AfterChange
<1>7. CASE ~loc[t].cancelled /\ loc[t].why = "mint"
    <2>1. job[t] \in Requests /\ ~store.expired
        BY <1>2, <1>7
    <2>2. \/ Established(t, s)
          \/ \E m : at' = [at EXCEPT ![t] = "rotating"] /\ Keep(t, m) /\ UNCHANGED job
        BY <1>7 DEF AfterChange
    <2>3. CASE Established(t, s)
        BY <1>3, <2>3 DEF Established
    <2> QED
        BY <1>4, <1>7, <2>1, <2>2, <2>3
<1>8. CASE ~loc[t].cancelled /\ loc[t].why \notin {"refresh", "mint", "bury"}
    <2>1. AccountRefreshed(t, s, ok, l)
        BY <1>8 DEF AfterChange, l
    <2>2. CASE loc[t].after = "establish"
        BY <1>3, <2>1, <2>2 DEF AccountRefreshed, Established
    <2>3. CASE loc[t].after = "renew"
        <3>1. job[t] \in Requests /\ ~store.expired
            BY <1>2, <1>8, <2>3
        <3>0. [l EXCEPT !.why = "bury", !.spend = s.pair].why = "bury"
            BY DEF l, TypeInv, CallTypes, Locals
        <3>2. \E m : /\ \/ at' = [at EXCEPT ![t] = "minting"]
                        \/ at' = [at EXCEPT ![t] = "lock"] /\ m.why # "none"
                     /\ Keep(t, m) /\ UNCHANGED job
            BY <2>1, <2>3, <3>0 DEF AccountRefreshed
        <3> QED
            BY <1>4, <1>8, <3>1, <3>2
    <2>4. CASE loc[t].after \notin {"establish", "renew"}
        BY <1>3, <2>1, <2>4 DEF AccountRefreshed
    <2> QED
        BY <2>2, <2>3, <2>4
<1> QED
    BY <1>5, <1>6, <1>7, <1>8

\* Every step of a client that has its store to itself keeps its invariant.
LEMMA SoleStep == SoleClient /\ TypeInv /\ LockInv /\ SoleInv /\ [Next]_vars => SoleInv'
<1> SUFFICES ASSUME SoleClient, TypeInv, LockInv, SoleInv, [Next]_vars PROVE SoleInv'
    OBVIOUS
<1>0. \A t \in Task : ClientOf[t] \in Client /\ loc[t] \in Locals /\ SoleCall(at[t], job[t], loc[t])
    BY TokenAssumption DEF TypeInv, CallTypes, SoleInv, SoleCalls
<1>1. ASSUME NEW t \in Task, UNCHANGED authDead \/ InRefresh(t) \/ authDead' = [authDead EXCEPT ![ClientOf[t]] = FALSE]
      PROVE  OthersAlive(t)
    <2> SUFFICES ASSUME NEW u \in Task, u # t, InRefresh(u) PROVE ~authDead'[ClientOf[u]]
        BY DEF OthersAlive
    <2>1. ~authDead[ClientOf[u]] /\ ~InRefresh(t)
        BY SoleAlone DEF SoleInv, RefreshAlive
    <2> QED
        BY <1>0, <1>1, <2>1 DEF TypeInv, StoreTypes
<1>2. ASSUME NEW t \in Task, BeginCall(t) PROVE SoleInv'
    <2>0. ~BeginLoad(t) /\ ~BeginSignIn(t)
        BY DEF BeginLoad, BeginSignIn, Begin, SoleClient
    <2>1. CASE BeginRequest(t)
        <3>1. PICK kind, step, l : /\ kind \in Requests /\ step \in {"request", "gate"}
                                   /\ Moves(t, step, kind, l) /\ at[t] = "idle"
            <4>1. PICK kind \in Requests : at[t] = "idle" /\ job' = [job EXCEPT ![t] = kind]
                BY <2>1 DEF BeginRequest, Begin, Requests
            <4>2. CASE at' = [at EXCEPT ![t] = "request"] /\ Keep(t, [Blank EXCEPT !.used = Mine(t).pair])
                <5>1. Moves(t, "request", kind, [Blank EXCEPT !.used = Mine(t).pair])
                    BY <4>1, <4>2, Moved
                <5> QED
                    BY <4>1, <5>1
            <4>3. CASE at' = [at EXCEPT ![t] = "gate"] /\ Keep(t, loc[t])
                <5>1. Moves(t, "gate", kind, loc[t])
                    BY <4>1, <4>3, Moved
                <5> QED
                    BY <4>1, <5>1
            <4>4. UNCHANGED loc => Keep(t, loc[t])
                BY DEF Keep, TypeInv, CallTypes
            <4> QED
                BY <2>1, <4>2, <4>3, <4>4 DEF BeginRequest, Go
        <3>2. SoleCall(step, kind, l) /\ step \notin Refreshing /\ ~HasBuried(at[t], loc[t])
            BY <3>1 DEF SoleCall, FitCall, AliveCall, GoneCall, HasBuried, Refreshing, Committing, Changing
        <3>3. SameStore /\ UNCHANGED authDead
            BY <2>1 DEF BeginRequest, SameStore, clientVars
        <3> QED
            BY <3>1, <3>2, <3>3, SoleGoesOn
    <2>2. CASE BeginAlarms(t)
        <3> DEFINE l == [Blank EXCEPT !.acct = Mine(t).acct, !.after = "alarms"]
        <3>1. Moves(t, "rotating", "alarms", l) /\ l.after = "alarms" /\ at[t] = "idle"
            BY <2>2, Moved DEF BeginAlarms, Begin, RefreshAccount, Blank
        <3> HIDE DEF l
        <3>2. SoleCall("rotating", "alarms", l) /\ "alarms" \notin Requests /\ ~HasBuried(at[t], loc[t])
            BY <3>1 DEF SoleCall, FitCall, AliveCall, GoneCall, HasBuried, Committing, Changing, Requests
        <3>3. SameStore /\ UNCHANGED authDead
            BY <2>2 DEF BeginAlarms, SameStore, clientVars
        <3> QED
            BY <3>1, <3>2, <3>3, SoleGoesOn
    <2> QED
        BY <1>2, <2>0, <2>1, <2>2 DEF BeginCall
<1>3. ASSUME NEW t \in Task, End(t), SameStore, UNCHANGED authDead, at[t] # "settle" PROVE SoleInv'
    <2>1. Moves(t, "idle", "none", Blank)
        BY <1>3, Moved DEF End
    <2>2. SoleStore'
        BY <1>3, <2>1, SoleStoreKept DEF HasBuried
    <2> QED
        BY <1>1, <1>3, <2>2, SoleEnd DEF SameStore
<1>4. ASSUME NEW t \in Task, NEW s, NEW again, SendRequest(t, s, again), SameStore, UNCHANGED authDead,
             at[t] # "settle"
      PROVE  SoleInv'
    <2>1. Moves(t, "request", job[t], [Blank EXCEPT !.used = s.pair, !.again = again])
        BY <1>4, Moved DEF SendRequest
    <2>2. SoleStore'
        BY <1>4, <2>1, SoleStoreKept DEF HasBuried
    <2> QED
        BY <1>1, <1>4, <2>2, SoleSend DEF SameStore
<1>5. UNCHANGED <<store, session, base>> => SameStore
    BY DEF SameStore
\* A refresh that goes on, on a live session.
<1>6. ASSUME NEW t \in Task, NEW step \in {"refreshing", "refreshed", "minting", "minted", "rotating", "rotated", "lock"},
             NEW l, step = "lock" => l.why # "none",
             at' = [at EXCEPT ![t] = step], Keep(t, l), UNCHANGED <<job, store, session, base, authDead>>,
             job[t] \in Requests, ~store.expired, InRefresh(t), at[t] # "settle"
      PROVE  SoleInv'
    <2>1. Moves(t, step, job[t], l)
        BY <1>6, Moved
    <2>2. SoleCall(step, job[t], l)
        BY <1>6, SoleLive
    <2> QED
        BY <1>5, <1>6, <2>1, <2>2, SoleGoesOn DEF HasBuried
<1>7. ASSUME NEW t \in Task, ReadStore(t) PROVE SoleInv'
    <2> DEFINE l == [loc[t] EXCEPT !.rec = store]
    <2>1. at[t] # "loading"
        BY <1>0 DEF SoleCall, FitCall
    <2>2. Moves(t, "decide", job[t], l) /\ l.rec = store /\ at[t] = "gated"
        BY <1>0, <1>7, <2>1, Moved DEF ReadStore, Go, Locals
    <2>3. job[t] \in Requests /\ InRefresh(t)
        BY <2>2, SoleRefreshes DEF InRefresh, Refreshing, Requests
    <2>4. store.expired => store.pair = None
        BY DEF SoleInv, SoleStore
    <2> HIDE DEF l
    <2>5. SoleCall("decide", job[t], l)
        BY <2>2, <2>3, <2>4 DEF SoleCall, FitCall, AliveCall, GoneCall, HasBuried, Gone, Requests, Committing, Changing
    <2> QED
        BY <1>5, <1>7, <2>2, <2>3, <2>5, SoleGoesOn DEF ReadStore, clientVars, HasBuried
<1>8. ASSUME NEW t \in Task, ReadFails(t) \/ RequestAnswered(t) \/ GateFindsDead(t) PROVE SoleInv'
    BY <1>3, <1>5, <1>8 DEF ReadFails, RequestAnswered, GateFindsDead, clientVars
<1>9. ASSUME NEW t \in Task, InstallLoaded(t) PROVE FALSE
    BY <1>0, <1>9 DEF InstallLoaded, SoleCall, FitCall
<1>10. ASSUME NEW t \in Task, ServiceRejects(t) PROVE SoleInv'
    <2>1. at' = [at EXCEPT ![t] = "rejected"] /\ Keep(t, loc[t]) /\ at[t] = "request"
        BY <1>10 DEF ServiceRejects, Go, Keep, TypeInv, CallTypes
    <2>2. Moves(t, "rejected", job[t], loc[t])
        BY <1>10, <2>1, Moved DEF ServiceRejects
    <2>3. SoleCall("rejected", job[t], loc[t]) /\ "rejected" \notin Refreshing
        BY <1>0, <2>1 DEF SoleCall, FitCall, AliveCall, GoneCall, HasBuried, Refreshing, Committing, Changing
    <2> QED
        BY <1>5, <1>10, <2>1, <2>2, <2>3, SoleGoesOn DEF ServiceRejects, clientVars, HasBuried
<1>11. ASSUME NEW t \in Task, ReadRejected(t) PROVE SoleInv'
    <2>1. CASE /\ Go(t, "rejected", "gate") /\ UNCHANGED job
               /\ Keep(t, [Blank EXCEPT !.stale = loc[t].used])
        <3> DEFINE l == [Blank EXCEPT !.stale = loc[t].used]
        <3>1. Moves(t, "gate", job[t], l) /\ at[t] = "rejected" /\ job[t] \in Requests
            BY <1>11, <2>1, Moved DEF Go, ReadRejected, Requests
        <3> HIDE DEF l
        <3>2. SoleCall("gate", job[t], l) /\ "gate" \notin Refreshing
            BY <3>1 DEF SoleCall, FitCall, AliveCall, GoneCall, HasBuried, Refreshing, Committing, Changing
        <3> QED
            BY <1>5, <1>11, <3>1, <3>2, SoleGoesOn DEF ReadRejected, clientVars, HasBuried
    <2> QED
        BY <1>3, <1>5, <1>11, <2>1 DEF ReadRejected, clientVars
<1>12. ASSUME NEW t \in Task, CommandRejected(t) PROVE SoleInv'
    <2>1. SameStore
        BY <1>12 DEF CommandRejected, SameStore, TypeInv, StoreTypes, Session
    <2> QED
        BY <1>3, <1>12, <2>1 DEF CommandRejected
<1>13. ASSUME NEW t \in Task, TakeGate(t) PROVE SoleInv'
    <2>1. at' = [at EXCEPT ![t] = "gated"] /\ Keep(t, loc[t]) /\ at[t] = "gate"
        BY <1>13 DEF TakeGate, Go, Keep, TypeInv, CallTypes
    <2>2. Moves(t, "gated", job[t], loc[t])
        BY <1>13, <2>1, Moved DEF TakeGate
    <2>3. SoleCall("gated", job[t], loc[t])
        BY <1>0, <2>1 DEF SoleCall, FitCall, AliveCall, GoneCall, HasBuried, Committing, Changing
    <2> QED
        BY <1>5, <1>13, <2>1, <2>2, <2>3, SoleGoesOn DEF TakeGate, clientVars, HasBuried
<1>14. ASSUME NEW t \in Task, at[t] = "decide" PROVE job[t] \in Requests /\ InRefresh(t) /\ (StoredDead(t) <=> store.expired)
    <2>1. SoleCall(at[t], job[t], loc[t])
        BY <1>0
    <2> QED
        BY <1>14, <2>1
           DEF SoleCall, FitCall, AliveCall, GoneCall, HasBuried, StoredDead, Gone, InRefresh, Refreshing, Requests
<1>15. ASSUME NEW t \in Task, FindDead(t) PROVE SoleInv'
    <2>1. at[t] = "decide" /\ UNCHANGED <<store, session, base>> /\ End(t)
        BY <1>15 DEF FindDead
    <2>2. OthersAlive(t)
        BY <2>1, <1>1, <1>14
    <2>3. Moves(t, "idle", "none", Blank)
        BY <2>1, Moved DEF End
    <2>4. SoleStore'
        BY <1>5, <2>1, <2>3, SoleStoreKept DEF HasBuried
    <2> QED
        BY <2>1, <2>2, <2>4, SoleEnd
<1>16. ASSUME NEW t \in Task, AdoptStored(t) PROVE SoleInv'
    <2>1. at[t] = "decide" /\ ~StoredDead(t) /\ UNCHANGED <<store, authDead>>
        BY <1>16 DEF AdoptStored, StoredNewer
    <2>2. ~store.expired /\ ~loc[t].rec.expired
        BY <1>0, <1>14, <2>1 DEF SoleCall, AliveCall
    <2>3. \A c \in Client : session'[c] \in {session[c], loc[t].rec}
        BY <1>16 DEF AdoptStored, Install, TypeInv, StoreTypes
    <2>4. SoleStore'
        BY <2>1, <2>2, <2>3 DEF SoleInv, SoleStore
    <2> QED
        BY <1>1, <1>16, <2>1, <2>4, SoleSend DEF AdoptStored
<1>17. ASSUME NEW t \in Task, SkipRefresh(t) PROVE SoleInv'
    BY <1>4, <1>5, <1>17 DEF SkipRefresh, clientVars
<1>18. ASSUME NEW t \in Task, SpendToken(t) PROVE SoleInv'
    <2>1. at[t] = "decide" /\ ~StoredDead(t)
        BY <1>18 DEF SpendToken, Go, MustRefresh
    <2> QED
        BY <1>6, <1>14, <1>18, <2>1 DEF SpendToken, Go, clientVars
<1>19. ASSUME NEW t \in Task, NEW l \in Locals, RenewOrBury(t, l) \/ Bury(t, l) PROVE
           \E m : /\ at' = [at EXCEPT ![t] = "minting"] \/ (at' = [at EXCEPT ![t] = "lock"] /\ m.why # "none")
                  /\ Keep(t, m)
    <2>1. [l EXCEPT !.why = "bury", !.spend = Mine(t).pair].why = "bury"
        BY DEF Locals
    <2> QED
        BY <1>19, <2>1 DEF RenewOrBury, Bury
<1>20. ASSUME NEW t \in Task, NoRefreshToken(t) PROVE SoleInv'
    <2>1. /\ at[t] = "decide" /\ ~StoredDead(t) /\ UNCHANGED <<store, clientVars, job>>
          /\ RenewOrBury(t, [loc[t] EXCEPT !.rec = Empty, !.root = Mine(t).origin])
        BY <1>20 DEF NoRefreshToken, MustRefresh
    <2>0. [loc[t] EXCEPT !.rec = Empty, !.root = Mine(t).origin] \in Locals
        <3>1. Mine(t).origin \in Nat /\ Empty \in Session
            BY <1>0, TokenAssumption DEF Session, Empty, None, Pairs, Accts, Mine, TypeInv, StoreTypes
        <3> QED
            BY <1>0, <3>1 DEF Locals
    <2>2. \E m : /\ at' = [at EXCEPT ![t] = "minting"] \/ (at' = [at EXCEPT ![t] = "lock"] /\ m.why # "none")
                 /\ Keep(t, m)
        BY <1>19, <2>0, <2>1
    <2> QED
        BY <1>6, <1>14, <2>1, <2>2 DEF clientVars
\* A call that refreshes, past its look at the store.
<1>21. ASSUME NEW t \in Task, at[t] \in {"refreshing", "refreshed", "minting", "minted"}
       PROVE  job[t] \in Requests /\ ~store.expired /\ InRefresh(t)
    BY <1>21, SoleRefreshes DEF InRefresh, Refreshing, Requests
<1>22. ASSUME NEW t \in Task, RefreshAnswered(t) PROVE SoleInv'
    <2>1. at[t] = "refreshed" /\ UNCHANGED <<store, session, base, authDead>>
        BY <1>22 DEF RefreshAnswered, clientVars
    <2>2. \/ End(t)
          \/ UNCHANGED job /\ \E m : /\ \/ at' = [at EXCEPT ![t] = "minting"]
                                        \/ at' = [at EXCEPT ![t] = "lock"] /\ m.why # "none"
                                     /\ Keep(t, m)
        <3>1. [loc[t] EXCEPT !.why = "refresh"].why = "refresh"
            BY <1>0 DEF Locals
        <3>2. [loc[t] EXCEPT !.answer = Answered("none", 0)] \in Locals
            BY <1>0 DEF Locals, Answer, Answered
        <3> QED
            BY <1>19, <1>22, <3>1, <3>2 DEF RefreshAnswered
    <2> QED
        BY <1>3, <1>5, <1>6, <1>21, <2>1, <2>2
<1>23. ASSUME NEW t \in Task, LoginAnswered(t) \/ ServiceLogin(t) PROVE FALSE
    BY <1>0, <1>23 DEF LoginAnswered, ServiceLogin, Reply, Refuse, Go, SoleCall, FitCall
<1>24. ASSUME NEW t \in Task, MintAnswered(t) PROVE SoleInv'
    <2>1. at[t] = "minted" /\ UNCHANGED <<store, session, base>>
        BY <1>24 DEF MintAnswered
    <2>2. CASE /\ MarkDead(ClientOf[t], FALSE, None) /\ UNCHANGED job
               /\ at' = [at EXCEPT ![t] = "lock"] /\ Keep(t, [loc[t] EXCEPT !.why = "mint"])
        <3> DEFINE l == [loc[t] EXCEPT !.why = "mint"]
        <3>1. Moves(t, "lock", job[t], l) /\ l.why # "none"
            BY <1>0, <2>2, Moved DEF Locals
        <3> HIDE DEF l
        <3>2. SoleCall("lock", job[t], l)
            BY <1>21, <2>1, <3>1, SoleLive
        <3>3. SoleStore'
            BY <1>5, <2>1, <3>1, SoleStoreKept DEF HasBuried
        <3>4. OthersAlive(t) /\ ~authDead'[ClientOf[t]]
            BY <1>0, <1>1, <2>2 DEF MarkDead, TypeInv, StoreTypes
        <3> QED
            BY <2>1, <3>1, <3>2, <3>3, <3>4, SoleMove
    <2>3. CASE /\ UNCHANGED <<authDead, job>>
               /\ \E m : /\ \/ at' \in {[at EXCEPT ![t] = "rotating"], [at EXCEPT ![t] = "minting"]}
                            \/ at' = [at EXCEPT ![t] = "lock"] /\ m.why # "none"
                         /\ Keep(t, m)
        BY <1>6, <1>21, <2>1, <2>3
    <2>4. CASE End(t) /\ UNCHANGED authDead
        BY <1>3, <1>5, <2>1, <2>4
    <2>5. [loc[t] EXCEPT !.answer = Answered("none", 0)] \in Locals
        BY <1>0 DEF Locals, Answer, Answered
    <2>6. ASSUME UNCHANGED <<authDead, job>>, Bury(t, [loc[t] EXCEPT !.answer = Answered("none", 0)]) PROVE SoleInv'
        BY <1>19, <2>3, <2>5, <2>6
    <2> QED
        BY <1>24, <2>2, <2>3, <2>4, <2>6 DEF MintAnswered, RefreshAccount
\* A call on its way to save what it has.
<1>25. ASSUME NEW t \in Task, at[t] \in {"rotating", "rotated"} PROVE
           \/ job[t] \in Requests /\ ~store.expired /\ InRefresh(t)
           \/ job[t] = "alarms" /\ loc[t].after = "alarms"
    BY <1>25, SoleRefreshes DEF InRefresh, Refreshing, Requests
<1>26. ASSUME NEW t \in Task, AccountAnswered(t) PROVE SoleInv'
    <2>1. at[t] = "rotated" /\ UNCHANGED <<store, session, base, authDead>>
        BY <1>26 DEF AccountAnswered, clientVars
    <2>2. CASE /\ at' = [at EXCEPT ![t] = "lock"] /\ Keep(t, [loc[t] EXCEPT !.why = "account"]) /\ UNCHANGED job
        <3> DEFINE l == [loc[t] EXCEPT !.why = "account"]
        <3>1. Moves(t, "lock", job[t], l) /\ l.why = "account" /\ l.after = loc[t].after
            BY <1>0, <2>2, Moved DEF Locals
        <3> HIDE DEF l
        <3>2. SoleCall("lock", job[t], l) /\ (job[t] \in Requests => InRefresh(t))
            BY <1>25, <2>1, <3>1 DEF SoleCall, FitCall, AliveCall, GoneCall, HasBuried, Requests, Committing, Changing
        <3> QED
            BY <1>5, <2>1, <3>1, <3>2, SoleGoesOn DEF HasBuried
    <2>3. CASE loc[t].after = "establish" /\ Established(t, Mine(t))
        BY <1>3, <1>4, <1>5, <2>1, <2>3 DEF Established
    <2>4. CASE loc[t].after = "renew" /\ UNCHANGED job /\ Bury(t, [loc[t] EXCEPT !.answer = Answered("none", 0)])
        <3>1. job[t] \in Requests /\ ~store.expired /\ InRefresh(t)
            BY <1>25, <2>1, <2>4
        <3>2. [loc[t] EXCEPT !.answer = Answered("none", 0)] \in Locals
            BY <1>0 DEF Locals, Answer, Answered
        <3>3. PICK m : /\ at' = [at EXCEPT ![t] = "minting"] \/ (at' = [at EXCEPT ![t] = "lock"] /\ m.why # "none")
                       /\ Keep(t, m)
            BY <1>19, <2>4, <3>2
        <3> QED
            BY <1>6, <2>1, <2>4, <3>1, <3>3
    <2>5. CASE End(t)
        BY <1>3, <1>5, <2>1, <2>5
    <2> QED
        BY <1>26, <2>2, <2>3, <2>4, <2>5 DEF AccountAnswered
\* The answers: the call goes from its request to the answer.
<1>27. ASSUME NEW t \in Task, ServiceRefresh(t) \/ ServiceMint(t) \/ ServiceAccount(t) PROVE SoleInv'
    <2>1. UNCHANGED <<store, clientVars, job>>
        BY <1>27 DEF ServiceRefresh, ServiceMint, ServiceAccount, Untouched
    <2>2. ASSUME NEW from \in {"refreshing", "minting", "rotating"}, NEW to \in {"refreshed", "minted", "rotated"},
                 NEW kind, NEW value, Reply(t, from, to, kind, value) \/ Refuse(t, from, to, kind),
                 from = "rotating" => to = "rotated"
          PROVE  SoleInv'
        <3>1. PICK a : at[t] = from /\ at' = [at EXCEPT ![t] = to] /\ Keep(t, [loc[t] EXCEPT !.answer = a])
            BY <2>2 DEF Reply, Refuse, Go
        <3> DEFINE l == [loc[t] EXCEPT !.answer = a]
        <3>2. Moves(t, to, job[t], l) /\ l.after = loc[t].after
            BY <1>0, <2>1, <3>1, Moved DEF Locals
        <3>3. \/ job[t] \in Requests /\ ~store.expired /\ InRefresh(t)
              \/ job[t] = "alarms" /\ loc[t].after = "alarms" /\ to = "rotated"
            BY <1>21, <1>25, <2>2, <3>1
        <3> HIDE DEF l
        <3>4. SoleCall(to, job[t], l)
            <4>1. CASE job[t] \in Requests /\ ~store.expired
                <5>1. to # "lock"
                    OBVIOUS
                <5> QED
                    BY <4>1, <5>1, SoleLive
            <4>2. CASE job[t] = "alarms" /\ loc[t].after = "alarms" /\ to = "rotated"
                BY <3>2, <4>2 DEF SoleCall, FitCall, AliveCall, GoneCall, HasBuried, Requests, Committing, Changing
            <4> QED
                BY <3>3, <4>1, <4>2
        <3> QED
            BY <1>5, <2>1, <3>1, <3>2, <3>3, <3>4, SoleGoesOn DEF HasBuried, clientVars, Requests
    <2>3. CASE ServiceRefresh(t)
        BY <2>2, <2>3 DEF ServiceRefresh
    <2>4. CASE ServiceMint(t)
        BY <2>2, <2>4 DEF ServiceMint
    <2>5. CASE ServiceAccount(t)
        BY <2>2, <2>5 DEF ServiceAccount
    <2> QED
        BY <1>27, <2>3, <2>4, <2>5
\* A call that has its turn, or waits for it.
<1>28. ASSUME NEW t \in Task, at[t] \in {"lock", "start", "write"} PROVE
           \/ job[t] \in Requests /\ ~store.expired /\ InRefresh(t)
           \/ job[t] = "alarms" /\ loc[t].after = "alarms" /\ loc[t].why = "account"
    <2>1. SoleCall(at[t], job[t], loc[t])
        BY <1>0
    <2> QED
        BY <1>28, <2>1, SoleRefreshes DEF SoleCall, FitCall, InRefresh, Refreshing, Requests, Changing, Committing
<1>29. ASSUME NEW t \in Task, TakeChanging(t) PROVE SoleInv'
    <2> DEFINE l == [loc[t] EXCEPT !.rec = Built(t, Mine(t))]
    <2>1. /\ Moves(t, "start", job[t], l) /\ l.rec = Built(t, Mine(t)) /\ l.why = loc[t].why /\ l.after = loc[t].after
          /\ at[t] = "lock" /\ UNCHANGED <<store, session, base, authDead>>
        BY <1>0, <1>29, Moved DEF TakeChanging, Go, Locals, clientVars
    <2>2. Mine(t) \in Session
        BY <1>0 DEF Mine, TypeInv, StoreTypes
    <2>3. loc[t].why = "bury" => Gone(Built(t, Mine(t)))
        BY <2>2 DEF Built, Gone, Session
    <2>4. ~store.expired /\ loc[t].why # "bury" => ~Built(t, Mine(t)).expired
        <3>1. ~store.expired => ~Mine(t).expired
            BY <1>0 DEF SoleInv, SoleStore, Mine
        <3>2. loc[t].why \in {"none", "refresh", "bury", "mint", "account"}
            BY <1>0 DEF Locals
        <3>3. loc[t].why # "none"
            BY <1>0, <2>1 DEF SoleCall, FitCall, Changing
        <3> QED
            BY <2>2, <3>1, <3>2, <3>3 DEF Built, Session
    <2>5. store.expired => Gone(Built(t, Mine(t))) /\ loc[t].why = "account"
        <3> SUFFICES ASSUME store.expired PROVE Gone(Built(t, Mine(t))) /\ loc[t].why = "account"
            OBVIOUS
        <3>1. loc[t].why = "account"
            BY <1>28, <2>1
        <3>2. \A u \in Task : ~HasBuried(at[u], loc[u])
            BY <1>29, SoleAlone DEF TakeChanging, HasBuried, Committing
        <3>3. Gone(Mine(t))
            BY <1>0, <3>2 DEF SoleInv, SoleStore, Mine
        <3> QED
            BY <2>2, <3>1, <3>3 DEF Built, Gone, Session
    <2> HIDE DEF l
    <2>6. SoleCall("start", job[t], l)
        <3>1. loc[t].why # "none"
            BY <1>0, <2>1 DEF SoleCall, FitCall, Changing
        <3> QED
            BY <1>28, <2>1, <2>3, <2>4, <2>5, <3>1
               DEF SoleCall, FitCall, AliveCall, GoneCall, HasBuried, Requests, Changing, Committing
    <2> QED
        BY <1>5, <1>28, <2>1, <2>6, SoleGoesOn DEF HasBuried, Requests
<1>30. ASSUME NEW t \in Task, StartCommit(t) PROVE SoleInv'
    <2> DEFINE l == [loc[t] EXCEPT !.expected = IF SigningIn(t) THEN NoBase ELSE base[ClientOf[t]]]
    <2>1. /\ Moves(t, "write", job[t], l) /\ l.rec = loc[t].rec /\ l.why = loc[t].why /\ l.after = loc[t].after
          /\ l.expected = (IF SigningIn(t) THEN NoBase ELSE base[ClientOf[t]])
          /\ at[t] = "start" /\ UNCHANGED <<store, session, base, authDead>>
        BY <1>0, <1>30, Moved DEF StartCommit, Go, Locals, clientVars
    <2>2. ~SigningIn(t)
        BY <1>28, <2>1 DEF SigningIn, Requests
    <2>3. store.expired => base[ClientOf[t]] = None
        <3> SUFFICES ASSUME store.expired PROVE base[ClientOf[t]] = None
            OBVIOUS
        <3>1. \A u \in Task : ~HasBuried(at[u], loc[u])
            BY <2>1, SoleAlone DEF HasBuried, Committing
        <3> QED
            BY <1>0, <3>1 DEF SoleInv, SoleStore
    <2> HIDE DEF l
    <2>4. SoleCall(at[t], job[t], loc[t])
        BY <1>0
    <2>5. SoleCall("write", job[t], l)
        BY <1>28, <2>1, <2>2, <2>3, <2>4
           DEF SoleCall, FitCall, AliveCall, GoneCall, HasBuried, Requests, Changing, Committing, Refreshing
    <2> QED
        BY <1>5, <1>28, <2>1, <2>5, SoleGoesOn DEF HasBuried, Requests
<1>31. ASSUME NEW t \in Task, WriteStore(t) PROVE SoleInv'
    <2> DEFINE new == IF SigningIn(t) THEN [loc[t].rec EXCEPT !.origin = store.origin + 1] ELSE loc[t].rec
    <2>0. at[t] = "write" /\ UNCHANGED <<session, base, authDead, job>> /\ at' = [at EXCEPT ![t] = "settle"]
        BY <1>31 DEF WriteStore, Go, clientVars
    <2>1. SoleCall("write", job[t], loc[t])
        BY <1>0, <2>0
    <2>2. new = loc[t].rec
        BY <1>28, <2>0 DEF SigningIn, Requests
    <2>3. OthersAlive(t) /\ (job[t] \in Requests => ~authDead'[ClientOf[t]])
        BY <1>1, <1>28, <2>0 DEF SoleInv, RefreshAlive, Requests
    <2>4. CASE /\ store' = loc[t].rec
               /\ Keep(t, [loc[t] EXCEPT !.rec = loc[t].rec, !.outcome = "saved"])
        <3> DEFINE l == [loc[t] EXCEPT !.rec = loc[t].rec, !.outcome = "saved"]
        <3>1. /\ Moves(t, "settle", job[t], l) /\ l.rec = loc[t].rec /\ l.outcome = "saved"
              /\ l.why = loc[t].why /\ l.after = loc[t].after
            BY <1>0, <2>0, <2>4, Moved DEF Locals
        <3> HIDE DEF l
        <3>2. \/ store.expired /\ Gone(loc[t].rec) /\ job[t] = "alarms" /\ loc[t].why = "account"
              \/ ~store.expired /\ loc[t].why = "bury" /\ Gone(loc[t].rec) /\ InRefresh(t)
              \/ ~store.expired /\ loc[t].why # "bury" /\ ~loc[t].rec.expired
            BY <1>28, <2>0, <2>1 DEF SoleCall, FitCall, GoneCall, AliveCall, Committing
        <3>3. SoleCalls'
            <4> SUFFICES ASSUME NEW u \in Task PROVE SoleCall(at[u], job[u], loc[u])'
                BY DEF SoleCalls
            <4>1. CASE u = t
                <5>1. at'[u] = "settle" /\ job'[u] = job[t] /\ loc'[u] = l
                    BY <3>1, <4>1 DEF Moves
                <5>2. FitCall("settle", job[t], l)
                    BY <2>1, <3>1 DEF SoleCall, FitCall, Changing, Committing
                <5>3. IF loc[t].rec.expired THEN GoneCall("settle", job[t], l) ELSE AliveCall("settle", l)
                    <6>1. CASE job[t] = "alarms" /\ loc[t].why = "account"
                        BY <3>1, <3>2, <6>1 DEF AliveCall, GoneCall, HasBuried, Requests, Gone
                    <6>2. CASE loc[t].why = "bury" /\ Gone(loc[t].rec)
                        BY <3>1, <6>2 DEF GoneCall, HasBuried, Gone
                    <6>3. CASE loc[t].why # "bury" /\ ~loc[t].rec.expired
                        BY <3>1, <6>3 DEF AliveCall, HasBuried
                    <6> QED
                        BY <3>2, <6>1, <6>2, <6>3
                <5>4. FitCall("settle", job'[u], loc'[u])
                    BY <5>1, <5>2
                <5>5. IF store'.expired THEN GoneCall("settle", job'[u], loc'[u]) ELSE AliveCall("settle", loc'[u])
                    BY <2>4, <5>1, <5>3
                <5> QED
                    BY <5>1, <5>4, <5>5 DEF SoleCall, FitCall, GoneCall, AliveCall
            <4>2. CASE u # t
                <5>1. at'[u] = at[u] /\ job'[u] = job[u] /\ loc'[u] = loc[u]
                    BY <3>1, <4>2 DEF Moves
                <5>2. at[u] \notin Committing /\ (InRefresh(t) => ~InRefresh(u))
                    BY <2>0, <4>2, SoleAlone DEF Committing
                <5>3. SoleCall(at[u], job[u], loc[u])
                    BY <1>0
                <5> QED
                    BY <2>4, <3>2, <5>1, <5>2, <5>3
                       DEF SoleCall, AliveCall, GoneCall, HasBuried, Committing, InRefresh, Requests, Gone
            <4> QED
                BY <4>1, <4>2
        <3>4. SoleStore'
            <4>1. CASE store.expired
                <5>1. ~HasBuried(at[t], loc[t]) /\ \A u \in Task : ~HasBuried(at[u], loc[u])
                    BY <2>0, SoleAlone DEF HasBuried, Committing
                <5>2. \A c \in Client : base[c] = None /\ Gone(session[c])
                    BY <4>1, <5>1 DEF SoleInv, SoleStore
                <5> QED
                    BY <2>0, <2>4, <3>2, <4>1, <5>2 DEF SoleStore, Gone
            <4>2. CASE ~store.expired /\ loc[t].why = "bury" /\ Gone(loc[t].rec)
                <5>1. HasBuried(at'[t], loc'[t])
                    BY <3>1, <4>2 DEF HasBuried, Moves
                <5> QED
                    BY <2>4, <4>2, <5>1 DEF SoleStore, Gone
            <4>3. CASE ~store.expired /\ ~loc[t].rec.expired
                BY <2>0, <2>4, <4>3 DEF SoleInv, SoleStore
            <4> QED
                BY <3>2, <4>1, <4>2, <4>3
        <3>5. RefreshAlive'
            BY <2>3, <3>1 DEF RefreshAlive, InRefresh, OthersAlive, Moves, Requests
        <3> QED
            BY <3>3, <3>4, <3>5 DEF SoleInv
    <2>5. CASE /\ loc[t].expected \notin {NoBase, store.pair} /\ UNCHANGED store
               /\ Keep(t, [loc[t] EXCEPT !.rec = store, !.outcome = "newer"])
        <3> DEFINE l == [loc[t] EXCEPT !.rec = store, !.outcome = "newer"]
        <3>1. /\ Moves(t, "settle", job[t], l) /\ l.rec = store /\ l.outcome = "newer"
              /\ l.why = loc[t].why /\ l.after = loc[t].after
            BY <1>0, <2>0, <2>5, Moved DEF Locals
        <3> HIDE DEF l
        <3>2. ~store.expired
            BY <2>1, <2>5 DEF SoleCall, GoneCall, SoleInv, SoleStore
        <3>3. SoleCall("settle", job[t], l)
            BY <2>1, <3>1, <3>2 DEF SoleCall, FitCall, AliveCall, HasBuried, Changing, Committing
        <3> QED
            BY <1>5, <1>28, <2>0, <2>5, <3>1, <3>3, SoleGoesOn DEF HasBuried, Requests
    <2> HIDE DEF new
    <2>6. \/ /\ store' = new
             /\ Keep(t, [loc[t] EXCEPT !.rec = new, !.outcome = "saved"])
          \/ /\ loc[t].expected \notin {NoBase, store.pair} /\ UNCHANGED store
             /\ Keep(t, [loc[t] EXCEPT !.rec = store, !.outcome = "newer"])
        BY <1>31 DEF WriteStore, new
    <2> QED
        BY <2>2, <2>4, <2>5, <2>6
<1>32. ASSUME NEW t \in Task, StoreFails(t) PROVE SoleInv'
    <2> DEFINE l == [loc[t] EXCEPT !.outcome = "failed"]
    <2>1. /\ Moves(t, "settle", job[t], l) /\ l.rec = loc[t].rec /\ l.outcome = "failed"
          /\ l.why = loc[t].why /\ l.after = loc[t].after
          /\ at[t] = "write" /\ UNCHANGED <<store, session, base, authDead>>
        BY <1>0, <1>32, Moved DEF StoreFails, Go, Locals, clientVars
    <2> HIDE DEF l
    <2>2. SoleCall("write", job[t], loc[t])
        BY <1>0, <2>1
    <2>3. SoleCall("settle", job[t], l)
        BY <1>28, <2>1, <2>2
           DEF SoleCall, FitCall, AliveCall, GoneCall, HasBuried, Changing, Committing, Refreshing, Requests
    <2> QED
        BY <1>5, <1>28, <2>1, <2>3, SoleGoesOn DEF HasBuried, Requests
<1>33. ASSUME NEW t \in Task, at[t] = "settle" PROVE
           /\ job[t] \in Requests => InRefresh(t) /\ ~authDead[ClientOf[t]]
           /\ job[t] \in Requests \/ (job[t] = "alarms" /\ loc[t].why = "account")
           /\ store.expired => Gone(loc[t].rec) /\ (job[t] \in Requests => loc[t].outcome = "saved")
           /\ ~store.expired /\ loc[t].outcome = "saved" => ~loc[t].rec.expired
           /\ loc[t].outcome = "newer" => ~loc[t].rec.expired
    <2>1. SoleCall("settle", job[t], loc[t])
        BY <1>0, <1>33
    <2>2. job[t] \in Requests => InRefresh(t)
        BY <1>33 DEF InRefresh, Refreshing, Requests
    <2> QED
        BY <2>1, <2>2
           DEF SoleCall, FitCall, AliveCall, GoneCall, HasBuried, Refreshing, Changing, Committing, SoleInv, RefreshAlive
<1>34. ASSUME NEW t \in Task, Install(ClientOf[t], loc[t].rec) PROVE
           \A c \in Client : session'[c] = loc[t].rec /\ base'[c] = loc[t].rec.pair
    BY <1>0, <1>34 DEF Install, SoleClient, TypeInv, StoreTypes
<1>35. ASSUME NEW t \in Task, SettleSaved(t) PROVE SoleInv'
    <2>1. at[t] = "settle" /\ loc[t].outcome = "saved" /\ UNCHANGED store /\ AfterChange(t, loc[t].rec, TRUE)
        BY <1>35 DEF SettleSaved
    <2>2. SoleStore'
        BY <1>33, <1>34, <1>35, <2>1 DEF SettleSaved, SoleStore, Gone, SoleInv
    <2>3. UNCHANGED authDead \/ loc[t].why = "bury"
        BY <1>35 DEF SettleSaved
    <2>4. OthersAlive(t)
        BY <1>1, <1>33, <2>1, <2>3
    <2>5. loc[t].why # "bury" /\ job[t] \in Requests => ~authDead'[ClientOf[t]]
        BY <1>33, <2>1, <2>3
    <2> QED
        BY <2>1, <2>2, <2>4, <2>5, SoleAfter
<1>36. ASSUME NEW t \in Task, SettleNewer(t) PROVE SoleInv'
    <2>1. at[t] = "settle" /\ loc[t].outcome = "newer" /\ UNCHANGED store /\ AfterChange(t, loc[t].rec, FALSE)
        BY <1>36 DEF SettleNewer
    <2>2. loc[t].rec.expired = FALSE /\ ~store.expired
        <3>1. loc[t].rec \in Session
            BY <1>0 DEF Locals
        <3> QED
            BY <1>33, <2>1, <3>1 DEF Session, Gone
    <2>3. SoleStore'
        BY <1>34, <1>36, <2>1, <2>2 DEF SettleNewer, SoleStore
    <2>4. authDead' = [authDead EXCEPT ![ClientOf[t]] = FALSE]
        BY <1>36, <2>2 DEF SettleNewer, MarkDead
    <2>5. ~authDead'[ClientOf[t]] /\ OthersAlive(t)
        BY <1>0, <1>1, <2>4 DEF TypeInv, StoreTypes
    <2> QED
        BY <2>1, <2>3, <2>5, SoleAfter
<1>37. ASSUME NEW t \in Task, SettleFailed(t) PROVE SoleInv'
    <2>1. at[t] = "settle" /\ loc[t].outcome = "failed" /\ UNCHANGED <<store, base>> /\ End(t)
        BY <1>37 DEF SettleFailed
    <2>2. Moves(t, "idle", "none", Blank)
        BY <2>1, Moved DEF End
    <2>3. SoleStore'
        <3>1. CASE UNCHANGED session
            BY <1>5, <2>1, <2>2, <3>1, SoleStoreKept DEF HasBuried
        <3>2. CASE loc[t].why = "refresh" /\ session' = [session EXCEPT ![ClientOf[t]] = Built(t, @)]
            <4>1. ~store.expired
                BY <1>33, <2>1, <3>2
            <4>2. \A c \in Client : session'[c] = Built(t, session[c]) /\ session[c] \in Session
                BY <1>0, <3>2 DEF SoleClient, TypeInv, StoreTypes
            <4>3. \A c \in Client : ~session[c].expired
                BY <4>1 DEF SoleInv, SoleStore
            <4>4. \A c \in Client : Built(t, session[c]).expired = session[c].expired
                BY <3>2, <4>2 DEF Built, Session
            <4> QED
                BY <2>1, <4>1, <4>2, <4>3, <4>4 DEF SoleStore
        <3> QED
            BY <1>37, <3>1, <3>2 DEF SettleFailed
    <2>4. UNCHANGED authDead \/ loc[t].why = "bury"
        BY <1>37 DEF SettleFailed
    <2>5. OthersAlive(t)
        BY <1>1, <1>33, <2>1, <2>4
    <2> QED
        BY <2>1, <2>3, <2>5, SoleEnd
<1>38. ASSUME NEW t \in Task, Cancel(t) PROVE SoleInv'
    <2>1. UNCHANGED <<store, session, base, authDead>>
        BY <1>38 DEF Cancel, clientVars
    <2>2. CASE at[t] \in Committing /\ Keep(t, [loc[t] EXCEPT !.cancelled = TRUE]) /\ UNCHANGED <<at, job>>
        <3> DEFINE l == [loc[t] EXCEPT !.cancelled = TRUE]
        <3>1. at' = [at EXCEPT ![t] = at[t]]
            BY <2>2 DEF TypeInv, CallTypes
        <3>2. /\ Moves(t, at[t], job[t], l) /\ l.rec = loc[t].rec /\ l.outcome = loc[t].outcome
              /\ l.why = loc[t].why /\ l.after = loc[t].after /\ l.expected = loc[t].expected
            BY <1>0, <2>2, <3>1, Moved DEF Locals
        <3> HIDE DEF l
        <3>3. SoleCall(at[t], job[t], l)
            BY <1>0, <3>2 DEF SoleCall, FitCall, AliveCall, GoneCall, HasBuried
        <3>4. SoleStore'
            BY <1>5, <2>1, <3>2, SoleStoreKept DEF HasBuried
        <3>5. OthersAlive(t) /\ (at[t] \in Refreshing /\ job[t] \in Requests => ~authDead'[ClientOf[t]])
            BY <1>1, <2>1 DEF SoleInv, RefreshAlive, InRefresh, Requests
        <3> QED
            BY <2>1, <3>2, <3>3, <3>4, <3>5, SoleMove
    <2>3. CASE at[t] \notin Committing /\ End(t)
        BY <1>3, <1>5, <2>1, <2>3 DEF Committing
    <2> QED
        BY <1>38, <2>2, <2>3 DEF Cancel
<1>39. ASSUME Elapse \/ UNCHANGED vars PROVE SoleInv'
    <2>1. UNCHANGED <<store, session, base, authDead, at, job, loc>>
        BY <1>39 DEF Elapse, vars, clientVars, taskVars
    <2> QED
        BY <2>1 DEF SoleInv, SoleCalls, SoleCall, FitCall, AliveCall, GoneCall, HasBuried, SoleStore, Gone,
                    RefreshAlive, InRefresh
<1>40. ASSUME NEW t \in Task, Advance(t) PROVE SoleInv'
    <2>1. CASE \/ ReadStore(t) \/ ReadFails(t) \/ InstallLoaded(t) \/ RequestAnswered(t) \/ ServiceRejects(t)
               \/ ReadRejected(t) \/ CommandRejected(t) \/ TakeGate(t) \/ GateFindsDead(t)
        BY <1>7, <1>8, <1>9, <1>10, <1>11, <1>12, <1>13, <2>1
    <2>2. CASE FindDead(t) \/ AdoptStored(t) \/ SkipRefresh(t) \/ SpendToken(t) \/ NoRefreshToken(t)
        BY <1>15, <1>16, <1>17, <1>18, <1>20, <2>2
    <2> QED
        BY <1>40, <1>22, <1>23, <1>24, <1>26, <1>27, <1>29, <1>30, <1>31, <1>32, <1>35, <1>36, <1>37, <2>1, <2>2
           DEF Advance
<1> QED
    BY <1>2, <1>38, <1>39, <1>40 DEF Next

\* At first the saved session is alive, and nothing is under way.
LEMMA SoleInit == SoleClient /\ Init => SoleInv
<1> SUFFICES ASSUME SoleClient, Init PROVE SoleInv
    OBVIOUS
<1>1. SoleCalls
    BY DEF Init, SoleCalls, SoleCall, FitCall, AliveCall, HasBuried, Requests, Changing, Committing, First, Empty
<1>2. SoleStore
    BY DEF Init, SoleStore, First, Empty
<1>3. RefreshAlive
    BY DEF Init, RefreshAlive, InRefresh, Refreshing
<1> QED
    BY <1>1, <1>2, <1>3 DEF SoleInv

\* No step sends the request of a call on a session that is dead after it.
RequestAlive == \A t \in Task : at[t] # "request" /\ at'[t] = "request" => ~authDead'[ClientOf[t]]

LEMMA SoleSends == SoleClient /\ TypeInv /\ LockInv /\ SoleInv /\ [Next]_vars => RequestAlive
<1> SUFFICES ASSUME SoleClient, TypeInv, LockInv, SoleInv, [Next]_vars PROVE RequestAlive
    OBVIOUS
<1>0. \A t \in Task : ClientOf[t] \in Client /\ loc[t] \in Locals /\ SoleCall(at[t], job[t], loc[t])
    BY TokenAssumption DEF TypeInv, CallTypes, SoleInv, SoleCalls
\* Only the call that takes the step can come to a request.
<1>1. ASSUME NEW t \in Task, NEW step, at' = [at EXCEPT ![t] = step] \/ UNCHANGED at,
             step # "request" \/ at[t] = "request" \/ ~authDead'[ClientOf[t]]
      PROVE  RequestAlive
    BY <1>1 DEF RequestAlive, TypeInv, CallTypes
<1>2. ASSUME NEW t \in Task, End(t) PROVE RequestAlive
    BY <1>1, <1>2 DEF End
<1>3. ASSUME NEW t \in Task, NEW s, NEW again, SendRequest(t, s, again), ~authDead'[ClientOf[t]] PROVE RequestAlive
    BY <1>1, <1>3 DEF SendRequest
<1>4. ASSUME NEW t \in Task, NEW l, RenewOrBury(t, l) \/ Bury(t, l) PROVE RequestAlive
    BY <1>1, <1>4 DEF RenewOrBury, Bury
<1>5. ASSUME NEW t \in Task, InRefresh(t), UNCHANGED authDead PROVE ~authDead'[ClientOf[t]]
    BY <1>5 DEF SoleInv, RefreshAlive
<1>6. ASSUME NEW t \in Task, BeginCall(t) PROVE RequestAlive
    <2>1. CASE BeginRequest(t)
        <3>1. ~authDead'[ClientOf[t]] /\ \E step : at' = [at EXCEPT ![t] = step]
            BY <2>1 DEF BeginRequest, Go, clientVars
        <3> QED
            BY <1>1, <3>1
    <2>2. CASE BeginLoad(t) \/ BeginSignIn(t) \/ BeginAlarms(t)
        BY <1>1, <2>2 DEF BeginLoad, BeginSignIn, BeginAlarms, RefreshAccount, Go
    <2> QED
        BY <1>6, <2>1, <2>2 DEF BeginCall
<1>7. ASSUME NEW t \in Task,
             \/ ReadStore(t) \/ ReadFails(t) \/ InstallLoaded(t) \/ RequestAnswered(t) \/ ServiceRejects(t)
             \/ ReadRejected(t) \/ CommandRejected(t) \/ TakeGate(t) \/ GateFindsDead(t) \/ FindDead(t)
      PROVE  RequestAlive
    BY <1>1, <1>2, <1>7 DEF ReadStore, ReadFails, InstallLoaded, RequestAnswered, ServiceRejects, ReadRejected,
                            CommandRejected, TakeGate, GateFindsDead, FindDead, Go
<1>8. ASSUME NEW t \in Task, AdoptStored(t) \/ SkipRefresh(t) PROVE RequestAlive
    <2>1. InRefresh(t)
        BY <1>8, SoleRefreshes DEF AdoptStored, SkipRefresh, InRefresh, Refreshing, Requests
    <2>2. UNCHANGED authDead
        BY <1>8 DEF AdoptStored, SkipRefresh, clientVars
    <2> QED
        BY <1>3, <1>5, <1>8, <2>1, <2>2 DEF AdoptStored, SkipRefresh
<1>9. ASSUME NEW t \in Task, SpendToken(t) \/ NoRefreshToken(t) PROVE RequestAlive
    BY <1>1, <1>4, <1>9 DEF SpendToken, NoRefreshToken, Go
<1>10. ASSUME NEW t \in Task, RefreshAnswered(t) \/ LoginAnswered(t) PROVE RequestAlive
    BY <1>1, <1>2, <1>4, <1>10 DEF RefreshAnswered, LoginAnswered
<1>11. ASSUME NEW t \in Task, MintAnswered(t) PROVE RequestAlive
    BY <1>1, <1>2, <1>4, <1>11 DEF MintAnswered, RefreshAccount
<1>12. ASSUME NEW t \in Task, AccountAnswered(t) PROVE RequestAlive
    <2>1. at[t] = "rotated" /\ UNCHANGED authDead
        BY <1>12 DEF AccountAnswered, clientVars
    <2>2. CASE loc[t].after = "establish" /\ Established(t, Mine(t))
        <3>1. InRefresh(t)
            BY <2>1, <2>2, SoleRefreshes DEF InRefresh, Refreshing, Requests
        <3> QED
            BY <1>2, <1>3, <1>5, <2>1, <2>2, <3>1 DEF Established
    <2> QED
        BY <1>1, <1>2, <1>4, <1>12, <2>2 DEF AccountAnswered
<1>13. ASSUME NEW t \in Task, ServiceRefresh(t) \/ ServiceLogin(t) \/ ServiceMint(t) \/ ServiceAccount(t) PROVE RequestAlive
    <2>1. ASSUME NEW from, NEW to, NEW kind, NEW value, to # "request",
                 Reply(t, from, to, kind, value) \/ Refuse(t, from, to, kind)
          PROVE  RequestAlive
        BY <1>1, <2>1 DEF Reply, Refuse, Go
    <2>2. CASE ServiceRefresh(t)
        BY <2>1, <2>2 DEF ServiceRefresh
    <2>3. CASE ServiceLogin(t)
        BY <2>1, <2>3 DEF ServiceLogin
    <2>4. CASE ServiceMint(t)
        BY <2>1, <2>4 DEF ServiceMint
    <2>5. CASE ServiceAccount(t)
        BY <2>1, <2>5 DEF ServiceAccount
    <2> QED
        BY <1>13, <2>2, <2>3, <2>4, <2>5
<1>14. ASSUME NEW t \in Task, TakeChanging(t) \/ StartCommit(t) \/ WriteStore(t) \/ StoreFails(t) PROVE RequestAlive
    BY <1>1, <1>14 DEF TakeChanging, StartCommit, WriteStore, StoreFails, Go
\* After a change: a call that saved a burial ends, any other has a live session.
<1>15. ASSUME NEW t \in Task, NEW s, NEW ok, AfterChange(t, s, ok), at[t] = "settle",
              loc[t].cancelled \/ (loc[t].why = "bury" /\ ok) \/ ~authDead'[ClientOf[t]]
              \/ (job[t] = "alarms" /\ loc[t].after = "alarms" /\ loc[t].why = "account")
       PROVE  RequestAlive
    <2> DEFINE l == [loc[t] EXCEPT !.answer = Answered("none", 0), !.why = "none", !.rec = Empty,
                                   !.expected = NoBase, !.outcome = "none", !.acct = None]
    <2> HIDE DEF l
    <2>1. CASE End(t)
        BY <1>2, <2>1
    <2>2. CASE ~authDead'[ClientOf[t]]
        <3>1. \E step : at' = [at EXCEPT ![t] = step]
            <4>1. AccountRefreshed(t, s, ok, l) => \E step : at' = [at EXCEPT ![t] = step]
                BY DEF AccountRefreshed, Established, End, SendRequest
            <4> QED
                BY <1>15, <4>1 DEF AfterChange, Established, Buried, End, SendRequest, l
        <3> QED
            BY <1>1, <2>2, <3>1
    <2>3. CASE job[t] = "alarms" /\ loc[t].after = "alarms" /\ loc[t].why = "account"
        <3>1. End(t) \/ AccountRefreshed(t, s, ok, l)
            BY <1>15, <2>3 DEF AfterChange, l
        <3> QED
            BY <2>1, <2>3, <3>1 DEF AccountRefreshed
    <2> QED
        BY <1>15, <2>1, <2>2, <2>3 DEF AfterChange, Buried
<1>16. ASSUME NEW t \in Task, SettleSaved(t) \/ SettleNewer(t) PROVE RequestAlive
    <2>1. SoleCall("settle", job[t], loc[t]) /\ at[t] = "settle"
        BY <1>0, <1>16 DEF SettleSaved, SettleNewer
    <2>2. \/ job[t] \in Requests /\ InRefresh(t)
          \/ job[t] = "alarms" /\ loc[t].after = "alarms" /\ loc[t].why = "account"
        BY <2>1 DEF SoleCall, FitCall, Changing, Committing, InRefresh, Refreshing, Requests
    <2>3. CASE SettleSaved(t)
        <3>1. loc[t].cancelled \/ loc[t].why = "bury" \/ UNCHANGED authDead
            BY <2>3 DEF SettleSaved
        <3> QED
            BY <1>5, <1>15, <2>1, <2>2, <2>3, <3>1 DEF SettleSaved
    <2>4. CASE SettleNewer(t)
        <3>1. loc[t].rec.expired = FALSE
            <4>1. loc[t].rec \in Session /\ loc[t].outcome = "newer"
                BY <1>0, <2>4 DEF Locals, SettleNewer
            <4> QED
                BY <2>1, <4>1 DEF SoleCall, FitCall, Session
        <3>2. ~authDead'[ClientOf[t]]
            BY <1>0, <2>4, <3>1 DEF SettleNewer, MarkDead, TypeInv, StoreTypes
        <3> QED
            BY <1>15, <2>1, <2>4, <3>2 DEF SettleNewer
    <2> QED
        BY <1>16, <2>3, <2>4
<1>17. ASSUME NEW t \in Task, SettleFailed(t) \/ Cancel(t) PROVE RequestAlive
    BY <1>1, <1>2, <1>17 DEF SettleFailed, Cancel
<1>18. ASSUME Elapse \/ UNCHANGED vars PROVE RequestAlive
    BY <1>18 DEF Elapse, vars, taskVars, RequestAlive
<1>19. ASSUME NEW t \in Task, Advance(t) PROVE RequestAlive
    BY <1>7, <1>8, <1>9, <1>10, <1>11, <1>12, <1>13, <1>14, <1>16, <1>17, <1>19 DEF Advance
<1> QED
    BY <1>6, <1>17, <1>18, <1>19 DEF Next

\* A client that has its store to itself sends nothing for a session it has given up, whatever
\* fails, is cancelled or lost, and whatever its other calls are doing (_ensure_token, _refresh):
\* neither a request nor a refresh or renewal of its tokens, because a call that gets the gate
\* looks at _auth_dead again, and once a session is buried no call of it is past that look.
THEOREM TokenDeadSendsNothing == SoleClient => (Spec => DeadSendsNothing)
<1> SUFFICES ASSUME SoleClient PROVE Spec => DeadSendsNothing
    OBVIOUS
<1> DEFINE Inv == TypeInv /\ LockInv /\ SoleInv
<1>1. Init => Inv
    BY TypeInit, LockInit, SoleInit
<1>2. Inv /\ [Next]_vars => Inv'
    BY TypeStep, LockStep, SoleStep
<1> DEFINE SentAlive == \A t \in Task : at'[t] # at[t] /\ Sending(t)' => ~authDead'[ClientOf[t]]
<1>3. Inv /\ Inv' /\ [Next]_vars => [SentAlive]_vars
    <2> SUFFICES ASSUME Inv, Inv', [Next]_vars, NEW t \in Task, at'[t] # at[t], Sending(t)'
                 PROVE  ~authDead'[ClientOf[t]]
        OBVIOUS
    <2>1. CASE at'[t] = "request"
        BY <2>1, SoleSends DEF RequestAlive
    <2>2. CASE InRefresh(t)'
        BY <2>2 DEF SoleInv, RefreshAlive
    <2> QED
        BY <2>1, <2>2 DEF Sending
<1>4. DeadSendsNothing <=> [][SentAlive]_vars
    BY DEF DeadSendsNothing
<1> QED
    BY <1>1, <1>2, <1>3, <1>4, PTL DEF Spec
---------------------------------------------------------------------------------
(* A client that has its store to itself, while no store fails and no call is cancelled *)

Untroubled == budget.faults = MaxFaults /\ budget.cancels = MaxCancels

\* What is known of a call of a client with session own.
SyncCall(step, l, own) ==
    /\ step = "decide" => l.rec.pair = own.pair
    /\ step \in {"start", "write"} =>
          IF l.why = "account" THEN l.rec.pair = own.pair /\ l.rec.acct = l.answer.value
          ELSE l.rec.acct = own.acct
    /\ step = "write" => l.expected = own.pair
    /\ step = "settle" => l.outcome = "saved" /\ l.rec = store /\ (l.why = "account" => store.pair = own.pair)
    /\ ~l.cancelled
    /\ l.answer.kind # "none" => step \in {"refreshed", "minted", "rotated"} \/ (step \in Changing /\ l.why # "bury")

\* The client's session is the saved one, but for what is being settled.
InSync(s) == s.pair = store.pair /\ s.acct = store.acct

SyncInv ==
    /\ \A c \in Client : base[c] = session[c].pair
    /\ (\A c \in Client : InSync(session[c])) \/ \E t \in Task : at[t] = "settle"
    /\ \A t \in Task : SyncCall(at[t], loc[t], Mine(t))

\* A call with a new account token that is not saved yet.
Pending(step, l) ==
    /\ l.answer.kind = "acct"
    /\ step = "rotated" \/ (step \in {"lock", "start", "write"} /\ l.why = "account")

Saving(step, l) == Pending(step, l) /\ step # "rotated"

\* Of the account tokens only the last one issued is accepted; a call that has it and has not
\* saved it is the only one that knows of it.
KnownAccts == 0..service.accts

AcctCall(step, l) ==
    /\ step = "rotating" => l.acct \in KnownAccts
    /\ Pending(step, l) => l.answer.value = service.accts

OnlyItsOwn(t) ==
    /\ store.acct # service.accts
    /\ \A c \in Client : session[c].acct # service.accts
    /\ \A u \in Task : /\ at[u] = "rotating" => loc[u].acct # service.accts
                       /\ Pending(at[u], loc[u]) => u = t
    /\ at[t] = "rotated" => service.accts \notin history.accts

AcctInv ==
    /\ service.acctLive \subseteq {service.accts}
    /\ store.acct \in KnownAccts /\ (\A c \in Client : session[c].acct \in KnownAccts)
    /\ history.accts \subseteq KnownAccts
    /\ \A t \in Task : AcctCall(at[t], loc[t]) /\ (Pending(at[t], loc[t]) => OnlyItsOwn(t))
    /\ service.accts \in history.accts /\ service.accts \in service.acctLive =>
          store.acct = service.accts \/ \E t \in Task : Saving(at[t], loc[t])

\* A refresh whose client's pair the gateway does not accept any more.
Failed(step, l) ==
    \/ step \in {"minting", "minted"}
    \/ step = "refreshed" /\ l.answer.kind \in {"pair", "spent"}
    \/ step \in {"rotating", "rotated"} /\ l.after = "renew"
    \/ step \in Changing /\ (l.why # "account" \/ l.after = "renew")

KnownPairs == 1..service.pairs
Held == KnownPairs \cup {None}

PairCall(step, l, own) ==
    /\ Failed(step, l) => own.pair \notin service.live
    /\ step = "refreshing" => l.spend = own.pair
    /\ l.answer.kind = "pair" => l.answer.value \in KnownPairs
    /\ step \in {"start", "write"} => l.rec.pair \in Held

\* A pair that is on its way to the store.
Coming(step, l, p) ==
    \/ step = "lock" /\ l.answer = Answered("pair", p)
    \/ step \in {"start", "write"} /\ l.rec.pair = p

PairInv ==
    /\ service.live \subseteq KnownPairs /\ service.outdated \subseteq KnownPairs \ service.live
    /\ service.lapsed \subseteq KnownPairs
    /\ store.pair \in Held /\ (\A c \in Client : session[c].pair \in Held)
    /\ \A t \in Task : PairCall(at[t], loc[t], Mine(t))
    /\ \A r \in history.received :
          /\ r[1] \in KnownPairs
          /\ \/ r[1] \notin service.live
             \/ store.pair = r[1]
             \/ \E t \in Task : Coming(at[t], loc[t], r[1])

\* A call with a pair that its client does not hold yet.
Renewing(step, l) ==
    \/ step \in {"refreshed", "minted"} /\ l.answer.kind = "pair"
    \/ step \in Changing /\ l.why \in {"refresh", "mint"}

Rotated(step, l) ==
    \/ step = "refreshed" /\ l.answer.kind = "pair"
    \/ step \in Changing /\ l.why = "refresh"

SpentCall(step, l) ==
    /\ Renewing(step, l) => l.answer.value \notin history.spent
    /\ step \in Committing /\ l.why \in {"refresh", "mint"} => l.rec.pair = l.answer.value

SpentInv ==
    /\ history.spent \subseteq KnownPairs
    /\ \A t \in Task : SpentCall(at[t], loc[t])
    /\ (\A c \in Client : session[c].pair \notin history.spent) \/ \E t \in Task : Rotated(at[t], loc[t])

Noted == {"spent", "received", "accts", "saved"} \subseteq DOMAIN history

KeptInv == Untroubled => SyncInv /\ Noted /\ AcctInv /\ PairInv /\ (budget.lost = MaxLost => SpentInv)
---------------------------------------------------------------------------------
(* What a step of such a client may be *)

SameSession ==
    /\ UNCHANGED <<store, base>>
    /\ \A c \in Client : session'[c].pair = session[c].pair /\ session'[c].acct = session[c].acct

OthersStay(t) == \A u \in Task \ {t} : at'[u] = at[u] /\ job'[u] = job[u] /\ loc'[u] = loc[u]

\* Call t goes on, without an answer it has to save.
Goes(t) ==
    /\ OthersStay(t)
    /\ SameSession
    /\ UNCHANGED <<service, history>>
    /\ loc'[t].answer.kind = "none" /\ ~loc'[t].cancelled
    /\ at[t] \notin Changing
    /\ ~Pending(at[t], loc[t]) /\ ~Rotated(at[t], loc[t])

\* It ends, sends or repeats its request, or waits for the gate.
Frees(t) == Goes(t) /\ at'[t] \in {"idle", "request", "gate", "rejected", "gated"}

\* It looks at the store, and spends its token.
Looks(t) == Goes(t) /\ at[t] = "gated" /\ at'[t] = "decide" /\ loc'[t].rec = store

Spends(t) == Goes(t) /\ at[t] = "decide" /\ at'[t] = "refreshing" /\ loc'[t].spend = Mine(t).pair

\* Its refresh has failed for good: it renews the session or gives it up.
Fails(t) ==
    /\ Goes(t)
    /\ \/ at[t] = "decide" /\ ~RefreshValid(Mine(t))
       \/ at[t] = "refreshed" /\ loc[t].answer.kind = "spent"
       \/ at[t] = "minted"
       \/ at[t] = "rotated" /\ loc[t].after = "renew"
    /\ \/ at'[t] = "minting"
       \/ at'[t] = "lock" /\ loc'[t].why = "bury"
       \/ at'[t] = "rotating" /\ loc'[t].acct = Mine(t).acct

\* It reads the alerts: its account token is refreshed.
Rotates(t) ==
    /\ Goes(t)
    /\ at[t] = "idle" /\ at'[t] = "rotating"
    /\ loc'[t].acct = Mine(t).acct /\ loc'[t].after = "alarms"

\* It has an answer, and waits for its turn to save it.
Saves(t) ==
    /\ OthersStay(t)
    /\ SameSession
    /\ UNCHANGED service
    /\ at'[t] = "lock" /\ loc'[t] = [loc[t] EXCEPT !.why = loc'[t].why]
    /\ \/ /\ at[t] = "refreshed" /\ loc[t].answer.kind = "pair" /\ loc'[t].why = "refresh"
          /\ history' = [history EXCEPT !.received = @ \cup {<<loc[t].answer.value, loc[t].root>>}]
       \/ /\ at[t] = "minted" /\ loc[t].answer.kind = "pair" /\ loc'[t].why = "mint"
          /\ UNCHANGED history
       \/ /\ at[t] = "rotated" /\ loc[t].answer.kind = "acct" /\ loc'[t].why = "account"
          /\ history' = [history EXCEPT !.accts = @ \cup {loc[t].answer.value}]

\* What it saved is installed, and it goes on.
Settles(t) ==
    /\ OthersStay(t)
    /\ at[t] = "settle"
    /\ UNCHANGED <<store, service, history>>
    /\ \A c \in Client : session'[c] = store /\ base'[c] = store.pair
    /\ loc'[t].answer.kind = "none" /\ ~loc'[t].cancelled
    /\ \/ at'[t] \in {"idle", "request"}
       \/ at'[t] = "rotating" /\ loc'[t].acct = store.acct /\ loc'[t].after = "establish"
       \/ at'[t] = "minting" /\ loc[t].why = "account" /\ loc[t].after = "renew"

\* It is answered, or has its turn.
Answers(t) == ServiceRefresh(t) \/ ServiceMint(t) \/ ServiceAccount(t)
Commits(t) == TakeChanging(t) \/ StartCommit(t) \/ WriteStore(t)

Lone(t) ==
    \/ Frees(t) \/ Looks(t) \/ Spends(t) \/ Fails(t) \/ Rotates(t) \/ Saves(t) \/ Settles(t)
    \/ Answers(t) \/ Commits(t)

\* Each step of such a client is one of these.
LEMMA LoneStep ==
    ASSUME SoleClient, TypeInv, SoleInv, SyncInv, [Next]_vars, Untroubled'
    PROVE  (\E t \in Task : Lone(t)) \/ Elapse \/ UNCHANGED vars
<1>0. \A t \in Task : /\ ClientOf[t] \in Client /\ loc[t] \in Locals
                      /\ FitCall(at[t], job[t], loc[t]) /\ SyncCall(at[t], loc[t], Mine(t))
    BY TokenAssumption DEF TypeInv, CallTypes, SoleInv, SoleCalls, SoleCall, SyncInv
<1>1. ASSUME NEW t \in Task PROVE ~ReadFails(t) /\ ~StoreFails(t) /\ ~Cancel(t)
    BY DEF ReadFails, StoreFails, Cancel, Untroubled, TypeInv, StoreTypes
<1>2. ASSUME NEW t \in Task PROVE ~BeginLoad(t) /\ ~BeginSignIn(t)
    BY DEF BeginLoad, BeginSignIn, Begin, SoleClient
<1>3. ASSUME NEW t \in Task PROVE
           /\ ~InstallLoaded(t) /\ ~LoginAnswered(t) /\ ~ServiceLogin(t)
           /\ ~AdoptStored(t) /\ ~SettleNewer(t) /\ ~SettleFailed(t)
    <2>1. ~InstallLoaded(t) /\ ~LoginAnswered(t) /\ ~ServiceLogin(t)
        BY <1>0 DEF InstallLoaded, LoginAnswered, ServiceLogin, Reply, Refuse, Go, FitCall
    <2> QED
        BY <1>0, <2>1 DEF AdoptStored, StoredNewer, SettleNewer, SettleFailed, SyncCall
\* A step that leaves the locks' order, sessions and services alone.
<1>4. ASSUME NEW t \in Task, NEW step, NEW j, NEW l, Moves(t, step, j, l)
      PROVE  OthersStay(t) /\ at'[t] = step /\ loc'[t] = l
    BY <1>4 DEF Moves, OthersStay
<1>5. UNCHANGED <<store, session, base>> => SameSession
    BY DEF SameSession
<1>6. Blank.answer.kind = "none" /\ ~Blank.cancelled
    BY DEF Blank, Answered
<1>7. ASSUME NEW t \in Task, End(t), SameSession, UNCHANGED <<service, history>>, at[t] \notin Changing,
             ~Pending(at[t], loc[t]), ~Rotated(at[t], loc[t])
      PROVE  Frees(t)
    <2>1. Moves(t, "idle", "none", Blank)
        BY <1>7, Moved DEF End
    <2> QED
        BY <1>4, <1>6, <1>7, <2>1 DEF Frees, Goes
<1>8. ASSUME NEW t \in Task, NEW s, NEW again, SendRequest(t, s, again), SameSession, UNCHANGED <<service, history>>,
             at[t] \notin Changing, ~Pending(at[t], loc[t]), ~Rotated(at[t], loc[t])
      PROVE  Frees(t)
    <2> DEFINE l == [Blank EXCEPT !.used = s.pair, !.again = again]
    <2>1. Moves(t, "request", job[t], l) /\ l.answer.kind = "none" /\ ~l.cancelled
        BY <1>6, <1>8, Moved DEF SendRequest, Blank
    <2> HIDE DEF l
    <2> QED
        BY <1>4, <1>8, <2>1 DEF Frees, Goes
\* At these steps a call has no answer to save.
<1>9. ASSUME NEW t \in Task, at[t] \in {"idle", "gate", "gated", "decide", "request", "rejected", "refreshing", "minting", "rotating"}
      PROVE  /\ at[t] \notin Changing /\ ~Pending(at[t], loc[t]) /\ ~Rotated(at[t], loc[t])
             /\ loc[t].answer.kind = "none" /\ ~loc[t].cancelled
    BY <1>0, <1>9 DEF SyncCall, Changing, Committing, Pending, Rotated
<1>10. ASSUME NEW t \in Task, BeginRequest(t) PROVE Frees(t)
    <2>1. at[t] = "idle" /\ UNCHANGED <<store, session, base, service, history>>
        BY <1>10 DEF BeginRequest, Begin, clientVars
    <2>2. PICK kind : job' = [job EXCEPT ![t] = kind]
        BY <1>10 DEF BeginRequest
    <2>3. CASE at' = [at EXCEPT ![t] = "request"] /\ Keep(t, [Blank EXCEPT !.used = Mine(t).pair])
        <3> DEFINE l == [Blank EXCEPT !.used = Mine(t).pair]
        <3>1. Moves(t, "request", kind, l) /\ l.answer.kind = "none" /\ ~l.cancelled
            BY <1>6, <2>2, <2>3, Moved DEF Blank
        <3> HIDE DEF l
        <3> QED
            BY <1>4, <1>5, <1>9, <2>1, <3>1 DEF Frees, Goes
    <2>4. CASE at' = [at EXCEPT ![t] = "gate"] /\ UNCHANGED loc
        <3>1. Keep(t, loc[t])
            BY <2>4 DEF Keep, TypeInv, CallTypes
        <3>2. Moves(t, "gate", kind, loc[t])
            BY <2>2, <2>4, <3>1, Moved
        <3> QED
            BY <1>4, <1>5, <1>9, <2>1, <3>2 DEF Frees, Goes
    <2> QED
        BY <1>10, <2>3, <2>4 DEF BeginRequest, Go
<1>11. ASSUME NEW t \in Task, BeginAlarms(t) PROVE Rotates(t)
    <2> DEFINE l == [Blank EXCEPT !.acct = Mine(t).acct, !.after = "alarms"]
    <2>1. at[t] = "idle" /\ UNCHANGED <<store, session, base, service, history>>
        BY <1>11 DEF BeginAlarms, Begin, clientVars
    <2>2. /\ Moves(t, "rotating", "alarms", l) /\ l.answer.kind = "none" /\ ~l.cancelled
          /\ l.acct = Mine(t).acct /\ l.after = "alarms"
        BY <1>6, <1>11, Moved DEF BeginAlarms, RefreshAccount, Blank
    <2> HIDE DEF l
    <2> QED
        BY <1>4, <1>5, <1>9, <2>1, <2>2 DEF Rotates, Goes
<1>12. ASSUME NEW t \in Task, ReadStore(t) PROVE Looks(t)
    <2> DEFINE l == [loc[t] EXCEPT !.rec = store]
    <2>1. at[t] = "gated" /\ UNCHANGED <<store, session, base, service, history>>
        BY <1>0, <1>12 DEF ReadStore, Go, clientVars, FitCall
    <2>2. Moves(t, "decide", job[t], l) /\ l.answer = loc[t].answer /\ l.cancelled = loc[t].cancelled /\ l.rec = store
        BY <1>0, <1>12, <2>1, Moved DEF ReadStore, Go, Locals
    <2> HIDE DEF l
    <2> QED
        BY <1>4, <1>5, <1>9, <2>1, <2>2 DEF Looks, Goes
<1>13. ASSUME NEW t \in Task, \/ RequestAnswered(t) \/ CommandRejected(t) \/ GateFindsDead(t) \/ FindDead(t)
       PROVE  Frees(t)
    <2>1. at[t] \in {"request", "rejected", "gate", "decide"} /\ End(t) /\ UNCHANGED <<store, base, service, history>>
        BY <1>13 DEF RequestAnswered, CommandRejected, GateFindsDead, FindDead, clientVars
    <2>2. SameSession
        <3>1. UNCHANGED session \/ session' = [session EXCEPT ![ClientOf[t]].zeroed = @ \/ session[ClientOf[t]].pair = loc[t].used]
            BY <1>13 DEF RequestAnswered, CommandRejected, GateFindsDead, FindDead, clientVars
        <3> QED
            BY <1>0, <2>1, <3>1 DEF SameSession, TypeInv, StoreTypes, Session
    <2> QED
        BY <1>7, <1>9, <2>1, <2>2
<1>14. ASSUME NEW t \in Task, ServiceRejects(t) \/ TakeGate(t) PROVE Frees(t)
    <2>1. at[t] \in {"request", "gate"} /\ Keep(t, loc[t]) /\ UNCHANGED <<store, session, base, service, history, job>>
        BY <1>14 DEF ServiceRejects, TakeGate, Go, clientVars, Keep, TypeInv, CallTypes
    <2>2. Moves(t, "rejected", job[t], loc[t]) \/ Moves(t, "gated", job[t], loc[t])
        BY <1>14, <2>1, Moved DEF ServiceRejects, TakeGate, Go
    <2> QED
        BY <1>4, <1>5, <1>9, <2>1, <2>2 DEF Frees, Goes
<1>15. ASSUME NEW t \in Task, ReadRejected(t) PROVE Frees(t)
    <2>1. at[t] = "rejected" /\ UNCHANGED <<store, session, base, service, history>>
        BY <1>15 DEF ReadRejected, Go, clientVars
    <2> DEFINE l == [Blank EXCEPT !.stale = loc[t].used]
    <2>2. l.answer.kind = "none" /\ ~l.cancelled
        BY <1>6 DEF Blank
    <2>3. End(t) \/ (at' = [at EXCEPT ![t] = "gate"] /\ Keep(t, l) /\ UNCHANGED job)
        BY <1>15 DEF ReadRejected, Go
    <2> HIDE DEF l
    <2>4. End(t) \/ Moves(t, "gate", job[t], l)
        BY <2>3, Moved
    <2> QED
        BY <1>4, <1>5, <1>7, <1>9, <2>1, <2>2, <2>4 DEF Frees, Goes
<1>16. ASSUME NEW t \in Task, SkipRefresh(t) PROVE Frees(t)
    BY <1>5, <1>8, <1>9, <1>16 DEF SkipRefresh, clientVars
<1>17. ASSUME NEW t \in Task, SpendToken(t) PROVE Spends(t)
    <2> DEFINE l == [loc[t] EXCEPT !.rec = Empty, !.spend = Mine(t).pair, !.root = Mine(t).origin]
    <2>1. at[t] = "decide" /\ UNCHANGED <<store, session, base, service, history>>
        BY <1>17 DEF SpendToken, Go, clientVars
    <2>2. /\ Moves(t, "refreshing", job[t], l) /\ l.answer = loc[t].answer /\ l.cancelled = loc[t].cancelled
          /\ l.spend = Mine(t).pair
        BY <1>0, <1>17, Moved DEF SpendToken, Go, Locals
    <2> HIDE DEF l
    <2> QED
        BY <1>4, <1>5, <1>9, <2>1, <2>2 DEF Spends, Goes
\* A refresh that failed for good.
<1>18. ASSUME NEW t \in Task, NEW l \in Locals, l.answer.kind = "none", ~l.cancelled,
              RenewOrBury(t, l) \/ Bury(t, l), UNCHANGED <<store, session, base, service, history, job>>,
              \/ at[t] = "decide" /\ ~RefreshValid(Mine(t))
              \/ at[t] = "refreshed" /\ loc[t].answer.kind = "spent"
              \/ at[t] = "minted"
              \/ at[t] = "rotated" /\ loc[t].after = "renew" /\ loc[t].answer.kind # "acct"
       PROVE  Fails(t)
    <2>1. at[t] \notin Changing /\ ~Pending(at[t], loc[t]) /\ ~Rotated(at[t], loc[t])
        BY <1>18 DEF Changing, Committing, Pending, Rotated
    <2>2. CASE Bury(t, l)
        <3> DEFINE m == [l EXCEPT !.why = "bury", !.spend = Mine(t).pair]
        <3>1. Moves(t, "lock", job[t], m) /\ m.answer = l.answer /\ m.cancelled = l.cancelled /\ m.why = "bury"
            BY <1>18, <2>2, Moved DEF Bury, Locals
        <3> HIDE DEF m
        <3> QED
            BY <1>4, <1>5, <1>18, <2>1, <3>1 DEF Fails, Goes
    <2>3. CASE at' = [at EXCEPT ![t] = "minting"] /\ Keep(t, [l EXCEPT !.acct = Mine(t).acct, !.acctRoot = Mine(t).origin])
        <3> DEFINE m == [l EXCEPT !.acct = Mine(t).acct, !.acctRoot = Mine(t).origin]
        <3>1. Moves(t, "minting", job[t], m) /\ m.answer = l.answer /\ m.cancelled = l.cancelled
            BY <1>18, <2>3, Moved DEF Locals
        <3> HIDE DEF m
        <3> QED
            BY <1>4, <1>5, <1>18, <2>1, <3>1 DEF Fails, Goes
    <2> QED
        BY <1>18, <2>2, <2>3 DEF RenewOrBury
<1>19. ASSUME NEW t \in Task PROVE
           LET l == [loc[t] EXCEPT !.answer = Answered("none", 0)]
           IN  l \in Locals /\ l.answer.kind = "none" /\ ~l.cancelled
    BY <1>0 DEF Locals, Answer, Answered, SyncCall
<1>20. ASSUME NEW t \in Task, NoRefreshToken(t) PROVE Fails(t)
    <2> DEFINE l == [loc[t] EXCEPT !.rec = Empty, !.root = Mine(t).origin]
    <2>1. /\ at[t] = "decide" /\ ~RefreshValid(Mine(t)) /\ RenewOrBury(t, l)
          /\ UNCHANGED <<store, session, base, service, history, job>>
        BY <1>20 DEF NoRefreshToken, clientVars
    <2>2. Mine(t).origin \in Nat /\ Empty \in Session
        BY <1>0, TokenAssumption DEF Session, Empty, None, Pairs, Accts, Mine, TypeInv, StoreTypes
    <2>3. l \in Locals /\ l.answer = loc[t].answer /\ l.cancelled = loc[t].cancelled
        BY <1>0, <2>2 DEF Locals
    <2> HIDE DEF l
    <2> QED
        BY <1>9, <1>18, <2>1, <2>3
\* An answer that is to be saved.
<1>21. ASSUME NEW t \in Task, NEW w \in {"refresh", "mint", "account"}, Keep(t, [loc[t] EXCEPT !.why = w]),
              at' = [at EXCEPT ![t] = "lock"], UNCHANGED <<store, session, base, service, job>>
       PROVE  /\ OthersStay(t) /\ SameSession /\ at'[t] = "lock" /\ loc'[t].why = w
              /\ loc'[t] = [loc[t] EXCEPT !.why = loc'[t].why]
    <2> DEFINE l == [loc[t] EXCEPT !.why = w]
    <2>1. Moves(t, "lock", job[t], l) /\ l.why = w
        BY <1>0, <1>21, Moved DEF Locals
    <2>2. OthersStay(t) /\ at'[t] = "lock" /\ loc'[t] = l
        BY <1>4, <2>1
    <2>3. loc'[t] = [loc[t] EXCEPT !.why = loc'[t].why]
        BY <2>1, <2>2
    <2> HIDE DEF l
    <2> QED
        BY <1>5, <1>21, <2>1, <2>2, <2>3
<1>22. ASSUME NEW t \in Task, RefreshAnswered(t) PROVE Saves(t) \/ Fails(t) \/ Frees(t)
    <2>1. at[t] = "refreshed" /\ UNCHANGED <<store, session, base, service>>
        BY <1>22 DEF RefreshAnswered, clientVars
    <2>2. CASE loc[t].answer.kind = "pair"
        BY <1>21, <1>22, <2>1, <2>2 DEF RefreshAnswered, Saves
    <2>3. CASE loc[t].answer.kind = "spent"
        BY <1>18, <1>19, <1>22, <2>1, <2>3 DEF RefreshAnswered
    <2>4. CASE loc[t].answer.kind = "failed"
        <3>1. at[t] \notin Changing /\ ~Pending(at[t], loc[t]) /\ ~Rotated(at[t], loc[t])
            BY <2>1, <2>4 DEF Changing, Committing, Pending, Rotated
        <3> QED
            BY <1>5, <1>7, <1>22, <2>1, <2>4, <3>1 DEF RefreshAnswered
    <2> QED
        BY <1>22, <2>2, <2>3, <2>4 DEF RefreshAnswered
<1>23. ASSUME NEW t \in Task, MintAnswered(t) PROVE Saves(t) \/ Fails(t) \/ Frees(t)
    <2>1. at[t] = "minted" /\ UNCHANGED <<store, session, base, service, history>>
        BY <1>23 DEF MintAnswered
    <2>2. at[t] \notin Changing /\ ~Pending(at[t], loc[t]) /\ ~Rotated(at[t], loc[t])
        BY <2>1 DEF Changing, Committing, Pending, Rotated
    <2> DEFINE l == [loc[t] EXCEPT !.answer = Answered("none", 0)]
    <2>3. l \in Locals /\ l.answer.kind = "none" /\ ~l.cancelled
        BY <1>19
    <2> HIDE DEF l
    <2>4. CASE /\ loc[t].answer.kind = "pair" /\ UNCHANGED job
               /\ at' = [at EXCEPT ![t] = "lock"] /\ Keep(t, [loc[t] EXCEPT !.why = "mint"])
        BY <1>21, <2>1, <2>4 DEF Saves
    <2>5. CASE RefreshAccount(t, l, "renew") /\ UNCHANGED job
        <3> DEFINE m == [l EXCEPT !.acct = Mine(t).acct, !.after = "renew"]
        <3>1. Moves(t, "rotating", job[t], m) /\ m.answer = l.answer /\ m.cancelled = l.cancelled /\ m.acct = Mine(t).acct
            BY <2>3, <2>5, Moved DEF RefreshAccount, Locals
        <3> HIDE DEF m
        <3> QED
            BY <1>4, <1>5, <2>1, <2>2, <2>3, <3>1 DEF Fails, Goes
    <2>6. CASE Bury(t, l) /\ UNCHANGED job
        BY <1>18, <2>1, <2>3, <2>6
    <2>7. CASE End(t)
        BY <1>5, <1>7, <2>1, <2>2, <2>7
    <2> QED
        BY <1>23, <2>4, <2>5, <2>6, <2>7 DEF MintAnswered, l
<1>24. ASSUME NEW t \in Task, AccountAnswered(t) PROVE Saves(t) \/ Fails(t) \/ Frees(t)
    <2>1. at[t] = "rotated" /\ UNCHANGED <<store, session, base, service>>
        BY <1>24 DEF AccountAnswered, clientVars
    <2>2. CASE loc[t].answer.kind = "acct"
        BY <1>21, <1>24, <2>1, <2>2 DEF AccountAnswered, Saves
    <2>3. CASE loc[t].answer.kind # "acct"
        <3>1. at[t] \notin Changing /\ ~Pending(at[t], loc[t]) /\ ~Rotated(at[t], loc[t])
            BY <2>1, <2>3 DEF Changing, Committing, Pending, Rotated
        <3>2. UNCHANGED history
            BY <1>24, <2>3 DEF AccountAnswered
        <3>3. CASE Established(t, Mine(t)) \/ End(t)
            BY <1>5, <1>7, <1>8, <2>1, <3>1, <3>2, <3>3 DEF Established
        <3>4. CASE loc[t].after = "renew" /\ Bury(t, [loc[t] EXCEPT !.answer = Answered("none", 0)]) /\ UNCHANGED job
            BY <1>18, <1>19, <2>1, <2>3, <3>2, <3>4
        <3> QED
            BY <1>24, <2>3, <3>3, <3>4 DEF AccountAnswered
    <2> QED
        BY <2>2, <2>3
<1>25. ASSUME NEW t \in Task, SettleSaved(t) PROVE Settles(t)
    <2>1. /\ at[t] = "settle" /\ loc[t].rec = store /\ ~loc[t].cancelled
          /\ UNCHANGED <<store, service, history>> /\ AfterChange(t, store, TRUE)
        BY <1>0, <1>25 DEF SettleSaved, SyncCall
    <2>2. \A c \in Client : session'[c] = store /\ base'[c] = store.pair
        BY <1>0, <1>25, <2>1 DEF SettleSaved, Install, SoleClient, TypeInv, StoreTypes
    <2> DEFINE l == [loc[t] EXCEPT !.answer = Answered("none", 0), !.why = "none", !.rec = Empty,
                                   !.expected = NoBase, !.outcome = "none", !.acct = None]
    <2>3. l.answer.kind = "none" /\ ~l.cancelled /\ DOMAIN l = DOMAIN loc[t] /\ l.after = loc[t].after
        BY <1>0, <2>1 DEF Locals, Answered
    <2>4. ASSUME NEW j, NEW m, NEW step, Moves(t, step, j, m), m.answer.kind = "none", ~m.cancelled,
                 \/ step \in {"idle", "request"}
                 \/ step = "rotating" /\ m.acct = store.acct /\ m.after = "establish"
                 \/ step = "minting" /\ loc[t].why = "account" /\ loc[t].after = "renew"
          PROVE  Settles(t)
        BY <1>4, <2>1, <2>2, <2>4 DEF Settles
    <2>5. CASE End(t)
        <3>1. Moves(t, "idle", "none", Blank)
            BY <2>5, Moved DEF End
        <3> QED
            BY <1>6, <2>4, <3>1
    <2>6. ASSUME NEW s, NEW again, SendRequest(t, s, again) PROVE Settles(t)
        <3> DEFINE m == [Blank EXCEPT !.used = s.pair, !.again = again]
        <3>1. Moves(t, "request", job[t], m) /\ m.answer.kind = "none" /\ ~m.cancelled
            BY <1>6, <2>6, Moved DEF SendRequest, Blank
        <3> HIDE DEF m
        <3> QED
            BY <2>4, <3>1
    <2>7. CASE /\ at' = [at EXCEPT ![t] = "rotating"] /\ UNCHANGED job
               /\ Keep(t, [l EXCEPT !.acct = store.acct, !.after = "establish"])
        <3> DEFINE m == [l EXCEPT !.acct = store.acct, !.after = "establish"]
        <3>1. /\ Moves(t, "rotating", job[t], m) /\ m.answer = l.answer /\ m.cancelled = l.cancelled
              /\ m.acct = store.acct /\ m.after = "establish"
            BY <1>0, <2>7, Moved DEF Locals
        <3> HIDE DEF m, l
        <3> QED
            BY <2>3, <2>4, <3>1
    <2>8. CASE /\ at' = [at EXCEPT ![t] = "minting"] /\ UNCHANGED job /\ loc[t].why = "account" /\ loc[t].after = "renew"
               /\ Keep(t, [l EXCEPT !.acct = store.acct, !.acctRoot = store.origin, !.attempt = 1])
        <3> DEFINE m == [l EXCEPT !.acct = store.acct, !.acctRoot = store.origin, !.attempt = 1]
        <3>1. Moves(t, "minting", job[t], m) /\ m.answer = l.answer /\ m.cancelled = l.cancelled
            BY <1>0, <2>8, Moved DEF Locals
        <3> HIDE DEF m, l
        <3> QED
            BY <2>3, <2>4, <2>8, <3>1
    <2>9. loc[t].why \in {"refresh", "bury", "mint", "account"}
        BY <1>0, <2>1 DEF Locals, FitCall, Changing, Committing
    <2> HIDE DEF l
    <2>10. CASE loc[t].why \in {"refresh", "bury", "mint"}
        BY <2>1, <2>5, <2>6, <2>7, <2>10 DEF AfterChange, Buried, Established, l
    <2>11. CASE loc[t].why = "account"
        <3>1. AccountRefreshed(t, store, TRUE, l)
            BY <2>1, <2>11 DEF AfterChange, l
        <3> QED
            BY <2>5, <2>6, <2>8, <2>11, <3>1 DEF AccountRefreshed, Established
    <2> QED
        BY <2>9, <2>10, <2>11
<1>26. ASSUME NEW t \in Task, Advance(t) PROVE Lone(t)
    <2>1. CASE \/ ReadStore(t) \/ RequestAnswered(t) \/ ServiceRejects(t) \/ ReadRejected(t) \/ CommandRejected(t)
               \/ TakeGate(t) \/ GateFindsDead(t) \/ FindDead(t) \/ SkipRefresh(t) \/ SpendToken(t) \/ NoRefreshToken(t)
        BY <1>12, <1>13, <1>14, <1>15, <1>16, <1>17, <1>20, <2>1 DEF Lone
    <2> QED
        BY <1>1, <1>3, <1>22, <1>23, <1>24, <1>25, <1>26, <2>1 DEF Advance, Lone, Answers, Commits
<1> QED
    BY <1>1, <1>2, <1>10, <1>11, <1>26 DEF Next, BeginCall, Lone
---------------------------------------------------------------------------------
(* Its session is the saved one *)

LEMMA TroubleSpent ==
    ASSUME TypeInv, [Next]_vars
    PROVE  /\ Untroubled' => Untroubled
           /\ budget'.lost = MaxLost => budget.lost = MaxLost
<1>1. /\ budget'.faults \in {budget.faults, budget.faults - 1} /\ budget.faults \in 0..MaxFaults
      /\ budget'.cancels \in {budget.cancels, budget.cancels - 1} /\ budget.cancels \in 0..MaxCancels
      /\ budget'.lost \in {budget.lost, budget.lost - 1} /\ budget.lost \in 0..MaxLost
    BY BudgetSpent DEF OnlySpent, TypeInv, StoreTypes
<1> QED
    BY <1>1, TokenAssumption DEF Untroubled

\* What the answer to a call changes.
AnswerOf(t, kind, value) == loc'[t].answer = Answered(kind, value)

Lost == budget'.lost # MaxLost

RefreshedAs(t) ==
    LET n == service.pairs + 1
    IN  /\ at[t] = "refreshing" /\ at'[t] = "refreshed"
        /\ \/ /\ loc[t].spend \in service.live /\ n \in Pairs
              /\ AnswerOf(t, "pair", n) \/ (AnswerOf(t, "failed", 0) /\ Lost)
              /\ service' = [service EXCEPT !.pairs = n, !.live = (@ \ {loc[t].spend}) \cup {n}]
              /\ history' = [history EXCEPT !.spent = @ \cup {loc[t].spend}]
           \/ /\ AnswerOf(t, "failed", 0) \/ (AnswerOf(t, "spent", 0) /\ loc[t].spend \notin service.live)
              /\ UNCHANGED <<service, history>>

MintedAs(t) ==
    LET n == service.pairs + 1
    IN  /\ at[t] = "minting" /\ at'[t] = "minted"
        /\ UNCHANGED history
        /\ \/ /\ n \in Pairs
              /\ AnswerOf(t, "pair", n) \/ AnswerOf(t, "failed", 0)
              /\ service' = [service EXCEPT !.pairs = n, !.live = @ \cup {n}]
           \/ /\ AnswerOf(t, "failed", 0) \/ AnswerOf(t, "refused", 0)
              /\ UNCHANGED service

RotatedAs(t) ==
    LET n == service.accts + 1
    IN  /\ at[t] = "rotating" /\ at'[t] = "rotated"
        /\ UNCHANGED history
        /\ \/ /\ loc[t].acct \in service.acctLive /\ n \in Accts
              /\ AnswerOf(t, "acct", n) \/ AnswerOf(t, "failed", 0)
              /\ service' = [service EXCEPT !.accts = n, !.acctLive = (@ \ {loc[t].acct}) \cup {n}]
           \/ /\ AnswerOf(t, "failed", 0) \/ AnswerOf(t, "refused", 0)
              /\ UNCHANGED service

LEMMA AnswersMove ==
    ASSUME TypeInv, NEW t \in Task, Answers(t)
    PROVE  /\ OthersStay(t)
           /\ UNCHANGED <<store, session, base>>
           /\ loc'[t] = [loc[t] EXCEPT !.answer = loc'[t].answer]
           /\ RefreshedAs(t) \/ MintedAs(t) \/ RotatedAs(t)
<1>0. budget.lost \in 0..MaxLost /\ loc[t] \in Locals /\ at \in [Task -> Step] /\ loc \in [Task -> Locals]
    BY DEF TypeInv, StoreTypes, CallTypes
<1>1. UNCHANGED <<store, session, base, job>>
    BY DEF Answers, ServiceRefresh, ServiceMint, ServiceAccount, Untouched, clientVars
<1>2. ASSUME NEW to, NEW a, at' = [at EXCEPT ![t] = to], Keep(t, [loc[t] EXCEPT !.answer = a])
      PROVE  /\ OthersStay(t) /\ loc'[t] = [loc[t] EXCEPT !.answer = loc'[t].answer]
             /\ at'[t] = to /\ loc'[t].answer = a
    <2> DEFINE l == [loc[t] EXCEPT !.answer = a]
    <2>1. l.answer = a
        BY <1>0 DEF Locals
    <2>2. OthersStay(t) /\ loc'[t] = l /\ at'[t] = to
        BY <1>0, <1>1, <1>2 DEF OthersStay, Keep
    <2>3. loc'[t] = [loc[t] EXCEPT !.answer = loc'[t].answer]
        BY <2>1, <2>2
    <2> HIDE DEF l
    <2> QED
        BY <2>1, <2>2, <2>3
<1>3. ASSUME NEW from, NEW to, NEW kind, NEW value, Reply(t, from, to, kind, value)
      PROVE  /\ OthersStay(t) /\ loc'[t] = [loc[t] EXCEPT !.answer = loc'[t].answer]
             /\ at[t] = from /\ at'[t] = to
             /\ AnswerOf(t, kind, value) \/ (AnswerOf(t, "failed", 0) /\ Lost)
    <2>1. at[t] = from /\ at' = [at EXCEPT ![t] = to]
        BY <1>3 DEF Reply, Go
    <2>2. CASE Keep(t, [loc[t] EXCEPT !.answer = Answered(kind, value)])
        BY <1>2, <2>1, <2>2 DEF AnswerOf
    <2>3. CASE /\ budget' = [budget EXCEPT !.lost = @ - 1]
               /\ Keep(t, [loc[t] EXCEPT !.answer = Answered("failed", 0)])
        <3>1. budget'.lost = budget.lost - 1
            BY <2>3 DEF TypeInv, StoreTypes
        <3>2. Lost
            BY <1>0, <3>1, TokenAssumption DEF Lost
        <3> QED
            BY <1>2, <2>1, <2>3, <3>2 DEF AnswerOf
    <2> QED
        BY <1>3, <2>2, <2>3 DEF Reply
<1>4. ASSUME NEW from, NEW to, NEW kind, Refuse(t, from, to, kind)
      PROVE  /\ OthersStay(t) /\ loc'[t] = [loc[t] EXCEPT !.answer = loc'[t].answer]
             /\ at[t] = from /\ at'[t] = to /\ AnswerOf(t, kind, 0)
    BY <1>2, <1>4 DEF Refuse, Go, AnswerOf
<1>5. CASE ServiceRefresh(t)
    BY <1>1, <1>3, <1>4, <1>5 DEF ServiceRefresh, RefreshedAs
<1>6. CASE ServiceMint(t)
    BY <1>1, <1>3, <1>4, <1>6 DEF ServiceMint, MintedAs
<1>7. CASE ServiceAccount(t)
    BY <1>1, <1>3, <1>4, <1>7 DEF ServiceAccount, RotatedAs
<1> QED
    BY <1>5, <1>6, <1>7 DEF Answers

\* All but the step of the one call keeps it.
LEMMA SyncMove ==
    ASSUME SyncInv, SoleClient, NEW t \in Task, OthersStay(t), SameSession, at[t] # "settle", at'[t] # "settle",
           SyncCall(at'[t], loc'[t], Mine(t))
    PROVE  SyncInv'
<1>1. \A c \in Client : session'[c].pair = session[c].pair /\ session'[c].acct = session[c].acct
    BY DEF SameSession
<1>2. \A u \in Task : ClientOf[u] \in Client
    BY TokenAssumption
<1>3. ASSUME NEW u \in Task PROVE SyncCall(at[u], loc[u], Mine(u))'
    <2>1. SyncCall(at'[u], loc'[u], Mine(u))
        <3>1. CASE u = t
            BY <3>1
        <3>2. CASE u # t
            BY <3>2 DEF OthersStay, SyncInv
        <3> QED
            BY <3>1, <3>2
    <2> QED
        BY <1>1, <1>2, <2>1 DEF SyncCall, Mine, SameSession
<1>4. ((\A c \in Client : InSync(session[c])) \/ \E u \in Task : at[u] = "settle")'
    <2>1. CASE \A c \in Client : InSync(session[c])
        BY <1>1, <2>1 DEF InSync, SameSession
    <2>2. CASE \E u \in Task : at[u] = "settle"
        BY <2>2 DEF OthersStay
    <2> QED
        BY <2>1, <2>2 DEF SyncInv
<1> QED
    BY <1>1, <1>3, <1>4 DEF SyncInv, SameSession

LEMMA SyncStep ==
    ASSUME SoleClient, TypeInv, LockInv, SoleInv, SyncInv, [Next]_vars, Untroubled'
    PROVE  SyncInv'
<1>0. \A t \in Task : /\ ClientOf[t] \in Client /\ loc[t] \in Locals
                      /\ FitCall(at[t], job[t], loc[t]) /\ SyncCall(at[t], loc[t], Mine(t))
    BY TokenAssumption DEF TypeInv, CallTypes, SoleInv, SoleCalls, SoleCall, SyncInv
<1>1. ASSUME NEW t \in Task, Frees(t) \/ Spends(t) \/ Fails(t) \/ Rotates(t) PROVE SyncInv'
    <2>1. Goes(t) /\ (at'[t] \notin Changing \/ (at'[t] = "lock" /\ loc'[t].why = "bury"))
                  /\ at'[t] \notin {"decide"} \cup Committing
        BY <1>1 DEF Frees, Spends, Fails, Rotates, Changing, Committing
    <2> QED
        BY <2>1, SyncMove DEF Goes, SyncCall, Committing, Changing
<1>2. ASSUME NEW t \in Task, Looks(t) PROVE SyncInv'
    <2>1. store.pair = Mine(t).pair
        <3>1. CASE \A c \in Client : InSync(session[c])
            BY <1>0, <3>1 DEF InSync, Mine
        <3>2. ASSUME NEW u \in Task, at[u] = "settle" PROVE store.pair = Mine(t).pair
            <4>1. InRefresh(t) /\ u # t
                BY <1>2, <3>2, SoleRefreshes DEF Looks, InRefresh, Refreshing, Requests
            <4>2. loc[u].why = "account"
                BY <1>0, <3>2, <4>1, SoleAlone DEF FitCall, InRefresh, Refreshing, Changing, Committing, Requests
            <4>3. ClientOf[u] = ClientOf[t]
                BY <1>0 DEF SoleClient
            <4> QED
                BY <1>0, <3>2, <4>2, <4>3 DEF SyncCall, Mine
        <3> QED
            BY <3>1, <3>2 DEF SyncInv
    <2>2. SyncCall(at'[t], loc'[t], Mine(t))
        BY <1>2, <2>1 DEF Looks, Goes, SyncCall, Committing, Changing
    <2> QED
        BY <1>2, <2>2, SyncMove DEF Looks, Goes, Changing, Committing
<1>3. ASSUME NEW t \in Task, Saves(t) PROVE SyncInv'
    <2>1. loc'[t].cancelled = loc[t].cancelled /\ loc'[t].why # "bury"
        BY <1>0, <1>3 DEF Saves, Locals
    <2>2. SyncCall(at'[t], loc'[t], Mine(t))
        BY <1>0, <1>3, <2>1 DEF Saves, SyncCall, Changing
    <2> QED
        BY <1>3, <2>2, SyncMove DEF Saves
<1>4. ASSUME NEW t \in Task, Answers(t) PROVE SyncInv'
    <2>1. /\ OthersStay(t) /\ UNCHANGED <<store, session, base>>
          /\ loc'[t] = [loc[t] EXCEPT !.answer = loc'[t].answer]
          /\ at[t] \notin Committing /\ at'[t] \in {"refreshed", "minted", "rotated"}
        BY <1>4, AnswersMove DEF RefreshedAs, MintedAs, RotatedAs, Committing
    <2>2. loc'[t].cancelled = loc[t].cancelled
        BY <1>0, <2>1 DEF Locals
    <2>3. SyncCall(at'[t], loc'[t], Mine(t)) /\ SameSession
        BY <1>0, <2>1, <2>2 DEF SyncCall, SameSession, Committing, Changing
    <2> QED
        BY <2>1, <2>3, SyncMove DEF Committing
\* While a call changes the session, no other is settling.
<1>5. ASSUME NEW t \in Task, at[t] \in {"start", "write"} \/ changing[ClientOf[t]] = NoTask
      PROVE  InSync(Mine(t)) /\ \A u \in Task : at[u] # "settle" /\ (u # t => at[u] \notin Committing)
    <2>1. \A u \in Task : at[u] # "settle" /\ (u # t => at[u] \notin Committing)
        BY <1>5, SoleAlone DEF Committing
    <2> QED
        BY <1>0, <2>1 DEF SyncInv, Mine
<1>6. ASSUME NEW t \in Task, TakeChanging(t) PROVE SyncInv'
    <2> DEFINE l == [loc[t] EXCEPT !.rec = Built(t, Mine(t))]
    <2>1. /\ Moves(t, "start", job[t], l) /\ l.rec = Built(t, Mine(t)) /\ l.why = loc[t].why
          /\ l.answer = loc[t].answer /\ l.cancelled = loc[t].cancelled
          /\ at[t] = "lock" /\ UNCHANGED <<store, session, base>>
        BY <1>0, <1>6, Moved DEF TakeChanging, Go, Locals, clientVars
    <2>2. Mine(t) \in Session
        BY <1>0 DEF Mine, TypeInv, StoreTypes
    <2>3. IF loc[t].why = "account" THEN l.rec.pair = Mine(t).pair /\ l.rec.acct = l.answer.value
          ELSE l.rec.acct = Mine(t).acct
        BY <2>1, <2>2 DEF Built, Session
    <2> HIDE DEF l
    <2>4. SyncCall("start", l, Mine(t))
        BY <1>0, <2>1, <2>3 DEF SyncCall, Changing, Committing
    <2> QED
        BY <2>1, <2>4, SyncMove DEF Moves, OthersStay, SameSession
<1>7. ASSUME NEW t \in Task, StartCommit(t) PROVE SyncInv'
    <2> DEFINE l == [loc[t] EXCEPT !.expected = IF SigningIn(t) THEN NoBase ELSE base[ClientOf[t]]]
    <2>1. /\ Moves(t, "write", job[t], l) /\ l.rec = loc[t].rec /\ l.why = loc[t].why
          /\ l.answer = loc[t].answer /\ l.cancelled = loc[t].cancelled
          /\ l.expected = (IF SigningIn(t) THEN NoBase ELSE base[ClientOf[t]])
          /\ at[t] = "start" /\ UNCHANGED <<store, session, base>>
        BY <1>0, <1>7, Moved DEF StartCommit, Go, Locals, clientVars
    <2>2. ~SigningIn(t) /\ base[ClientOf[t]] = Mine(t).pair
        BY <1>0 DEF FitCall, SigningIn, Requests, SyncInv, Mine
    <2> HIDE DEF l
    <2>3. SyncCall("write", l, Mine(t))
        BY <1>0, <2>1, <2>2 DEF SyncCall, Changing, Committing
    <2> QED
        BY <2>1, <2>3, SyncMove DEF Moves, OthersStay, SameSession
<1>8. ASSUME NEW t \in Task, WriteStore(t) PROVE SyncInv'
    <2>1. at[t] = "write" /\ at' = [at EXCEPT ![t] = "settle"] /\ UNCHANGED <<session, base, job>>
        BY <1>8 DEF WriteStore, Go, clientVars
    <2>2. /\ InSync(Mine(t)) /\ loc[t].expected = store.pair /\ ~SigningIn(t)
          /\ \A u \in Task : u # t => at[u] \notin Committing
        BY <1>0, <1>5, <2>1 DEF SyncCall, InSync, FitCall, SigningIn, Requests
    <2>3. store' = loc[t].rec /\ Keep(t, [loc[t] EXCEPT !.rec = loc[t].rec, !.outcome = "saved"])
        BY <1>8, <2>2 DEF WriteStore
    <2> DEFINE l == [loc[t] EXCEPT !.rec = loc[t].rec, !.outcome = "saved"]
    <2>4. /\ Moves(t, "settle", job[t], l) /\ l.rec = loc[t].rec /\ l.why = loc[t].why
          /\ l.answer = loc[t].answer /\ l.cancelled = loc[t].cancelled /\ l.outcome = "saved"
        BY <1>0, <2>1, <2>3, Moved DEF Locals
    <2> HIDE DEF l
    <2>5. ASSUME NEW u \in Task PROVE SyncCall(at[u], loc[u], Mine(u))'
        <3>1. CASE u = t
            BY <1>0, <2>1, <2>3, <2>4, <3>1 DEF SyncCall, Moves, Mine, Changing, Committing
        <3>2. CASE u # t
            <4>1. at'[u] = at[u] /\ loc'[u] = loc[u] /\ at[u] \notin Committing
                BY <2>2, <2>4, <3>2 DEF Moves
            <4> QED
                BY <1>0, <2>1, <4>1 DEF SyncCall, Mine, Committing
        <3> QED
            BY <3>1, <3>2
    <2> QED
        BY <2>1, <2>4, <2>5 DEF SyncInv, Moves
<1>9. ASSUME NEW t \in Task, Settles(t) PROVE SyncInv'
    <2>1. \A c \in Client : session'[c] = store /\ base'[c] = store.pair /\ store' = store
        BY <1>9 DEF Settles
    <2>2. ASSUME NEW u \in Task PROVE SyncCall(at[u], loc[u], Mine(u))'
        <3>1. CASE u = t
            BY <1>9, <3>1 DEF SyncCall, Settles, Changing, Committing
        <3>2. CASE u # t
            <4>1. at'[u] = at[u] /\ loc'[u] = loc[u] /\ at[u] \notin Committing
                BY <1>9, <3>2, SoleAlone DEF Settles, OthersStay, Committing
            <4>2. at[u] = "decide" => loc[u].rec.pair = store.pair
                <5> SUFFICES ASSUME at[u] = "decide" PROVE loc[u].rec.pair = store.pair
                    OBVIOUS
                <5>1. ClientOf[u] = ClientOf[t]
                    BY <1>0 DEF SoleClient
                <5>2. InRefresh(u)
                    BY SoleRefreshes DEF InRefresh, Refreshing, Requests
                <5>3. loc[t].why = "account"
                    BY <1>0, <1>9, <3>2, <5>2, SoleAlone
                       DEF FitCall, InRefresh, Refreshing, Changing, Committing, Requests, Settles
                <5> QED
                    BY <1>0, <1>9, <5>1, <5>3 DEF SyncCall, Mine, Settles
            <4> QED
                BY <1>0, <2>1, <4>1, <4>2 DEF SyncCall, Mine, Committing
        <3> QED
            BY <3>1, <3>2
    <2> QED
        BY <2>1, <2>2 DEF SyncInv, InSync
<1>10. ASSUME Elapse \/ UNCHANGED vars PROVE SyncInv'
    <2>1. UNCHANGED <<store, session, base, at, loc>>
        BY <1>10 DEF Elapse, vars, clientVars, taskVars
    <2> QED
        BY <2>1 DEF SyncInv, SyncCall, InSync, Mine
<1> QED
    BY <1>1, <1>2, <1>3, <1>4, <1>6, <1>7, <1>8, <1>9, <1>10, LoneStep DEF Lone, Commits
\* What was spent, received and saved is noted.
LEMMA NotedStep ==
    ASSUME SoleClient, TypeInv, SoleInv, SyncInv, Noted, [Next]_vars, Untroubled'
    PROVE  Noted'
<1>1. ASSUME NEW t \in Task, Lone(t) PROVE Noted'
    <2>1. CASE Frees(t) \/ Looks(t) \/ Spends(t) \/ Fails(t) \/ Rotates(t) \/ Settles(t)
        BY <2>1 DEF Frees, Looks, Spends, Fails, Rotates, Settles, Goes, Noted
    <2>2. CASE Saves(t)
        BY <2>2 DEF Saves, Noted
    <2>3. CASE Answers(t)
        BY <2>3, AnswersMove DEF RefreshedAs, MintedAs, RotatedAs, Noted
    <2>4. CASE Commits(t)
        BY <2>4 DEF Commits, TakeChanging, StartCommit, WriteStore, Noted
    <2> QED
        BY <1>1, <2>1, <2>2, <2>3, <2>4 DEF Lone
<1>2. ASSUME Elapse \/ UNCHANGED vars PROVE Noted'
    BY <1>2 DEF Elapse, vars, Noted
<1> QED
    BY <1>1, <1>2, LoneStep
---------------------------------------------------------------------------------
(* Its account token *)

\* A step that issues no account token, and brings no call to one it did not know.
AcctSame(t) ==
    /\ OthersStay(t)
    /\ store'.acct = store.acct
    /\ \A c \in Client : session'[c].acct \in {session[c].acct, store.acct}
    /\ service'.accts = service.accts /\ service'.acctLive = service.acctLive
    /\ history'.accts = history.accts

LEMMA AcctMove ==
    ASSUME AcctInv, NEW t \in Task, AcctSame(t),
           at'[t] = "rotating" => loc'[t].acct \in {Mine(t).acct, store.acct},
           Pending(at'[t], loc'[t]) =>
               Pending(at[t], loc[t]) /\ at'[t] # "rotated" /\ loc'[t].answer = loc[t].answer,
           Saving(at[t], loc[t]) => Saving(at'[t], loc'[t])
    PROVE  AcctInv'
<1>0. \A u \in Task : ClientOf[u] \in Client
    BY TokenAssumption
<1>1. KnownAccts' = KnownAccts /\ store'.acct = store.acct
    BY DEF KnownAccts, AcctSame
<1>2. ASSUME NEW u \in Task PROVE AcctCall(at[u], loc[u])'
    <2>1. CASE u # t
        BY <1>1, <2>1 DEF AcctSame, OthersStay, AcctInv, AcctCall, Pending
    <2>2. CASE u = t
        BY <1>0, <1>1, <2>2 DEF AcctSame, AcctInv, AcctCall, Mine
    <2> QED
        BY <2>1, <2>2
<1>3. ASSUME NEW u \in Task, Pending(at'[u], loc'[u]) PROVE OnlyItsOwn(u)'
    <2>1. Pending(at[u], loc[u]) /\ (at'[u] = "rotated" => at[u] = "rotated")
        BY <1>3 DEF AcctSame, OthersStay
    <2>2. OnlyItsOwn(u)
        BY <2>1 DEF AcctInv
    <2>3. ASSUME NEW v \in Task PROVE /\ at'[v] = "rotating" => loc'[v].acct # service.accts
                                      /\ Pending(at'[v], loc'[v]) => v = u
        <3>1. CASE v # t
            BY <2>2, <3>1 DEF OnlyItsOwn, AcctSame, OthersStay
        <3>2. CASE v = t
            BY <1>0, <2>2, <3>2 DEF OnlyItsOwn, Mine
        <3> QED
            BY <3>1, <3>2
    <2>4. service'.accts = service.accts /\ \A c \in Client : session'[c].acct # service.accts
        BY <2>2 DEF OnlyItsOwn, AcctSame
    <2> QED
        BY <1>1, <2>1, <2>2, <2>3, <2>4 DEF OnlyItsOwn, AcctSame, Pending
<1>4. (\E u \in Task : Saving(at[u], loc[u])) => (\E u \in Task : Saving(at[u], loc[u]))'
    <2>1. ASSUME NEW u \in Task, Saving(at[u], loc[u]) PROVE Saving(at'[u], loc'[u])
        BY <2>1 DEF AcctSame, OthersStay
    <2> QED
        BY <2>1
<1>5. /\ service'.acctLive \subseteq {service'.accts}
      /\ store'.acct \in KnownAccts /\ \A c \in Client : session'[c].acct \in KnownAccts
      /\ history'.accts \subseteq KnownAccts
    BY <1>1 DEF AcctInv, AcctSame
<1> QED
    BY <1>1, <1>2, <1>3, <1>4, <1>5 DEF AcctInv, AcctSame, Pending

LEMMA AcctStep ==
    ASSUME SoleClient, TypeInv, LockInv, SoleInv, SyncInv, Noted, AcctInv, [Next]_vars, Untroubled'
    PROVE  AcctInv'
<1>0. \A t \in Task : /\ ClientOf[t] \in Client /\ loc[t] \in Locals
                      /\ FitCall(at[t], job[t], loc[t]) /\ SyncCall(at[t], loc[t], Mine(t))
    BY TokenAssumption DEF TypeInv, CallTypes, SoleInv, SoleCalls, SoleCall, SyncInv
<1>1. ASSUME NEW t \in Task, Goes(t), at'[t] = "rotating" => loc'[t].acct = Mine(t).acct PROVE AcctInv'
    <2>1. AcctSame(t)
        BY <1>1 DEF Goes, AcctSame, SameSession
    <2> QED
        BY <1>1, <2>1, AcctMove DEF Goes, Pending, Saving, Changing, Committing
<1>2. ASSUME NEW t \in Task, Frees(t) \/ Looks(t) \/ Spends(t) \/ Fails(t) \/ Rotates(t) PROVE AcctInv'
    BY <1>1, <1>2 DEF Frees, Looks, Spends, Fails, Rotates
<1>3. ASSUME NEW t \in Task, Saves(t) PROVE AcctInv'
    <2>1. loc'[t].answer = loc[t].answer
        BY <1>0, <1>3 DEF Saves, Locals
    <2>2. CASE loc'[t].why # "account"
        <3>1. history'.accts = history.accts
            BY <1>3, <2>2 DEF Saves, Noted
        <3>2. AcctSame(t)
            BY <1>3, <3>1 DEF Saves, AcctSame, SameSession
        <3> QED
            BY <1>3, <2>2, <3>2, AcctMove DEF Saves, Pending, Saving
    <2>3. CASE loc'[t].why = "account"
        <3>1. at[t] = "rotated" /\ history'.accts = history.accts \cup {service.accts} /\ Pending(at[t], loc[t])
            BY <1>3, <2>3 DEF Saves, AcctInv, AcctCall, Pending, Noted
        <3>2. OnlyItsOwn(t) /\ AcctCall(at[t], loc[t])
            BY <3>1 DEF AcctInv
        <3>3. ASSUME NEW u \in Task PROVE (AcctCall(at[u], loc[u]) /\ (Pending(at[u], loc[u]) => OnlyItsOwn(u)))'
            <4>1. CASE u # t
                BY <1>3, <3>2, <4>1 DEF Saves, OthersStay, OnlyItsOwn, AcctInv, AcctCall, Pending, KnownAccts
            <4>2. CASE u = t
                BY <1>3, <2>1, <3>1, <3>2, <4>2 DEF Saves, OthersStay, SameSession, OnlyItsOwn, AcctCall, Pending, KnownAccts
            <4> QED
                BY <4>1, <4>2
        <3>4. Saving(at'[t], loc'[t])
            BY <1>3, <2>1, <2>3, <3>1 DEF Saves, Saving, Pending
        <3>5. KnownAccts' = KnownAccts /\ service.accts \in KnownAccts
            BY <1>3 DEF Saves, KnownAccts, TypeInv, StoreTypes, Accts
        <3> QED
            BY <1>3, <3>1, <3>3, <3>4, <3>5 DEF Saves, SameSession, AcctInv
    <2> QED
        BY <2>2, <2>3
<1>4. ASSUME NEW t \in Task, Settles(t) PROVE AcctInv'
    <2>1. AcctSame(t)
        BY <1>4 DEF Settles, AcctSame
    <2> QED
        BY <1>4, <2>1, AcctMove DEF Settles, Pending, Saving
<1>5. ASSUME NEW t \in Task, TakeChanging(t) \/ StartCommit(t) PROVE AcctInv'
    <2>1. UNCHANGED <<store, session, service, history, job>>
        BY <1>5 DEF TakeChanging, StartCommit, clientVars
    <2>2. PICK l : /\ Moves(t, "start", job[t], l) \/ Moves(t, "write", job[t], l)
                   /\ l.why = loc[t].why /\ l.answer = loc[t].answer
                   /\ at[t] \in {"lock", "start"}
        <3>1. CASE TakeChanging(t)
            <4> DEFINE l == [loc[t] EXCEPT !.rec = Built(t, Mine(t))]
            <4>1. Moves(t, "start", job[t], l) /\ l.why = loc[t].why /\ l.answer = loc[t].answer /\ at[t] = "lock"
                BY <1>0, <2>1, <3>1, Moved DEF TakeChanging, Go, Locals
            <4> HIDE DEF l
            <4> QED
                BY <4>1
        <3>2. CASE StartCommit(t)
            <4> DEFINE l == [loc[t] EXCEPT !.expected = IF SigningIn(t) THEN NoBase ELSE base[ClientOf[t]]]
            <4>1. Moves(t, "write", job[t], l) /\ l.why = loc[t].why /\ l.answer = loc[t].answer /\ at[t] = "start"
                BY <1>0, <2>1, <3>2, Moved DEF StartCommit, Go, Locals
            <4> HIDE DEF l
            <4> QED
                BY <4>1
        <3> QED
            BY <1>5, <3>1, <3>2
    <2>3. AcctSame(t)
        BY <2>1, <2>2 DEF AcctSame, Moves, OthersStay
    <2> QED
        BY <2>2, <2>3, AcctMove DEF Moves, Pending, Saving
<1>6. ASSUME NEW t \in Task, WriteStore(t) PROVE AcctInv'
    <2>1. /\ at[t] = "write" /\ at' = [at EXCEPT ![t] = "settle"] /\ UNCHANGED <<session, base, job, service>>
          /\ history'.accts = history.accts
        BY <1>6 DEF WriteStore, Go, clientVars, Noted
    <2>2. InSync(Mine(t)) /\ loc[t].expected = store.pair /\ ~SigningIn(t)
        <3>1. \A u \in Task : at[u] # "settle"
            BY <2>1, SoleAlone DEF Committing
        <3> QED
            BY <1>0, <2>1, <3>1 DEF SyncInv, SyncCall, InSync, Mine, FitCall, SigningIn, Requests
    <2>3. store' = loc[t].rec /\ Keep(t, [loc[t] EXCEPT !.rec = loc[t].rec, !.outcome = "saved"])
        BY <1>6, <2>2 DEF WriteStore
    <2>4. OthersStay(t) /\ at'[t] = "settle"
        BY <2>1, <2>3, Moved DEF Moves, OthersStay
    <2>5. CASE loc[t].why # "account"
        <3>1. store'.acct = store.acct
            BY <1>0, <2>1, <2>2, <2>3, <2>5 DEF SyncCall, InSync
        <3>2. AcctSame(t)
            BY <2>1, <2>4, <3>1 DEF AcctSame
        <3> QED
            BY <2>4, <2>5, <3>2, AcctMove DEF Pending, Saving
    <2>6. CASE loc[t].why = "account"
        <3>1. Pending(at[t], loc[t])
            BY <2>1, <2>6 DEF Pending, TypeInv, CallTypes, WhyFits, Changing, Committing
        <3>2. store'.acct = service.accts /\ OnlyItsOwn(t)
            BY <1>0, <2>1, <2>3, <2>6, <3>1 DEF SyncCall, AcctInv, AcctCall
        <3>3. ASSUME NEW u \in Task PROVE ~Pending(at'[u], loc'[u])
            BY <2>4, <3>2 DEF OnlyItsOwn, OthersStay, Pending
        <3>4. ASSUME NEW u \in Task PROVE AcctCall(at'[u], loc'[u])
            BY <2>4, <3>3 DEF OthersStay, AcctInv, AcctCall, KnownAccts
        <3>5. KnownAccts' = KnownAccts /\ service.accts \in KnownAccts
            BY <2>1 DEF KnownAccts, TypeInv, StoreTypes, Accts
        <3>6. \A u \in Task : AcctCall(at[u], loc[u])' /\ ~Pending(at[u], loc[u])'
            BY <2>1, <3>3, <3>4, <3>5 DEF AcctCall, Pending
        <3> QED
            BY <2>1, <3>2, <3>5, <3>6 DEF AcctInv
    <2> QED
        BY <2>5, <2>6
<1>7. ASSUME NEW t \in Task, Answers(t) PROVE AcctInv'
    <2>1. /\ OthersStay(t) /\ UNCHANGED <<store, session, base>>
          /\ loc'[t] = [loc[t] EXCEPT !.answer = loc'[t].answer]
          /\ RefreshedAs(t) \/ MintedAs(t) \/ RotatedAs(t)
        BY <1>7, AnswersMove
    <2>2. service.accts \in Nat
        BY DEF TypeInv, StoreTypes, Accts
    <2>3. CASE service'.accts = service.accts /\ service'.acctLive = service.acctLive /\ history'.accts = history.accts
               /\ at[t] \in {"refreshing", "minting", "rotating"} /\ at'[t] \in {"refreshed", "minted", "rotated"}
               /\ (at'[t] = "rotated" => loc'[t].answer.kind # "acct")
        <3>1. AcctSame(t)
            BY <2>1, <2>3 DEF AcctSame
        <3> QED
            BY <2>3, <3>1, AcctMove DEF Pending, Saving
    <2>4. CASE RefreshedAs(t) \/ MintedAs(t)
        <3>1. service'.accts = service.accts /\ service'.acctLive = service.acctLive /\ history'.accts = history.accts
            BY <2>4 DEF RefreshedAs, MintedAs, Noted, TypeInv, StoreTypes
        <3> QED
            BY <2>3, <2>4, <3>1 DEF RefreshedAs, MintedAs
    <2>5. CASE /\ at[t] = "rotating" /\ at'[t] = "rotated" /\ UNCHANGED <<service, history>>
               /\ AnswerOf(t, "failed", 0) \/ AnswerOf(t, "refused", 0)
        BY <2>3, <2>5 DEF AnswerOf, Answered
    <2>6. CASE /\ at[t] = "rotating" /\ at'[t] = "rotated" /\ UNCHANGED history
               /\ loc[t].acct \in service.acctLive
               /\ service'.accts = service.accts + 1 /\ service'.acctLive = {service.accts + 1}
               /\ loc'[t].answer.kind = "acct" => loc'[t].answer.value = service.accts + 1
        <3> DEFINE n == service.accts + 1
        <3>1. \A u \in Task : ~Pending(at[u], loc[u])
            BY <2>6 DEF AcctInv, OnlyItsOwn
        <3>2. n \in KnownAccts' /\ KnownAccts \subseteq KnownAccts' /\ n \notin KnownAccts
            BY <2>2, <2>6 DEF KnownAccts
        <3>3. \A u \in Task : Pending(at'[u], loc'[u]) => u = t
            BY <2>1, <3>1 DEF OthersStay
        <3>4. ASSUME NEW u \in Task PROVE AcctCall(at[u], loc[u])' /\ (at'[u] = "rotating" => loc'[u].acct # n)
            BY <2>1, <2>6, <3>2, <3>3 DEF OthersStay, AcctInv, AcctCall, Pending
        <3>5. /\ store.acct # n /\ n \notin history.accts
              /\ \A c \in Client : session[c].acct # n
            BY <3>2 DEF AcctInv
        <3>6. ASSUME NEW u \in Task PROVE (Pending(at[u], loc[u]) => OnlyItsOwn(u))'
            <4> SUFFICES ASSUME Pending(at'[u], loc'[u]) PROVE OnlyItsOwn(u)'
                BY DEF Pending
            <4>1. u = t
                BY <3>3
            <4>2. \A v \in Task : Pending(at'[v], loc'[v]) => v = u
                BY <3>3, <4>1
            <4> QED
                BY <2>1, <2>6, <3>4, <3>5, <4>2 DEF OnlyItsOwn, Pending
        <3>7. service'.acctLive \subseteq {service'.accts} /\ service'.accts \notin history'.accts
            BY <2>6, <3>5
        <3> QED
            BY <2>1, <2>6, <3>2, <3>4, <3>6, <3>7 DEF AcctInv
    <2>7. CASE RotatedAs(t) /\ loc[t].acct \in service.acctLive
               /\ service' = [service EXCEPT !.accts = service.accts + 1,
                                             !.acctLive = (@ \ {loc[t].acct}) \cup {service.accts + 1}]
        <3>1. service.acctLive \ {loc[t].acct} = {}
            BY <2>7 DEF AcctInv
        <3>2. service'.accts = service.accts + 1 /\ service'.acctLive = {service.accts + 1}
            BY <2>7, <3>1 DEF TypeInv, StoreTypes
        <3>3. loc'[t].answer.kind = "acct" => loc'[t].answer.value = service.accts + 1
            BY <2>7 DEF RotatedAs, AnswerOf, Answered
        <3> QED
            BY <2>6, <2>7, <3>2, <3>3 DEF RotatedAs
    <2> QED
        BY <2>1, <2>4, <2>5, <2>7 DEF RotatedAs
<1>8. ASSUME Elapse \/ UNCHANGED vars PROVE AcctInv'
    <2>1. UNCHANGED <<store, session, at, loc, history>>
        BY <1>8 DEF Elapse, vars, clientVars, taskVars
    <2>2. service'.accts = service.accts /\ service'.acctLive \subseteq service.acctLive
        BY <1>8 DEF Elapse, vars, TypeInv, StoreTypes
    <2> QED
        BY <2>1, <2>2 DEF AcctInv, AcctCall, KnownAccts, Pending, Saving, OnlyItsOwn
<1> QED
    BY <1>2, <1>3, <1>4, <1>5, <1>6, <1>7, <1>8, LoneStep DEF Lone, Commits
---------------------------------------------------------------------------------
(* Its pairs *)

\* A call that has its turn builds, then saves what it built.
Builds(t) ==
    /\ at[t] = "lock" /\ at'[t] = "start"
    /\ loc'[t].rec = Built(t, Mine(t))
    /\ store' = store

Begins(t) ==
    /\ at[t] = "start" /\ at'[t] = "write"
    /\ loc'[t].rec = loc[t].rec
    /\ store' = store

Writes(t) ==
    /\ at[t] = "write" /\ at'[t] = "settle"
    /\ loc'[t].rec = loc[t].rec
    /\ store' = loc[t].rec
    /\ InSync(Mine(t))

\* What each step of a turn leaves alone.
LEMMA CommitsMove ==
    ASSUME SoleClient, TypeInv, LockInv, SoleInv, SyncInv, Noted, NEW t \in Task, Commits(t)
    PROVE  /\ OthersStay(t)
           /\ UNCHANGED <<session, service>>
           /\ history'.spent = history.spent /\ history'.received = history.received
           /\ loc'[t].why = loc[t].why /\ loc'[t].answer = loc[t].answer /\ loc'[t].after = loc[t].after
           /\ Builds(t) \/ Begins(t) \/ Writes(t)
<1>0. /\ ClientOf[t] \in Client /\ loc[t] \in Locals
      /\ FitCall(at[t], job[t], loc[t]) /\ SyncCall(at[t], loc[t], Mine(t))
    BY TokenAssumption DEF TypeInv, CallTypes, SoleInv, SoleCalls, SoleCall, SyncInv
<1>1. UNCHANGED <<session, base, service, job>>
    BY DEF Commits, TakeChanging, StartCommit, WriteStore, clientVars
<1>2. history'.spent = history.spent /\ history'.received = history.received
    BY DEF Commits, TakeChanging, StartCommit, WriteStore, Noted
<1>3. CASE TakeChanging(t)
    <2> DEFINE l == [loc[t] EXCEPT !.rec = Built(t, Mine(t))]
    <2>1. /\ Moves(t, "start", job[t], l) /\ l.rec = Built(t, Mine(t)) /\ at[t] = "lock" /\ store' = store
          /\ l.why = loc[t].why /\ l.answer = loc[t].answer /\ l.after = loc[t].after
        BY <1>0, <1>1, <1>3, Moved DEF TakeChanging, Go, Locals
    <2> HIDE DEF l
    <2> QED
        BY <1>1, <1>2, <2>1 DEF Moves, OthersStay, Builds
<1>4. CASE StartCommit(t)
    <2> DEFINE l == [loc[t] EXCEPT !.expected = IF SigningIn(t) THEN NoBase ELSE base[ClientOf[t]]]
    <2>1. /\ Moves(t, "write", job[t], l) /\ l.rec = loc[t].rec /\ at[t] = "start" /\ store' = store
          /\ l.why = loc[t].why /\ l.answer = loc[t].answer /\ l.after = loc[t].after
        BY <1>0, <1>1, <1>4, Moved DEF StartCommit, Go, Locals
    <2> HIDE DEF l
    <2> QED
        BY <1>1, <1>2, <2>1 DEF Moves, OthersStay, Begins
<1>5. CASE WriteStore(t)
    <2>1. at[t] = "write" /\ at' = [at EXCEPT ![t] = "settle"]
        BY <1>5 DEF WriteStore, Go
    <2>2. InSync(Mine(t)) /\ loc[t].expected = store.pair /\ ~SigningIn(t)
        <3>1. \A u \in Task : at[u] # "settle"
            BY <2>1, SoleAlone DEF Committing
        <3> QED
            BY <1>0, <2>1, <3>1 DEF SyncInv, SyncCall, InSync, Mine, FitCall, SigningIn, Requests
    <2>3. store' = loc[t].rec /\ Keep(t, [loc[t] EXCEPT !.rec = loc[t].rec, !.outcome = "saved"])
        BY <1>5, <2>2 DEF WriteStore
    <2> DEFINE l == [loc[t] EXCEPT !.rec = loc[t].rec, !.outcome = "saved"]
    <2>4. /\ Moves(t, "settle", job[t], l) /\ l.rec = loc[t].rec
          /\ l.why = loc[t].why /\ l.answer = loc[t].answer /\ l.after = loc[t].after
        BY <1>0, <1>1, <2>1, <2>3, Moved DEF Locals
    <2> HIDE DEF l
    <2> QED
        BY <1>1, <1>2, <2>1, <2>2, <2>3, <2>4 DEF Moves, OthersStay, Writes
<1> QED
    BY <1>3, <1>4, <1>5 DEF Commits

\* A call whose pair has failed is in a refresh, and there is one of those.
LEMMA FailedRefreshes ==
    ASSUME SoleInv, NEW t \in Task, Failed(at[t], loc[t]) \/ at[t] = "refreshing"
    PROVE  InRefresh(t)
<1>1. FitCall(at[t], job[t], loc[t])
    BY DEF SoleInv, SoleCalls, SoleCall
<1> QED
    BY <1>1, SoleRefreshes DEF Failed, FitCall, InRefresh, Refreshing, Changing, Committing, Requests

\* A step that issues no pair, keeps those saved and held, and takes no call further on its way
\* than it was.
PairSame(t) ==
    /\ OthersStay(t)
    /\ store'.pair = store.pair
    /\ \A c \in Client : session'[c].pair = session[c].pair
    /\ service'.pairs = service.pairs /\ service'.live = service.live
    /\ service'.outdated = service.outdated /\ service'.lapsed = service.lapsed

LEMMA PairMove ==
    ASSUME PairInv, NEW t \in Task, PairSame(t), PairCall(at'[t], loc'[t], Mine(t)),
           \A p \in KnownPairs : Coming(at[t], loc[t], p) => Coming(at'[t], loc'[t], p),
           \A r \in history'.received :
               r \in history.received \/ (r[1] \in KnownPairs /\ Coming(at'[t], loc'[t], r[1]))
    PROVE  PairInv'
<1>0. \A u \in Task : ClientOf[u] \in Client
    BY TokenAssumption
<1>1. KnownPairs' = KnownPairs /\ Held' = Held /\ service'.live = service.live
    BY DEF KnownPairs, Held, PairSame
<1>2. ASSUME NEW u \in Task PROVE PairCall(at[u], loc[u], Mine(u))'
    <2>1. PairCall(at'[u], loc'[u], Mine(u))
        <3>1. CASE u # t
            BY <3>1 DEF PairSame, OthersStay, PairInv
        <3> QED
            BY <3>1
    <2>2. Mine(u)'.pair = Mine(u).pair
        BY <1>0 DEF PairSame, Mine
    <2> QED
        BY <1>1, <2>1, <2>2 DEF PairCall, Failed
<1>3. ASSUME NEW r \in history'.received
      PROVE  /\ r[1] \in KnownPairs
             /\ \/ r[1] \notin service.live
                \/ store.pair = r[1]
                \/ \E u \in Task : Coming(at'[u], loc'[u], r[1])
    <2>1. CASE r \in history.received
        <3>1. /\ r[1] \in KnownPairs
              /\ \/ r[1] \notin service.live
                 \/ store.pair = r[1]
                 \/ \E u \in Task : Coming(at[u], loc[u], r[1])
            BY <2>1 DEF PairInv
        <3>2. ASSUME NEW u \in Task, Coming(at[u], loc[u], r[1]) PROVE Coming(at'[u], loc'[u], r[1])
            BY <3>1, <3>2 DEF PairSame, OthersStay
        <3> QED
            BY <3>1, <3>2
    <2> QED
        BY <1>3, <2>1
<1>4. \A p : (\E u \in Task : Coming(at'[u], loc'[u], p)) <=> (\E u \in Task : Coming(at[u], loc[u], p))'
    BY DEF Coming
<1>5. /\ service'.live \subseteq KnownPairs /\ service'.outdated \subseteq KnownPairs \ service'.live
      /\ service'.lapsed \subseteq KnownPairs
      /\ store'.pair \in Held /\ \A c \in Client : session'[c].pair \in Held
    BY DEF PairInv, PairSame
<1>6. \A r \in history'.received :
          /\ r[1] \in KnownPairs'
          /\ \/ r[1] \notin service'.live
             \/ store'.pair = r[1]
             \/ (\E u \in Task : Coming(at[u], loc[u], r[1]))'
    BY <1>1, <1>3, <1>4 DEF PairSame
<1> QED
    BY <1>1, <1>2, <1>5, <1>6 DEF PairInv

LEMMA PairStep ==
    ASSUME SoleClient, TypeInv, LockInv, SoleInv, SyncInv, Noted, PairInv, [Next]_vars, Untroubled'
    PROVE  PairInv'
<1>0. \A t \in Task : /\ ClientOf[t] \in Client /\ loc[t] \in Locals
                      /\ FitCall(at[t], job[t], loc[t]) /\ SyncCall(at[t], loc[t], Mine(t))
                      /\ PairCall(at[t], loc[t], Mine(t)) /\ Mine(t).pair \in Held
    BY TokenAssumption DEF TypeInv, CallTypes, SoleInv, SoleCalls, SoleCall, SyncInv, PairInv, Mine
<1>1. ASSUME NEW t \in Task, Goes(t), Failed(at'[t], loc'[t]) => Mine(t).pair \notin service.live,
             at'[t] = "refreshing" => loc'[t].spend = Mine(t).pair, at'[t] \notin {"start", "write"}
      PROVE  PairInv'
    <2>1. PairSame(t) /\ history'.received = history.received
        BY <1>1 DEF Goes, PairSame, SameSession
    <2>2. PairCall(at'[t], loc'[t], Mine(t))
        BY <1>1 DEF Goes, PairCall
    <2>3. \A p \in KnownPairs : ~Coming(at[t], loc[t], p)
        BY <1>1 DEF Goes, Coming, Changing, Committing
    <2> QED
        BY <2>1, <2>2, <2>3, PairMove
<1>2. ASSUME NEW t \in Task, Frees(t) \/ Looks(t) \/ Spends(t) \/ Rotates(t) PROVE PairInv'
    <2>1. ~Failed(at'[t], loc'[t]) /\ at'[t] \notin {"start", "write"}
        BY <1>2 DEF Frees, Looks, Spends, Rotates, Failed, Changing, Committing
    <2> QED
        BY <1>1, <1>2, <2>1 DEF Frees, Looks, Spends, Rotates
<1>3. ASSUME NEW t \in Task, Fails(t) PROVE PairInv'
    <2>1. Mine(t).pair \notin service.live
        <3>1. CASE at[t] = "decide" /\ ~RefreshValid(Mine(t))
            BY <1>0, <3>1 DEF RefreshValid, PairInv, KnownPairs, None
        <3>2. CASE Failed(at[t], loc[t])
            BY <1>0, <3>2 DEF PairCall
        <3> QED
            BY <1>3, <3>1, <3>2 DEF Fails, Failed
    <2> QED
        BY <1>1, <1>3, <2>1 DEF Fails
<1>4. ASSUME NEW t \in Task, Saves(t) PROVE PairInv'
    <2>1. /\ loc'[t].answer = loc[t].answer /\ loc'[t].after = loc[t].after
          /\ loc'[t].rec = loc[t].rec /\ loc'[t].spend = loc[t].spend
        BY <1>0, <1>4 DEF Saves, Locals
    <2>2. PairSame(t)
        BY <1>4 DEF Saves, PairSame, SameSession
    <2>3. Failed(at'[t], loc'[t]) => Failed(at[t], loc[t])
        BY <1>4, <2>1 DEF Saves, Failed
    <2>4. PairCall(at'[t], loc'[t], Mine(t)) /\ \A p \in KnownPairs : ~Coming(at[t], loc[t], p)
        BY <1>0, <1>4, <2>1, <2>3 DEF Saves, PairCall, Coming
    <2>5. ASSUME NEW r \in history'.received
          PROVE  r \in history.received \/ (r[1] \in KnownPairs /\ Coming(at'[t], loc'[t], r[1]))
        <3>1. CASE history'.received = history.received
            BY <2>5, <3>1
        <3>2. CASE /\ at[t] = "refreshed" /\ loc[t].answer.kind = "pair"
                   /\ history' = [history EXCEPT !.received = @ \cup {<<loc[t].answer.value, loc[t].root>>}]
            <4>1. history'.received = history.received \cup {<<loc[t].answer.value, loc[t].root>>}
                BY <3>2 DEF Noted
            <4>2. loc[t].answer = Answered("pair", loc[t].answer.value)
                BY <1>0, <3>2 DEF Locals, Answer, Answered
            <4>3. Coming(at'[t], loc'[t], loc[t].answer.value) /\ loc[t].answer.value \in KnownPairs
                BY <1>0, <1>4, <2>1, <3>2, <4>2 DEF Saves, Coming, PairCall
            <4> QED
                BY <2>5, <4>1, <4>3
        <3> QED
            BY <1>4, <3>1, <3>2 DEF Saves, Noted
    <2> QED
        BY <2>2, <2>4, <2>5, PairMove
<1>5. ASSUME NEW t \in Task, Settles(t) PROVE PairInv'
    <2>1. /\ \A c \in Client : session'[c].pair = store.pair
          /\ UNCHANGED <<store, service, history>> /\ OthersStay(t)
        BY <1>5 DEF Settles
    <2>2. CASE loc[t].why = "account"
        <3>1. store.pair = Mine(t).pair
            BY <1>0, <1>5, <2>2 DEF Settles, SyncCall
        <3>2. \A c \in Client : session'[c].pair = session[c].pair
            BY <1>0, <2>1, <3>1 DEF SoleClient, Mine
        <3>3. PairSame(t)
            BY <2>1, <3>2 DEF PairSame
        <3>4. Failed(at'[t], loc'[t]) => Failed(at[t], loc[t])
            BY <1>5 DEF Settles, Failed, Changing, Committing
        <3>5. PairCall(at'[t], loc'[t], Mine(t))
            BY <1>0, <1>5, <3>4 DEF Settles, PairCall
        <3>6. \A p \in KnownPairs : ~Coming(at[t], loc[t], p)
            BY <1>5 DEF Settles, Coming
        <3> QED
            BY <2>1, <3>3, <3>5, <3>6, PairMove
    <2>3. CASE loc[t].why # "account"
        <3>1. InRefresh(t)
            BY <1>0, <1>5, <2>3 DEF Settles, FitCall, InRefresh, Refreshing, Changing, Committing, Requests
        <3>2. ASSUME NEW u \in Task PROVE ~Failed(at'[u], loc'[u]) /\ at'[u] # "refreshing"
            <4>1. CASE u = t
                BY <1>5, <2>3, <4>1 DEF Settles, Failed, Changing, Committing
            <4>2. CASE u # t
                <5>1. ~InRefresh(u)
                    BY <3>1, <4>2, SoleAlone
                <5> QED
                    BY <2>1, <4>2, <5>1, FailedRefreshes DEF OthersStay
            <4> QED
                BY <4>1, <4>2
        <3>3. ASSUME NEW u \in Task PROVE PairCall(at[u], loc[u], Mine(u))'
            <4>1. /\ loc'[u].answer.kind = "pair" => loc'[u].answer.value \in KnownPairs
                  /\ at'[u] \in {"start", "write"} => loc'[u].rec.pair \in Held
                <5>1. CASE u = t
                    BY <1>5, <5>1 DEF Settles
                <5>2. CASE u # t
                    BY <1>0, <2>1, <5>2 DEF OthersStay, PairCall
                <5> QED
                    BY <5>1, <5>2
            <4> QED
                BY <2>1, <3>2, <4>1 DEF PairCall, Failed, KnownPairs, Held
        <3>4. ASSUME NEW p PROVE (\E u \in Task : Coming(at[u], loc[u], p)) => (\E u \in Task : Coming(at[u], loc[u], p))'
            <4>1. ASSUME NEW u \in Task, Coming(at[u], loc[u], p) PROVE Coming(at'[u], loc'[u], p)
                <5>1. u # t
                    BY <1>5, <4>1 DEF Settles, Coming
                <5> QED
                    BY <2>1, <4>1, <5>1 DEF OthersStay
            <4> QED
                BY <4>1 DEF Coming
        <3> QED
            BY <2>1, <3>3, <3>4 DEF PairInv, KnownPairs, Held
    <2> QED
        BY <2>2, <2>3
<1>6. ASSUME NEW t \in Task, Commits(t) PROVE PairInv'
    <2>1. /\ OthersStay(t)
          /\ UNCHANGED <<session, service>>
          /\ history'.received = history.received
          /\ loc'[t].why = loc[t].why /\ loc'[t].answer = loc[t].answer /\ loc'[t].after = loc[t].after
          /\ Builds(t) \/ Begins(t) \/ Writes(t)
        BY <1>6, CommitsMove
    <2>2. Failed(at'[t], loc'[t]) => Failed(at[t], loc[t])
        BY <2>1 DEF Builds, Begins, Writes, Failed, Changing, Committing
    <2>3. ASSUME at'[t] \in {"start", "write"} => loc'[t].rec.pair \in Held
          PROVE  PairCall(at'[t], loc'[t], Mine(t))
        BY <1>0, <2>1, <2>2, <2>3 DEF Builds, Begins, Writes, PairCall
    <2>4. CASE Builds(t)
        <3>1. loc[t].why \in {"refresh", "mint"} => loc[t].answer.kind = "pair"
            BY <2>4 DEF Builds, TypeInv, CallTypes, WhyFits, Changing, Committing
        <3>2. Mine(t) \in Session
            BY <1>0 DEF Mine, TypeInv, StoreTypes
        <3>3. loc'[t].rec.pair = (IF loc[t].why \in {"refresh", "mint"} THEN loc[t].answer.value
                                  ELSE IF loc[t].why = "account" THEN Mine(t).pair ELSE None)
            BY <2>4, <3>2 DEF Builds, Built, Session
        <3>4. loc'[t].rec.pair \in Held
            BY <1>0, <3>1, <3>3 DEF PairCall, Held
        <3>5. ASSUME NEW p \in KnownPairs, Coming(at[t], loc[t], p) PROVE Coming(at'[t], loc'[t], p)
            <4>1. loc[t].answer.kind = "pair" /\ loc[t].answer.value = p
                BY <2>4, <3>5 DEF Builds, Coming, Answered
            <4>2. loc[t].why \in {"refresh", "mint"}
                BY <1>0, <2>4, <4>1 DEF Builds, SyncCall, FitCall, Changing, Committing, Locals,
                                        TypeInv, CallTypes, WhyFits
            <4> QED
                BY <2>4, <3>3, <4>1, <4>2 DEF Builds, Coming
        <3>6. PairSame(t)
            BY <2>1, <2>4 DEF Builds, PairSame
        <3> QED
            BY <2>1, <2>3, <3>4, <3>5, <3>6, PairMove
    <2>5. CASE Begins(t)
        <3>1. loc'[t].rec.pair \in Held /\ PairSame(t)
            BY <1>0, <2>1, <2>5 DEF Begins, PairCall, PairSame
        <3>2. \A p \in KnownPairs : Coming(at[t], loc[t], p) => Coming(at'[t], loc'[t], p)
            BY <2>5 DEF Begins, Coming
        <3> QED
            BY <2>1, <2>3, <3>1, <3>2, PairMove
    <2>6. CASE Writes(t)
        <3>1. PairCall(at'[t], loc'[t], Mine(t)) /\ store'.pair = loc[t].rec.pair /\ store'.pair \in Held
            BY <1>0, <2>3, <2>6 DEF Writes, PairCall
        <3>2. ASSUME NEW u \in Task PROVE PairCall(at[u], loc[u], Mine(u))'
            <4>1. PairCall(at'[u], loc'[u], Mine(u))
                <5>1. CASE u = t
                    BY <3>1, <5>1
                <5>2. CASE u # t
                    BY <1>0, <2>1, <5>2 DEF OthersStay
                <5> QED
                    BY <5>1, <5>2
            <4> QED
                BY <2>1, <4>1 DEF PairCall, Failed, Mine, KnownPairs, Held
        <3>3. ASSUME NEW r \in history.received
              PROVE  /\ r[1] \in KnownPairs
                     /\ \/ r[1] \notin service.live
                        \/ store'.pair = r[1]
                        \/ \E u \in Task : Coming(at'[u], loc'[u], r[1])
            <4>1. /\ r[1] \in KnownPairs
                  /\ \/ r[1] \notin service.live
                     \/ store.pair = r[1]
                     \/ \E u \in Task : Coming(at[u], loc[u], r[1])
                BY <3>3 DEF PairInv
            <4>2. CASE store.pair = r[1]
                <5>1. store.pair = Mine(t).pair
                    BY <2>6 DEF Writes, InSync
                <5>2. CASE loc[t].why = "account"
                    BY <1>0, <2>6, <3>1, <4>1, <4>2, <5>1, <5>2 DEF Writes, SyncCall
                <5>3. CASE loc[t].why # "account"
                    <6>1. Failed(at[t], loc[t])
                        BY <2>6, <5>3 DEF Writes, Failed, Changing, Committing
                    <6> QED
                        BY <1>0, <4>1, <4>2, <5>1, <6>1 DEF PairCall
                <5> QED
                    BY <5>2, <5>3
            <4>3. ASSUME NEW u \in Task, Coming(at[u], loc[u], r[1])
                  PROVE  store'.pair = r[1] \/ Coming(at'[u], loc'[u], r[1])
                <5>1. CASE u = t
                    BY <2>6, <3>1, <4>3, <5>1 DEF Writes, Coming
                <5>2. CASE u # t
                    BY <2>1, <4>3, <5>2 DEF OthersStay
                <5> QED
                    BY <5>1, <5>2
            <4> QED
                BY <4>1, <4>2, <4>3
        <3>4. KnownPairs' = KnownPairs /\ Held' = Held
            BY <2>1 DEF KnownPairs, Held
        <3>5. \A p : (\E u \in Task : Coming(at'[u], loc'[u], p)) <=> (\E u \in Task : Coming(at[u], loc[u], p))'
            BY DEF Coming
        <3>6. \A r \in history'.received :
                  /\ r[1] \in KnownPairs'
                  /\ \/ r[1] \notin service'.live
                     \/ store'.pair = r[1]
                     \/ (\E u \in Task : Coming(at[u], loc[u], r[1]))'
            BY <2>1, <3>3, <3>4, <3>5
        <3>7. /\ service'.live \subseteq KnownPairs' /\ service'.outdated \subseteq KnownPairs' \ service'.live
              /\ service'.lapsed \subseteq KnownPairs'
              /\ store'.pair \in Held' /\ \A c \in Client : session'[c].pair \in Held'
            BY <2>1, <3>1, <3>4 DEF PairInv
        <3> QED
            BY <3>2, <3>6, <3>7 DEF PairInv
    <2> QED
        BY <2>1, <2>4, <2>5, <2>6
<1>7. ASSUME NEW t \in Task, Answers(t) PROVE PairInv'
    <2>1. /\ OthersStay(t) /\ UNCHANGED <<store, session, base>>
          /\ loc'[t] = [loc[t] EXCEPT !.answer = loc'[t].answer]
          /\ RefreshedAs(t) \/ MintedAs(t) \/ RotatedAs(t)
        BY <1>7, AnswersMove
    <2>2. loc'[t].spend = loc[t].spend /\ loc'[t].after = loc[t].after
        BY <1>0, <2>1 DEF Locals
    <2>3. \A p \in KnownPairs : ~Coming(at[t], loc[t], p)
        BY <2>1 DEF Coming, RefreshedAs, MintedAs, RotatedAs
\* No pair is issued.
    <2>4. CASE /\ service'.pairs = service.pairs /\ service'.live = service.live
               /\ service'.outdated = service.outdated /\ service'.lapsed = service.lapsed
               /\ history'.received = history.received
               /\ at'[t] \in {"refreshed", "minted", "rotated"} /\ loc'[t].answer.kind # "pair"
               /\ Failed(at'[t], loc'[t]) => Mine(t).pair \notin service.live
        <3>1. PairSame(t)
            BY <2>1, <2>4 DEF PairSame
        <3>2. PairCall(at'[t], loc'[t], Mine(t))
            BY <2>4 DEF PairCall
        <3> QED
            BY <2>3, <2>4, <3>1, <3>2, PairMove
\* A pair is issued; the one it replaces, if any, is not accepted any more.
    <2> DEFINE n == service.pairs + 1
    <2>5. CASE /\ service'.pairs = n /\ n \in service'.live /\ service'.live \subseteq service.live \cup {n}
               /\ service'.outdated = service.outdated /\ service'.lapsed = service.lapsed
               /\ history'.received = history.received
               /\ at'[t] \in {"refreshed", "minted"}
               /\ loc'[t].answer.kind = "pair" => loc'[t].answer.value = n
               /\ Failed(at'[t], loc'[t]) => Mine(t).pair \notin service'.live
               /\ InRefresh(t)
        <3>1. KnownPairs \subseteq KnownPairs' /\ n \in KnownPairs' /\ n \notin Held /\ Held \subseteq Held'
            BY <2>5 DEF KnownPairs, Held, None, TypeInv, StoreTypes, Pairs
        <3>2. ASSUME NEW u \in Task PROVE PairCall(at[u], loc[u], Mine(u))'
            <4>1. CASE u = t
                BY <2>1, <2>5, <3>1, <4>1 DEF PairCall, Failed, Mine
            <4>2. CASE u # t
                <5>1. ~Failed(at[u], loc[u]) /\ at[u] # "refreshing"
                    BY <2>5, <4>2, FailedRefreshes, SoleAlone
                <5> QED
                    BY <1>0, <2>1, <3>1, <4>2, <5>1 DEF OthersStay, PairCall, Failed
            <4> QED
                BY <4>1, <4>2
        <3>3. ASSUME NEW p PROVE (\E u \in Task : Coming(at[u], loc[u], p)) => (\E u \in Task : Coming(at[u], loc[u], p))'
            <4>1. ASSUME NEW u \in Task, Coming(at[u], loc[u], p) PROVE Coming(at'[u], loc'[u], p)
                <5>1. u # t
                    BY <2>1, <4>1 DEF Coming, RefreshedAs, MintedAs, RotatedAs
                <5> QED
                    BY <2>1, <4>1, <5>1 DEF OthersStay
            <4> QED
                BY <4>1 DEF Coming
        <3>4. ASSUME NEW r \in history.received
              PROVE  /\ r[1] \in KnownPairs'
                     /\ \/ r[1] \notin service'.live
                        \/ store'.pair = r[1]
                        \/ (\E u \in Task : Coming(at[u], loc[u], r[1]))'
            <4>1. /\ r[1] \in KnownPairs
                  /\ \/ r[1] \notin service.live
                     \/ store.pair = r[1]
                     \/ \E u \in Task : Coming(at[u], loc[u], r[1])
                BY <3>4 DEF PairInv
            <4> QED
                BY <2>1, <2>5, <3>1, <3>3, <4>1 DEF Held
        <3>5. /\ service'.live \subseteq KnownPairs' /\ service'.outdated \subseteq KnownPairs' \ service'.live
              /\ service'.lapsed \subseteq KnownPairs'
              /\ store'.pair \in Held' /\ \A c \in Client : session'[c].pair \in Held'
            BY <2>1, <2>5, <3>1 DEF PairInv, Held
        <3> QED
            BY <2>5, <3>2, <3>4, <3>5 DEF PairInv
    <2>6. CASE RefreshedAs(t)
        <3>1. at[t] = "refreshing" /\ at'[t] = "refreshed" /\ loc[t].spend = Mine(t).pair /\ InRefresh(t)
            BY <1>0, <2>6, FailedRefreshes DEF RefreshedAs, PairCall
        <3>2. CASE /\ loc[t].spend \in service.live
                   /\ AnswerOf(t, "pair", n) \/ AnswerOf(t, "failed", 0)
                   /\ service' = [service EXCEPT !.pairs = n, !.live = (@ \ {loc[t].spend}) \cup {n}]
                   /\ history' = [history EXCEPT !.spent = @ \cup {loc[t].spend}]
            <4>1. /\ service'.pairs = n /\ service'.live = (service.live \ {loc[t].spend}) \cup {n}
                  /\ service'.outdated = service.outdated /\ service'.lapsed = service.lapsed
                  /\ history'.received = history.received
                BY <3>2 DEF TypeInv, StoreTypes, Noted
            <4>2. Mine(t).pair # n
                BY <1>0 DEF Held, KnownPairs, None, TypeInv, StoreTypes, Pairs
            <4>3. loc'[t].answer.kind = "pair" => loc'[t].answer.value = n
                BY <3>2 DEF AnswerOf, Answered
            <4> QED
                BY <2>5, <3>1, <4>1, <4>2, <4>3
        <3>3. CASE /\ AnswerOf(t, "failed", 0) \/ (AnswerOf(t, "spent", 0) /\ loc[t].spend \notin service.live)
                   /\ UNCHANGED <<service, history>>
            <4>1. /\ loc'[t].answer.kind # "pair"
                  /\ loc'[t].answer.kind = "spent" => loc[t].spend \notin service.live
                BY <3>3 DEF AnswerOf, Answered
            <4>2. Failed(at'[t], loc'[t]) => loc'[t].answer.kind \in {"pair", "spent"}
                BY <3>1 DEF Failed, Changing, Committing
            <4> QED
                BY <2>4, <3>1, <3>3, <4>1, <4>2
        <3> QED
            BY <2>6, <3>2, <3>3 DEF RefreshedAs
    <2>7. CASE MintedAs(t)
        <3>1. at[t] = "minting" /\ at'[t] = "minted" /\ Failed(at[t], loc[t]) /\ InRefresh(t) /\ UNCHANGED history
            BY <2>7, FailedRefreshes DEF MintedAs, Failed
        <3>2. Mine(t).pair \notin service.live
            BY <1>0, <3>1 DEF PairCall
        <3>3. CASE /\ AnswerOf(t, "pair", n) \/ AnswerOf(t, "failed", 0)
                   /\ service' = [service EXCEPT !.pairs = n, !.live = @ \cup {n}]
            <4>1. /\ service'.pairs = n /\ service'.live = service.live \cup {n}
                  /\ service'.outdated = service.outdated /\ service'.lapsed = service.lapsed
                BY <3>3 DEF TypeInv, StoreTypes
            <4>2. Mine(t).pair # n
                BY <1>0 DEF Held, KnownPairs, None, TypeInv, StoreTypes, Pairs
            <4>3. loc'[t].answer.kind = "pair" => loc'[t].answer.value = n
                BY <3>3 DEF AnswerOf, Answered
            <4> QED
                BY <2>5, <3>1, <3>2, <4>1, <4>2, <4>3
        <3>4. CASE (AnswerOf(t, "failed", 0) \/ AnswerOf(t, "refused", 0)) /\ UNCHANGED service
            BY <2>4, <3>1, <3>2, <3>4 DEF AnswerOf, Answered
        <3> QED
            BY <2>7, <3>3, <3>4 DEF MintedAs
    <2>8. CASE RotatedAs(t)
        <3>1. at[t] = "rotating" /\ at'[t] = "rotated" /\ UNCHANGED history
            BY <2>8 DEF RotatedAs
        <3>2. /\ service'.pairs = service.pairs /\ service'.live = service.live
              /\ service'.outdated = service.outdated /\ service'.lapsed = service.lapsed
            BY <2>8 DEF RotatedAs, TypeInv, StoreTypes
        <3>3. loc'[t].answer.kind # "pair"
            BY <2>8 DEF RotatedAs, AnswerOf, Answered
        <3>4. Failed(at'[t], loc'[t]) => Failed(at[t], loc[t])
            BY <2>2, <3>1 DEF Failed, Changing, Committing
        <3> QED
            BY <1>0, <2>4, <3>1, <3>2, <3>3, <3>4 DEF PairCall
    <2> QED
        BY <2>1, <2>6, <2>7, <2>8
<1>8. ASSUME Elapse \/ UNCHANGED vars PROVE PairInv'
    <2>1. UNCHANGED <<store, session, at, loc, history>>
        BY <1>8 DEF Elapse, vars, clientVars, taskVars
    <2> DEFINE AfterElapse ==
                   /\ service'.pairs = service.pairs /\ service'.live \subseteq service.live
                   /\ service'.outdated \subseteq KnownPairs \ service'.live
                   /\ service'.lapsed \subseteq KnownPairs
    <2>2. AfterElapse
        <3>1. /\ service.live \subseteq KnownPairs /\ service.outdated \subseteq KnownPairs \ service.live
              /\ service.lapsed \subseteq KnownPairs
            BY DEF PairInv
        <3>2. CASE UNCHANGED vars
            BY <3>1, <3>2 DEF vars
        <3>3. ASSUME NEW p \in Lapsing \cap (1..service.pairs), service' = [service EXCEPT !.lapsed = @ \cup {p}]
              PROVE  AfterElapse
            BY <3>1, <3>3 DEF KnownPairs, TypeInv, StoreTypes
        <3>4. ASSUME NEW p \in Outdating \cap service.lapsed,
                     service' = [service EXCEPT !.outdated = @ \cup {p}, !.live = @ \ {p}]
              PROVE  AfterElapse
            BY <3>1, <3>4 DEF TypeInv, StoreTypes
        <3> QED
            BY <1>8, <3>1, <3>2, <3>3, <3>4 DEF Elapse, TypeInv, StoreTypes
    <2>3. KnownPairs' = KnownPairs /\ Held' = Held
        BY <2>2 DEF KnownPairs, Held
    <2>4. \A u \in Task : PairCall(at[u], loc[u], Mine(u))'
        BY <1>0, <2>1, <2>2, <2>3 DEF PairCall, Failed, Mine
    <2> QED
        BY <2>1, <2>2, <2>3, <2>4 DEF PairInv, Coming
<1> QED
    BY <1>2, <1>3, <1>4, <1>5, <1>6, <1>7, <1>8, LoneStep DEF Lone
---------------------------------------------------------------------------------
(* The tokens it has spent *)

LEMMA RenewingRefreshes ==
    ASSUME SoleInv, NEW t \in Task, Renewing(at[t], loc[t])
    PROVE  InRefresh(t)
BY SoleRefreshes, FailedRefreshes DEF Renewing, Failed, InRefresh, Refreshing, Requests, Changing, Committing

\* A step that spends no token and gives no client a pair it did not hold.
SpentSame(t) ==
    /\ OthersStay(t)
    /\ \A c \in Client : session'[c].pair = session[c].pair
    /\ service'.pairs = service.pairs
    /\ history'.spent = history.spent

LEMMA SpentMove ==
    ASSUME SpentInv, NEW t \in Task, SpentSame(t), SpentCall(at'[t], loc'[t]),
           Rotated(at[t], loc[t]) => Rotated(at'[t], loc'[t])
    PROVE  SpentInv'
<1>1. ASSUME NEW u \in Task PROVE SpentCall(at[u], loc[u])'
    <2>1. SpentCall(at'[u], loc'[u])
        BY DEF SpentSame, OthersStay, SpentInv
    <2> QED
        BY <2>1 DEF SpentSame, SpentCall, Renewing
<1>2. ASSUME NEW u \in Task, Rotated(at[u], loc[u]) PROVE Rotated(at'[u], loc'[u])
    BY <1>2 DEF SpentSame, OthersStay
<1>3. (\E u \in Task : Rotated(at[u], loc[u])) => (\E u \in Task : Rotated(at[u], loc[u]))'
    BY <1>2 DEF Rotated
<1>4. history'.spent \subseteq KnownPairs'
    BY DEF SpentInv, SpentSame, KnownPairs
<1> QED
    BY <1>1, <1>3, <1>4 DEF SpentInv, SpentSame

LEMMA SpentStep ==
    ASSUME SoleClient, TypeInv, LockInv, SoleInv, SyncInv, Noted, PairInv, SpentInv, [Next]_vars,
           Untroubled', budget'.lost = MaxLost
    PROVE  SpentInv'
<1>0. \A t \in Task : /\ ClientOf[t] \in Client /\ loc[t] \in Locals
                      /\ FitCall(at[t], job[t], loc[t]) /\ SyncCall(at[t], loc[t], Mine(t))
                      /\ PairCall(at[t], loc[t], Mine(t)) /\ SpentCall(at[t], loc[t])
    BY TokenAssumption DEF TypeInv, CallTypes, SoleInv, SoleCalls, SoleCall, SyncInv, PairInv, SpentInv
<1>1. ASSUME NEW t \in Task, Goes(t), at'[t] \in Changing => loc'[t].why = "bury" PROVE SpentInv'
    <2>1. SpentSame(t)
        BY <1>1 DEF Goes, SpentSame, SameSession
    <2>2. SpentCall(at'[t], loc'[t])
        BY <1>1 DEF Goes, SpentCall, Renewing, Changing
    <2> QED
        BY <1>1, <2>1, <2>2, SpentMove DEF Goes
<1>2. ASSUME NEW t \in Task, Frees(t) \/ Looks(t) \/ Spends(t) \/ Fails(t) \/ Rotates(t) PROVE SpentInv'
    BY <1>1, <1>2 DEF Frees, Looks, Spends, Fails, Rotates, Changing, Committing
<1>3. ASSUME NEW t \in Task, Saves(t) PROVE SpentInv'
    <2>1. loc'[t].answer = loc[t].answer
        BY <1>0, <1>3 DEF Saves, Locals
    <2>2. SpentSame(t)
        BY <1>3 DEF Saves, SpentSame, SameSession, Noted
    <2>3. SpentCall(at'[t], loc'[t])
        BY <1>0, <1>3, <2>1 DEF Saves, SpentCall, Renewing, Committing
    <2>4. Rotated(at[t], loc[t]) => Rotated(at'[t], loc'[t])
        BY <1>3 DEF Saves, Rotated, Changing, Committing
    <2> QED
        BY <2>2, <2>3, <2>4, SpentMove
<1>4. ASSUME NEW t \in Task, Settles(t) PROVE SpentInv'
    <2>1. /\ \A c \in Client : session'[c].pair = store.pair
          /\ UNCHANGED <<store, service, history>> /\ OthersStay(t)
        BY <1>4 DEF Settles
    <2>2. SpentCall(at'[t], loc'[t])
        BY <1>4 DEF Settles, SpentCall, Renewing, Changing, Committing
    <2>3. CASE loc[t].why = "account"
        <3>1. store.pair = Mine(t).pair
            BY <1>0, <1>4, <2>3 DEF Settles, SyncCall
        <3>2. \A c \in Client : session'[c].pair = session[c].pair
            BY <1>0, <2>1, <3>1 DEF SoleClient, Mine
        <3> QED
            BY <1>4, <2>1, <2>2, <2>3, <3>2, SpentMove DEF SpentSame, Settles, Rotated
    <2>4. CASE loc[t].why # "account"
        <3>1. loc[t].rec = store /\ loc[t].outcome = "saved" /\ loc[t].why # "none"
            BY <1>0, <1>4 DEF Settles, SyncCall, FitCall, Changing, Committing
        <3>2. store.pair \notin history.spent
            <4>1. CASE loc[t].why \in {"refresh", "mint"}
                BY <1>0, <1>4, <3>1, <4>1 DEF Settles, SpentCall, Renewing, Changing, Committing
            <4>2. CASE loc[t].why = "bury"
                <5>1. SoleCall(at[t], job[t], loc[t])
                    BY DEF SoleInv, SoleCalls
                <5>2. Gone(loc[t].rec)
                    BY <1>4, <3>1, <4>2, <5>1 DEF Settles, SoleCall, AliveCall, GoneCall, HasBuried, Committing
                <5> QED
                    BY <3>1, <5>2 DEF Gone, SpentInv, KnownPairs, None
            <4> QED
                BY <1>0, <2>4, <3>1, <4>1, <4>2 DEF Locals
        <3>3. ASSUME NEW u \in Task PROVE SpentCall(at[u], loc[u])'
            <4>1. SpentCall(at'[u], loc'[u])
                BY <1>0, <2>1, <2>2 DEF OthersStay
            <4> QED
                BY <2>1, <4>1 DEF SpentCall, Renewing
        <3> QED
            BY <2>1, <3>2, <3>3 DEF SpentInv, KnownPairs
    <2> QED
        BY <2>3, <2>4
<1>5. ASSUME NEW t \in Task, Commits(t) PROVE SpentInv'
    <2>1. /\ OthersStay(t)
          /\ UNCHANGED <<session, service>>
          /\ history'.spent = history.spent
          /\ loc'[t].why = loc[t].why /\ loc'[t].answer = loc[t].answer
          /\ Builds(t) \/ Begins(t) \/ Writes(t)
        BY <1>5, CommitsMove
    <2>2. /\ Renewing(at'[t], loc'[t]) => Renewing(at[t], loc[t])
          /\ Rotated(at[t], loc[t]) => Rotated(at'[t], loc'[t])
        BY <2>1 DEF Builds, Begins, Writes, Renewing, Rotated, Changing, Committing
    <2>3. loc[t].why \in {"refresh", "mint"} => loc'[t].rec.pair = loc[t].answer.value
        <3>1. CASE Builds(t)
            <4>1. Mine(t) \in Session
                BY <1>0 DEF Mine, TypeInv, StoreTypes
            <4> QED
                BY <3>1, <4>1 DEF Builds, Built, Session
        <3>2. CASE Begins(t) \/ Writes(t)
            BY <1>0, <3>2 DEF Begins, Writes, SpentCall, Committing
        <3> QED
            BY <2>1, <3>1, <3>2
    <2>4. SpentCall(at'[t], loc'[t])
        BY <1>0, <2>1, <2>2, <2>3 DEF SpentCall
    <2> QED
        BY <2>1, <2>2, <2>4, SpentMove DEF SpentSame
<1>6. ASSUME NEW t \in Task, Answers(t) PROVE SpentInv'
    <2> DEFINE n == service.pairs + 1
    <2>1. /\ OthersStay(t) /\ UNCHANGED <<store, session, base>>
          /\ RefreshedAs(t) \/ MintedAs(t) \/ RotatedAs(t)
        BY <1>6, AnswersMove
    <2>2. KnownPairs \subseteq 1..n /\ n \in 1..n /\ n \notin KnownPairs
        BY DEF KnownPairs, TypeInv, StoreTypes, Pairs
    <2>3. ~Rotated(at[t], loc[t]) /\ at'[t] \in {"refreshed", "minted", "rotated"}
        BY <2>1 DEF RefreshedAs, MintedAs, RotatedAs, Rotated, Changing, Committing
\* Nothing is spent.
    <2>4. CASE /\ service'.pairs \in {service.pairs, n} /\ history'.spent = history.spent
               /\ loc'[t].answer.kind = "pair" => loc'[t].answer.value = n
        <3>1. SpentCall(at'[t], loc'[t])
            BY <2>2, <2>3, <2>4 DEF SpentCall, Renewing, SpentInv, Changing, Committing
        <3>2. ASSUME NEW u \in Task PROVE SpentCall(at[u], loc[u])'
            <4>1. SpentCall(at'[u], loc'[u])
                BY <1>0, <2>1, <3>1 DEF OthersStay
            <4> QED
                BY <2>4, <4>1 DEF SpentCall, Renewing
        <3>3. (\E u \in Task : Rotated(at[u], loc[u])) => (\E u \in Task : Rotated(at[u], loc[u]))'
            <4>1. ASSUME NEW u \in Task, Rotated(at[u], loc[u]) PROVE Rotated(at'[u], loc'[u])
                BY <2>1, <2>3, <4>1 DEF OthersStay
            <4> QED
                BY <4>1 DEF Rotated
        <3>4. history'.spent \subseteq KnownPairs'
            BY <2>2, <2>4 DEF SpentInv, KnownPairs
        <3> QED
            BY <2>1, <2>4, <3>2, <3>3, <3>4 DEF SpentInv
    <2>5. CASE RefreshedAs(t)
        <3>1. at[t] = "refreshing" /\ at'[t] = "refreshed" /\ InRefresh(t)
            BY <2>5, FailedRefreshes DEF RefreshedAs
        <3>2. CASE /\ loc[t].spend \in service.live /\ AnswerOf(t, "pair", n)
                   /\ service' = [service EXCEPT !.pairs = n, !.live = (@ \ {loc[t].spend}) \cup {n}]
                   /\ history' = [history EXCEPT !.spent = @ \cup {loc[t].spend}]
            <4>1. /\ service'.pairs = n /\ history'.spent = history.spent \cup {loc[t].spend}
                  /\ loc[t].spend \in KnownPairs
                BY <3>2 DEF TypeInv, StoreTypes, Noted, PairInv
            <4>2. history'.spent \subseteq KnownPairs' /\ n \notin history'.spent
                BY <2>2, <4>1 DEF SpentInv, KnownPairs
            <4>3. Rotated(at'[t], loc'[t]) /\ loc'[t].answer.value = n
                BY <3>1, <3>2 DEF Rotated, AnswerOf, Answered
            <4>4. ASSUME NEW u \in Task PROVE SpentCall(at[u], loc[u])'
                <5>1. CASE u = t
                    BY <3>1, <4>2, <4>3, <5>1 DEF SpentCall, Committing
                <5>2. CASE u # t
                    <6>1. ~Renewing(at[u], loc[u])
                        BY <3>1, <5>2, RenewingRefreshes, SoleAlone
                    <6> QED
                        BY <1>0, <2>1, <5>2, <6>1 DEF OthersStay, SpentCall
                <5> QED
                    BY <5>1, <5>2
            <4> QED
                BY <4>2, <4>3, <4>4 DEF SpentInv, SpentCall, Rotated, Renewing
        <3>3. CASE /\ AnswerOf(t, "failed", 0) \/ AnswerOf(t, "spent", 0)
                   /\ UNCHANGED <<service, history>>
            BY <2>4, <3>3 DEF AnswerOf, Answered
        <3> QED
            BY <2>5, <3>2, <3>3 DEF RefreshedAs, Lost
    <2>6. CASE MintedAs(t)
        <3>1. service'.pairs \in {service.pairs, n} /\ UNCHANGED history
            BY <2>6 DEF MintedAs, TypeInv, StoreTypes
        <3>2. loc'[t].answer.kind = "pair" => loc'[t].answer.value = n
            BY <2>6 DEF MintedAs, AnswerOf, Answered
        <3> QED
            BY <2>4, <3>1, <3>2
    <2>7. CASE RotatedAs(t)
        <3>1. service'.pairs = service.pairs /\ UNCHANGED history
            BY <2>7 DEF RotatedAs, TypeInv, StoreTypes
        <3>2. loc'[t].answer.kind # "pair"
            BY <2>7 DEF RotatedAs, AnswerOf, Answered
        <3> QED
            BY <2>4, <3>1, <3>2
    <2> QED
        BY <2>1, <2>5, <2>6, <2>7
<1>7. ASSUME Elapse \/ UNCHANGED vars PROVE SpentInv'
    <2>1. UNCHANGED <<session, at, loc, history>> /\ service'.pairs = service.pairs
        BY <1>7 DEF Elapse, vars, clientVars, taskVars, TypeInv, StoreTypes
    <2> QED
        BY <2>1 DEF SpentInv, SpentCall, Renewing, Rotated, KnownPairs
<1> QED
    BY <1>2, <1>3, <1>4, <1>5, <1>6, <1>7, LoneStep DEF Lone
---------------------------------------------------------------------------------
(* What such a client keeps *)

LEMMA KeptInit == SoleClient /\ Init => KeptInv
<1> SUFFICES ASSUME SoleClient, Init PROVE KeptInv
    OBVIOUS
<1>1. First.pair = 1 /\ First.acct = 1
    BY DEF First, Empty
<1>2. /\ store = First
      /\ \A c \in Client : session[c] = First /\ base[c] = 1
      /\ \A t \in Task : at[t] = "idle" /\ loc[t] = Blank /\ ClientOf[t] \in Client
    BY <1>1, TokenAssumption DEF Init, SoleClient
<1>3. Blank.answer.kind = "none" /\ ~Blank.cancelled
    BY DEF Blank, Answered
<1>4. /\ service.pairs = 1 /\ service.accts = 1 /\ service.live = {1} /\ service.acctLive = {1}
      /\ service.lapsed = {} /\ service.outdated = {}
      /\ history = [spent |-> {}, received |-> {}, accts |-> {}, saved |-> {1}]
    BY DEF Init
<1>5. KnownPairs = 1..1 /\ KnownAccts = 0..1 /\ Held = (1..1) \cup {None}
    BY <1>4 DEF KnownPairs, KnownAccts, Held
<1>6. SyncInv
    BY <1>1, <1>2, <1>3 DEF SyncInv, SyncCall, InSync
<1>7. Noted
    BY <1>4 DEF Noted
<1>8. AcctInv
    BY <1>1, <1>2, <1>3, <1>4, <1>5 DEF AcctInv, AcctCall, Pending
<1>9. PairInv
    BY <1>1, <1>2, <1>3, <1>4, <1>5 DEF PairInv, PairCall, Failed, Changing, Committing
<1>10. SpentInv
    BY <1>1, <1>2, <1>3, <1>4, <1>5 DEF SpentInv, SpentCall, Renewing, Changing, Committing
<1> QED
    BY <1>6, <1>7, <1>8, <1>9, <1>10 DEF KeptInv

LEMMA KeptStep == SoleClient /\ TypeInv /\ LockInv /\ SoleInv /\ KeptInv /\ [Next]_vars => KeptInv'
<1> SUFFICES ASSUME SoleClient, TypeInv, LockInv, SoleInv, KeptInv, [Next]_vars, Untroubled'
             PROVE  (SyncInv /\ Noted /\ AcctInv /\ PairInv /\ (budget.lost = MaxLost => SpentInv))'
    BY DEF KeptInv, Untroubled
<1>1. Untroubled /\ (budget'.lost = MaxLost => budget.lost = MaxLost)
    BY TroubleSpent
<1>2. SyncInv /\ Noted /\ AcctInv /\ PairInv /\ (budget.lost = MaxLost => SpentInv)
    BY <1>1 DEF KeptInv
<1>3. SyncInv'
    BY <1>2, SyncStep
<1>4. Noted'
    BY <1>2, NotedStep
<1>5. AcctInv'
    BY <1>2, AcctStep
<1>6. PairInv'
    BY <1>2, PairStep
<1>7. budget'.lost = MaxLost => SpentInv'
    BY <1>1, <1>2, SpentStep
<1> QED
    BY <1>3, <1>4, <1>5, <1>6, <1>7

\* The three parts of the invariant, the types and the locks, in every state of such a client.
LEMMA KeptAlways == SoleClient => (Spec => [](TypeInv /\ LockInv /\ SoleInv /\ KeptInv))
<1> SUFFICES ASSUME SoleClient PROVE Spec => [](TypeInv /\ LockInv /\ SoleInv /\ KeptInv)
    OBVIOUS
<1> DEFINE Inv == TypeInv /\ LockInv /\ SoleInv /\ KeptInv
<1>1. Init => Inv
    BY TypeInit, LockInit, SoleInit, KeptInit
<1>2. Inv /\ [Next]_vars => Inv'
    BY TypeStep, LockStep, SoleStep, KeptStep
<1> QED
    BY <1>1, <1>2, PTL DEF Spec

\* For a client that has its store to itself: an account token that was refreshed is kept (_change).
\* It is the saved one, or on its way to the store, for as long as the account service accepts it,
\* whatever refreshes of the vehicle tokens overlap its save: no save failed, no call was cancelled.
THEOREM TokenAccountKept == SoleClient => (Spec => []AccountTokenKept)
<1> SUFFICES ASSUME SoleClient PROVE Spec => []AccountTokenKept
    OBVIOUS
<1>1. TypeInv /\ KeptInv => AccountTokenKept
    <2> SUFFICES ASSUME TypeInv, KeptInv, Untroubled, NEW a \in history.accts, a \in service.acctLive,
                        store.acct # a
                 PROVE  \/ \E t \in Task : at[t] = "lock" /\ loc[t].answer = Answered("acct", a)
                        \/ \E t \in Task : at[t] \in Committing /\ loc[t].rec.acct = a
        BY DEF AccountTokenKept, Untroubled
    <2>1. AcctInv /\ SyncInv
        BY DEF KeptInv
    <2>2. a = service.accts
        BY <2>1 DEF AcctInv
    <2>3. PICK t \in Task : Saving(at[t], loc[t])
        BY <2>1, <2>2 DEF AcctInv
    <2>4. /\ loc[t].answer.kind = "acct" /\ loc[t].answer.value = a /\ loc[t] \in Locals
          /\ SyncCall(at[t], loc[t], Mine(t))
        BY <2>1, <2>2, <2>3 DEF Saving, Pending, AcctInv, AcctCall, TypeInv, CallTypes, SyncInv
    <2>5. CASE at[t] = "lock"
        <3>1. loc[t].answer = Answered("acct", a)
            BY <2>4 DEF Locals, Answer, Answered
        <3> QED
            BY <2>5, <3>1
    <2>6. CASE at[t] \in {"start", "write"} /\ loc[t].why = "account"
        <3>1. at[t] \in Committing /\ loc[t].rec.acct = a
            BY <2>4, <2>6 DEF SyncCall, Committing
        <3> QED
            BY <3>1
    <2> QED
        BY <2>3, <2>5, <2>6 DEF Saving, Pending
<1> QED
    BY <1>1, KeptAlways, PTL

\* For a client that has its store to itself: a pair it has received in exchange for the one it
\* spent is kept, saved or on its way to the store, for as long as the gateway accepts it, unless a
\* save has failed or a call was cancelled (_refresh, _commit).
THEOREM TokenRotatedKept == SoleClient => (Spec => [](Untroubled => RotatedPairKept))
<1> SUFFICES ASSUME SoleClient PROVE Spec => [](Untroubled => RotatedPairKept)
    OBVIOUS
<1>1. KeptInv => (Untroubled => RotatedPairKept)
    <2> SUFFICES ASSUME KeptInv, Untroubled, NEW r \in history.received, r[1] \in service.live,
                        store.pair # r[1]
                 PROVE  \/ \E t \in Task : at[t] = "lock" /\ loc[t].answer = Answered("pair", r[1])
                        \/ \E t \in Task : at[t] \in Committing /\ loc[t].rec.pair = r[1]
        BY DEF RotatedPairKept
    <2>1. PICK t \in Task : Coming(at[t], loc[t], r[1])
        BY DEF KeptInv, PairInv
    <2> QED
        BY <2>1 DEF Coming, Committing
<1> QED
    BY <1>1, KeptAlways, PTL

\* For a client that has its store to itself: it sends no refresh token that the gateway has
\* already rotated, unless a save has failed, a call was cancelled or an answer was lost
\* (_REFRESH_GATE, _refresh).
THEOREM TokenSpentOnce == SoleClient => (Spec => []SpentOnce)
<1> SUFFICES ASSUME SoleClient PROVE Spec => []SpentOnce
    OBVIOUS
<1>1. LockInv /\ SoleInv /\ KeptInv => SpentOnce
    <2>0. budget = [faults |-> MaxFaults, cancels |-> MaxCancels, lost |-> MaxLost]
              => Untroubled /\ budget.lost = MaxLost
        BY DEF Untroubled
    <2> SUFFICES ASSUME LockInv, SoleInv, KeptInv, Untroubled, budget.lost = MaxLost,
                        NEW t \in Task, at[t] = "refreshing"
                 PROVE  loc[t].spend \notin history.spent
        BY <2>0 DEF SpentOnce, NeverSpentTwice
    <2>1. PairInv /\ SpentInv
        BY DEF KeptInv
    <2>2. loc[t].spend = Mine(t).pair /\ ClientOf[t] \in Client /\ InRefresh(t)
        BY <2>1, FailedRefreshes, TokenAssumption DEF PairInv, PairCall
    <2>3. ASSUME NEW u \in Task, Rotated(at[u], loc[u]) PROVE FALSE
        <3>1. InRefresh(u)
            BY <2>3, RenewingRefreshes DEF Rotated, Renewing
        <3>2. u = t
            BY <2>2, <3>1, SoleAlone
        <3> QED
            BY <2>3, <3>2 DEF Rotated, Changing, Committing
    <2> QED
        BY <2>1, <2>2, <2>3 DEF SpentInv, Mine
<1> QED
    BY <1>1, KeptAlways, PTL
---------------------------------------------------------------------------------
(* Sign-ins beside clients that refresh *)

\* A task that reads and commands on a client that has loaded the session, and one that signs in
\* and has its client to itself.
Works(t) == Jobs[t] \subseteq Requests /\ ClientOf[t] \in Loaded
Signs(t) == Jobs[t] \subseteq {"load", "signin"} /\ \A u \in Task : ClientOf[u] = ClientOf[t] => u = t

\* No client is signed in while it refreshes, and all that refresh do so in one process.
Apart ==
    /\ \A t \in Task : Works(t) \/ Signs(t)
    /\ \A t, u \in Task : Works(t) /\ Works(u) => GateOf(t) = GateOf(u)

\* The account service refuses an account token for good only: none has merely run out, so that it
\* could still be refreshed once a sign-in with it was refused.
Lasting == ~AccountLapse

\* What descends from sign-in o and has pair p is of the saved session's line if it has its pair.
SameLine(p, o) == p # None /\ p = store.pair => o = store.origin
SavedLine(p, o) == p \in history.saved /\ SameLine(p, o)

\* A session without a pair was given up.
Tomb(s) == s.pair = None => s.expired

StoreKept ==
    /\ "saved" \in DOMAIN history
    /\ history.saved \subseteq 0..service.pairs
    /\ store.pair \in history.saved /\ Tomb(store)
    /\ store.acct <= service.accts

ClientKept(c) ==
    /\ base[c] # NoBase => SavedLine(base[c], session[c].origin)
    /\ c \in Loaded => base[c] # NoBase
    /\ session[c].acct <= service.accts

Employed(t) ==
    /\ job[t] \in Jobs[t] \cup {"none"}
    /\ at[t] \in Refreshing => job[t] \in Requests \cup {"signin"}
    /\ at[t] \in {"loading", "install"} => job[t] = "load"

AcctsKnown(t) ==
    /\ loc[t].acct <= service.accts /\ loc[t].rec.acct <= service.accts
    /\ loc[t].answer.kind = "acct" => loc[t].answer.value <= service.accts

\* What was read of the store, or is installed, was saved.
CopyKept(t) ==
    /\ at[t] \in {"install", "decide"} \/ (at[t] = "settle" /\ loc[t].outcome \in {"saved", "newer"}) =>
           SavedLine(loc[t].rec.pair, loc[t].rec.origin) /\ Tomb(loc[t].rec)
    /\ at[t] = "decide" /\ loc[t].rec.pair # None => store.pair # None

\* What is built from the client's session is of its line, but for a sign-in; and it replaces
\* what the client last saw.
BuildKept(t) ==
    LET l == loc[t]
        own == base[ClientOf[t]]
        rotates == l.after = "establish" /\ Mine(t).pair = own /\ own # None
    IN  /\ at[t] \in {"rotating", "rotated"} => rotates \/ (l.after = "renew" /\ job[t] # "signin")
        /\ at[t] \in Changing =>
               /\ l.why # "none" /\ (l.why = "account" => rotates)
               /\ job[t] = "signin" => l.why \in {"mint", "account"}
        /\ at[t] \in {"start", "write"} \/ (at[t] = "settle" /\ l.outcome = "saved") =>
               /\ l.why \in {"refresh", "mint"} => l.rec.pair = l.answer.value /\ l.rec.pair # None
               /\ l.why = "account" => l.rec.pair = own
               /\ l.why = "bury" => l.rec.pair = None /\ l.rec.expired
               /\ ~SigningIn(t) => l.rec.origin = Mine(t).origin
        /\ at[t] = "write" => l.expected = IF SigningIn(t) THEN NoBase ELSE own

\* A refresh past its look at the store spends tokens of its client's line, the store has a pair
\* for as long, and an account token that was refused is not accepted again.
RefreshKept(t) ==
    LET l == loc[t]
    IN  InRefresh(t) /\ at[t] \notin {"gated", "decide"} =>
            /\ l.root = Mine(t).origin
            /\ ~HasBuried(at[t], l) => store.pair # None
            /\ at[t] \in {"minting", "minted"} => l.acct = Mine(t).acct
            /\ at[t] \in {"minting", "minted"} \/ (at[t] = "lock" /\ l.why = "mint") => l.acctRoot = Mine(t).origin
            /\ at[t] = "minted" /\ l.answer.kind = "refused" => l.acct \notin service.acctLive
            /\ at[t] = "rotating" /\ l.after = "renew" => l.acct \notin service.acctLive
            /\ at[t] = "rotated" /\ l.after = "renew" => l.answer.kind # "acct"

CallKept(t) == Employed(t) /\ AcctsKnown(t) /\ CopyKept(t) /\ BuildKept(t) /\ RefreshKept(t)

\* A pair that is to be saved is new: no session that was saved has it, nor another call.
Carries(t) ==
    /\ at[t] \in {"refreshed", "minted"} \/ (at[t] \in {"lock", "start", "write"} /\ loc[t].why \in {"refresh", "mint"})
    /\ loc[t].answer.kind = "pair"
FreshPairs ==
    /\ \A t \in Task : Carries(t) => loc[t].answer.value \in (1..service.pairs) \ history.saved
    /\ \A t, u \in Task : Carries(t) /\ Carries(u) /\ loc[t].answer.value = loc[u].answer.value => t = u

LineInv == StoreKept /\ (\A c \in Client : ClientKept(c)) /\ (\A t \in Task : CallKept(t)) /\ FreshPairs
---------------------------------------------------------------------------------
\* Of all calls at most one refreshes, on a client that has loaded the session; and a call that
\* changes its client's session has that client to itself.
LEMMA ApartRefreshes ==
    ASSUME Apart, LockInv, LineInv, NEW t \in Task, at[t] \in Refreshing
    PROVE  \/ job[t] = "signin" /\ Signs(t)
           \/ /\ job[t] \in Requests /\ InRefresh(t) /\ Works(t)
              /\ \A u \in Task : InRefresh(u) => u = t
<1>1. job[t] \in Requests \cup {"signin"} /\ job[t] \in Jobs[t]
    BY DEF LineInv, CallKept, Employed, Requests
<1>2. CASE job[t] = "signin"
    BY <1>1, <1>2 DEF Apart, Works, Requests
<1>3. CASE job[t] \in Requests
    <2>1. InRefresh(t) /\ Works(t)
        BY <1>1, <1>3 DEF InRefresh, Apart, Signs, Requests
    <2>2. ASSUME NEW u \in Task, InRefresh(u) PROVE u = t
        <3>1. job[u] \in Jobs[u] /\ job[u] \in Requests
            BY <2>2 DEF LineInv, CallKept, Employed, InRefresh, Requests
        <3>2. Works(u)
            BY <3>1 DEF Apart, Signs, Requests
        <3>3. GateOf(u) = GateOf(t) /\ gate[GateOf(u)] = u /\ gate[GateOf(t)] = t
            BY <2>1, <2>2, <3>2 DEF Apart, LockInv, GateHeld
        <3> QED
            BY <3>3
    <2> QED
        BY <1>3, <2>1, <2>2
<1> QED
    BY <1>1, <1>2, <1>3

LEMMA ApartAlone ==
    ASSUME Apart, LockInv, LineInv, NEW t \in Task, at[t] \in Refreshing \cup {"install", "loggedin"},
           NEW u \in Task \ {t}, ClientOf[u] = ClientOf[t]
    PROVE  at[u] \notin Refreshing
<1> SUFFICES ASSUME at[u] \in Refreshing PROVE FALSE
    OBVIOUS
<1>1. CASE Signs(u) \/ Signs(t)
    BY <1>1 DEF Signs
<1>2. CASE ~Signs(u) /\ ~Signs(t)
    <2>1. Works(t) /\ InRefresh(u)
        BY <1>2, ApartRefreshes DEF Apart
    <2>2. at[t] \in Refreshing
        BY <2>1 DEF LineInv, CallKept, Employed, LockInv, JobFits, Works, Requests
    <2> QED
        BY <1>2, <2>1, <2>2, ApartRefreshes
<1> QED
    BY <1>1, <1>2

\* What a step changes beside its own call: nothing that is saved; more tokens are issued, and
\* of those issued before no more are accepted.
Issues ==
    /\ UNCHANGED store
    /\ "saved" \in DOMAIN history' /\ history'.saved = history.saved
    /\ service'.pairs >= service.pairs /\ service'.accts >= service.accts
    /\ \A a \in Accts : a <= service.accts /\ a \in service'.acctLive => a \in service.acctLive

SameOwn(c) ==
    /\ base'[c] = base[c]
    /\ \A f \in {"pair", "acct", "origin"} : session'[c][f] = session[c][f]

LEMMA OthersKept ==
    ASSUME TypeInv, TypeInv', LineInv, Issues, NEW u \in Task,
           at'[u] = at[u] /\ job'[u] = job[u] /\ loc'[u] = loc[u],
           at[u] \notin Refreshing \/ SameOwn(ClientOf[u])
    PROVE  CallKept(u)'
<1>0. /\ ClientOf[u] \in Client /\ loc[u] \in Locals
      /\ service.accts \in Nat /\ service'.accts \in Nat
    BY TokenAssumption DEF TypeInv, CallTypes, StoreTypes, Accts
<1>1. CallKept(u)
    BY DEF LineInv
<1>2. Employed(u)'
    BY <1>1 DEF CallKept, Employed
<1>3. AcctsKnown(u)'
    <2>1. /\ loc[u].acct \in Nat /\ loc[u].rec.acct \in Nat
          /\ loc[u].answer.kind = "acct" => loc[u].answer.value \in Nat
        BY <1>0 DEF Locals, Accts, Session, TypeInv, CallTypes, AnswerFits
    <2> QED
        BY <1>0, <1>1, <2>1 DEF CallKept, AcctsKnown, Issues
<1>4. CopyKept(u)'
    BY <1>1 DEF CallKept, CopyKept, SavedLine, SameLine, Tomb, Issues
<1>5. BuildKept(u)'
    <2>1. CASE at[u] \notin Refreshing
        BY <2>1 DEF BuildKept, Refreshing, Changing, Committing
    <2>2. CASE SameOwn(ClientOf[u])
        <3>1. /\ Mine(u)'.pair = Mine(u).pair /\ Mine(u)'.origin = Mine(u).origin
              /\ base'[ClientOf[u]] = base[ClientOf[u]]
            BY <2>2 DEF SameOwn, Mine
        <3> HIDE DEF Mine
        <3> QED
            BY <1>1, <3>1 DEF CallKept, BuildKept, SigningIn
    <2> QED
        BY <2>1, <2>2
<1>6. RefreshKept(u)'
    <2>1. CASE at[u] \notin Refreshing
        BY <2>1 DEF RefreshKept, InRefresh
    <2>2. CASE SameOwn(ClientOf[u])
        <3>1. Mine(u)'.acct = Mine(u).acct /\ Mine(u)'.origin = Mine(u).origin
            BY <2>2 DEF SameOwn, Mine
        <3>2. loc[u].acct \in service'.acctLive => loc[u].acct \in service.acctLive
            BY <1>0, <1>1 DEF CallKept, AcctsKnown, Locals, Issues
        <3> QED
            BY <1>1, <3>1, <3>2 DEF CallKept, RefreshKept, InRefresh, Issues, HasBuried
    <2> QED
        BY <2>1, <2>2
<1> QED
    BY <1>2, <1>3, <1>4, <1>5, <1>6 DEF CallKept

\* A new pair is new to all.
LEMMA FreshKept ==
    ASSUME TypeInv, TypeInv', LineInv, Issues, NEW t \in Task, OthersStay(t),
           Carries(t)' => \/ Carries(t) /\ loc'[t].answer.value = loc[t].answer.value
                          \/ /\ loc'[t].answer.value = service.pairs + 1
                             /\ service'.pairs = service.pairs + 1
    PROVE  FreshPairs'
<1>0. service.pairs \in Nat /\ service'.pairs \in Nat
    BY DEF TypeInv, StoreTypes, Pairs
<1>1. ASSUME NEW u \in Task \ {t}
      PROVE  Carries(u)' => Carries(u) /\ loc'[u].answer.value = loc[u].answer.value
    BY DEF OthersStay, Carries
<1>2. ASSUME NEW u \in Task, Carries(u)
      PROVE  loc[u].answer.value \in 1..service.pairs /\ loc[u].answer.value \notin history.saved
    BY <1>2 DEF LineInv, FreshPairs
<1>3. service.pairs + 1 \notin history.saved
    BY <1>0 DEF LineInv, StoreKept
<1>4. ASSUME NEW u \in Task, Carries(u)'
      PROVE  loc'[u].answer.value \in (1..service'.pairs) \ history'.saved
    BY <1>0, <1>1, <1>2, <1>3, <1>4 DEF Issues
<1>5. ASSUME NEW u \in Task, NEW v \in Task, Carries(u)', Carries(v)', loc'[u].answer.value = loc'[v].answer.value
      PROVE  u = v
    <2>1. ASSUME NEW w \in Task, Carries(w)', ~(Carries(w) /\ loc'[w].answer.value = loc[w].answer.value)
          PROVE  w = t /\ loc'[w].answer.value = service.pairs + 1
        BY <1>1, <2>1
    <2>2. ASSUME NEW w \in Task, Carries(w), loc'[w].answer.value = loc[w].answer.value
          PROVE  loc'[w].answer.value # service.pairs + 1
        BY <1>0, <1>2, <2>2
    <2> QED
        BY <1>5, <2>1, <2>2 DEF LineInv, FreshPairs
<1> QED
    BY <1>4, <1>5 DEF FreshPairs

\* A step that saves nothing keeps the invariant if it keeps the parts of its call and its client.
LEMMA LineMove ==
    ASSUME Apart, TypeInv, TypeInv', LockInv, LineInv, Issues, NEW t \in Task, OthersStay(t),
           \A d \in Client \ {ClientOf[t]} : base'[d] = base[d] /\ session'[d] = session[d],
           at[t] \in Refreshing \cup {"install", "loggedin"} \/ SameOwn(ClientOf[t]),
           ClientKept(ClientOf[t])', CallKept(t)',
           Carries(t)' => \/ Carries(t) /\ loc'[t].answer.value = loc[t].answer.value
                          \/ /\ loc'[t].answer.value = service.pairs + 1
                             /\ service'.pairs = service.pairs + 1
    PROVE  LineInv'
<1>0. /\ service.accts \in Nat /\ service'.accts \in Nat /\ service.pairs \in Nat /\ service'.pairs \in Nat
      /\ store.acct \in Nat /\ \A d \in Client : session[d].acct \in Nat
    BY DEF TypeInv, StoreTypes, Accts, Pairs, Session
<1>1. StoreKept'
    BY <1>0 DEF LineInv, StoreKept, Issues, Tomb
<1>2. ASSUME NEW d \in Client PROVE ClientKept(d)'
    <2>1. CASE d = ClientOf[t]
        BY <2>1
    <2>2. CASE d # ClientOf[t]
        <3>1. ClientKept(d) /\ base'[d] = base[d] /\ session'[d] = session[d]
            BY <2>2 DEF LineInv
        <3> QED
            BY <1>0, <3>1 DEF ClientKept, SavedLine, SameLine, Issues
    <2> QED
        BY <2>1, <2>2
<1>3. ASSUME NEW u \in Task PROVE CallKept(u)'
    <2>1. CASE u = t
        BY <2>1
    <2>2. CASE u # t
        <3>1. at'[u] = at[u] /\ job'[u] = job[u] /\ loc'[u] = loc[u]
            BY <2>2 DEF OthersStay
        <3>2. ClientOf[u] # ClientOf[t] => SameOwn(ClientOf[u])
            BY TokenAssumption DEF SameOwn
        <3>3. at[u] \notin Refreshing \/ SameOwn(ClientOf[u])
            BY <2>2, <3>2, ApartAlone
        <3> QED
            BY <3>1, <3>3, OthersKept
    <2> QED
        BY <2>1, <2>2
<1>4. FreshPairs'
    BY FreshKept
<1> QED
    BY <1>1, <1>2, <1>3, <1>4 DEF LineInv

\* So does one that changes nothing but its own call, or issues something.
LEMMA LineGoes ==
    ASSUME Apart, TypeInv, TypeInv', LockInv, LineInv, Issues, NEW t \in Task, OthersStay(t),
           UNCHANGED <<session, base>>, CallKept(t)',
           Carries(t)' => \/ Carries(t) /\ loc'[t].answer.value = loc[t].answer.value
                          \/ /\ loc'[t].answer.value = service.pairs + 1
                             /\ service'.pairs = service.pairs + 1
    PROVE  LineInv'
<1>1. SameOwn(ClientOf[t])
    BY DEF SameOwn
<1>2. ClientKept(ClientOf[t])'
    <2>1. ClientKept(ClientOf[t]) /\ session[ClientOf[t]].acct \in Nat
        BY TokenAssumption DEF LineInv, TypeInv, StoreTypes, Session, Accts
    <2>2. service.accts \in Nat /\ service'.accts \in Nat
        BY DEF TypeInv, StoreTypes, Accts
    <2> QED
        BY <2>1, <2>2 DEF ClientKept, SavedLine, SameLine, Issues
<1> QED
    BY <1>1, <1>2, LineMove

\* Nothing is asked of a call that has ended, sends its request, or has yet to look at the store.
Free == {"idle", "request", "rejected", "gate", "gated", "login", "loading"}

LEMMA FreeKept ==
    ASSUME NEW t \in Task, at'[t] \in Free, Employed(t)', AcctsKnown(t)'
    PROVE  CallKept(t)' /\ ~Carries(t)'
<1>1. CopyKept(t)' /\ ~Carries(t)'
    BY DEF CopyKept, Carries, Free
<1>2. BuildKept(t)'
    BY DEF BuildKept, Free, Changing, Committing
<1>3. RefreshKept(t)'
    BY DEF RefreshKept, InRefresh, Refreshing, Free
<1> QED
    BY <1>1, <1>2, <1>3 DEF CallKept

\* A call that ends, and one that sends its request.
LEMMA EndFree ==
    ASSUME TypeInv, TypeInv', NEW t \in Task, End(t)
    PROVE  OthersStay(t) /\ CallKept(t)' /\ ~Carries(t)'
<1>1. Moves(t, "idle", "none", Blank)
    BY Moved DEF End
<1>2. service'.accts \in Nat
    BY DEF TypeInv, StoreTypes, Accts
<1>3. at'[t] = "idle" /\ job'[t] = "none" /\ loc'[t] = Blank /\ OthersStay(t)
    BY <1>1 DEF Moves, OthersStay
<1>4. Employed(t)' /\ AcctsKnown(t)'
    BY <1>2, <1>3 DEF Employed, AcctsKnown, Blank, Empty, None, Answered, Refreshing
<1> QED
    BY <1>3, <1>4, FreeKept DEF Free

LEMMA SendFree ==
    ASSUME TypeInv, TypeInv', LineInv, NEW t \in Task, NEW s, NEW again, SendRequest(t, s, again)
    PROVE  OthersStay(t) /\ CallKept(t)' /\ ~Carries(t)'
<1> DEFINE l == [Blank EXCEPT !.used = s.pair, !.again = again]
<1>1. Moves(t, "request", job[t], l)
    BY Moved DEF SendRequest
<1>2. service'.accts \in Nat
    BY DEF TypeInv, StoreTypes, Accts
<1>3. l.acct = 0 /\ l.rec.acct = 0 /\ l.answer.kind = "none"
    BY DEF Blank, Empty, None, Answered
<1> HIDE DEF l
<1>4. at'[t] = "request" /\ job'[t] = job[t] /\ loc'[t] = l /\ OthersStay(t)
    BY <1>1 DEF Moves, OthersStay
<1>5. Employed(t)' /\ AcctsKnown(t)'
    <2>1. Employed(t)
        BY DEF LineInv, CallKept
    <2> QED
        BY <1>2, <1>3, <1>4, <2>1 DEF Employed, AcctsKnown, Refreshing
<1> QED
    BY <1>4, <1>5, FreeKept DEF Free

LEMMA NothingIssued ==
    ASSUME TypeInv, LineInv, UNCHANGED <<store, service>>,
           UNCHANGED history \/ \E f \in {"spent", "received", "accts"} : \E x : history' = [history EXCEPT ![f] = x]
    PROVE  Issues
<1>1. service.pairs \in Nat /\ service.accts \in Nat
    BY DEF TypeInv, StoreTypes, Pairs, Accts
<1>2. "saved" \in DOMAIN history
    BY DEF LineInv, StoreKept
<1> QED
    BY <1>1, <1>2 DEF Issues

\* A refresh that goes on to renew its session or to give it up.
LEMMA RefreshGoes ==
    ASSUME Apart, TypeInv, TypeInv', LockInv, LineInv, Issues, UNCHANGED <<session, base>>,
           NEW t \in Task, OthersStay(t), InRefresh(t), job'[t] = job[t], store.pair # None,
           loc'[t].root = Mine(t).origin, loc'[t].rec.acct <= service.accts,
           loc'[t].answer.kind = "acct" => loc'[t].answer.value <= service.accts,
           \/ /\ at'[t] = "minting"
              /\ loc'[t].acct = Mine(t).acct /\ loc'[t].acctRoot = Mine(t).origin
           \/ /\ at'[t] = "rotating" /\ loc'[t].after = "renew"
              /\ loc'[t].acct = Mine(t).acct /\ loc'[t].acct \notin service.acctLive
           \/ /\ at'[t] = "lock" /\ loc'[t].why = "bury"
              /\ loc'[t].acct <= service.accts
    PROVE  LineInv'
<1>0. /\ service.accts \in Nat /\ service'.accts \in Nat /\ ClientOf[t] \in Client
      /\ Mine(t).acct \in Accts /\ loc'[t] \in Locals /\ Mine(t)' = Mine(t)
    BY TokenAssumption DEF TypeInv, StoreTypes, CallTypes, Accts, Session, Mine
<1>1. Mine(t).acct <= service.accts
    BY <1>0 DEF LineInv, ClientKept, Mine
<1>2. Employed(t) /\ job[t] \in Requests
    BY DEF LineInv, CallKept, InRefresh, Requests
<1>3. Employed(t)'
    BY <1>2 DEF Employed
<1>4. AcctsKnown(t)'
    <2>1. loc'[t].acct <= service.accts /\ loc'[t].acct \in Nat /\ loc'[t].rec.acct \in Nat /\ loc'[t].answer.value \in Nat
        BY <1>0, <1>1 DEF Locals, Accts, Session, Answer
    <2> QED
        BY <1>0, <2>1 DEF AcctsKnown, Issues
<1>5. CopyKept(t)' /\ ~Carries(t)'
    BY DEF CopyKept, Carries
<1>6. BuildKept(t)'
    BY <1>2 DEF BuildKept, Changing, Committing, Requests
<1>7. RefreshKept(t)'
    <2>1. Mine(t).acct \notin service.acctLive => Mine(t).acct \notin service'.acctLive
        BY <1>0, <1>1 DEF Issues
    <2> HIDE DEF Mine
    <2> QED
        BY <1>0, <2>1 DEF RefreshKept, Issues
<1> QED
    BY <1>3, <1>4, <1>5, <1>6, <1>7, LineGoes DEF CallKept

\* What is installed when a change is settled, or a session is loaded or adopted.
LEMMA InstallKept ==
    ASSUME TypeInv, TypeInv', LineInv, Issues, NEW c \in Client, NEW s \in Session, Install(c, s),
           SavedLine(s.pair, s.origin), s.acct <= service.accts
    PROVE  /\ ClientKept(c)'
           /\ session'[c] = s /\ base'[c] = s.pair
           /\ \A d \in Client \ {c} : base'[d] = base[d] /\ session'[d] = session[d]
<1>0. /\ service.accts \in Nat /\ service'.accts \in Nat /\ s.acct \in Nat
      /\ s.pair # NoBase
      /\ session \in [Client -> Session] /\ base \in [Client -> Pairs \cup {NoBase}]
    BY TokenAssumption DEF TypeInv, StoreTypes, Accts, Session, Pairs, NoBase
<1>1. /\ session'[c] = s /\ base'[c] = s.pair
      /\ \A d \in Client \ {c} : base'[d] = base[d] /\ session'[d] = session[d]
    BY <1>0 DEF Install
<1>2. ClientKept(c)'
    BY <1>0, <1>1 DEF ClientKept, SavedLine, SameLine, Issues
<1> QED
    BY <1>1, <1>2

\* What follows a change that was saved, or found another session saved: the call is over, sends its
\* request, or goes on to refresh the account token it signed in or renewed with.
LEMMA SettlesKept ==
    ASSUME Apart, TypeInv, TypeInv', LockInv, LineInv, UNCHANGED <<store, service, history>>,
           NEW t \in Task, at[t] = "settle", loc[t].outcome \in {"saved", "newer"},
           Install(ClientOf[t], loc[t].rec), AfterChange(t, loc[t].rec, loc[t].outcome = "saved")
    PROVE  LineInv'
<1> DEFINE s == loc[t].rec
           ok == loc[t].outcome = "saved"
           l == [loc[t] EXCEPT !.answer = Answered("none", 0), !.why = "none", !.rec = Empty,
                               !.expected = NoBase, !.outcome = "none", !.acct = None]
<1>0. /\ loc[t] \in Locals /\ s \in Session /\ ClientOf[t] \in Client
      /\ service.accts \in Nat /\ s.acct \in Nat
    BY TokenAssumption DEF TypeInv, CallTypes, StoreTypes, Locals, Accts, Session
<1>1. CallKept(t)
    BY DEF LineInv
<1>2. SavedLine(s.pair, s.origin) /\ Tomb(s) /\ s.acct <= service.accts
    BY <1>1 DEF CallKept, CopyKept, AcctsKnown
<1>3. Issues
    BY NothingIssued
<1>4. /\ ClientKept(ClientOf[t])'
      /\ session'[ClientOf[t]] = s /\ base'[ClientOf[t]] = s.pair
      /\ \A d \in Client \ {ClientOf[t]} : base'[d] = base[d] /\ session'[d] = session[d]
    BY <1>0, <1>2, <1>3, InstallKept
<1>5. at[t] \in Refreshing /\ at[t] \in Changing
    BY DEF Refreshing, Changing, Committing
<1>6. ASSUME OthersStay(t), CallKept(t)', ~Carries(t)' PROVE LineInv'
    BY <1>3, <1>4, <1>5, <1>6, LineMove
<1>7. CASE End(t) \/ SendRequest(t, s, loc[t].stale # None)
    BY <1>6, <1>7, EndFree, SendFree
<1>8. CASE /\ at' = [at EXCEPT ![t] = "rotating"]
           /\ Keep(t, [l EXCEPT !.acct = s.acct, !.after = "establish"])
           /\ UNCHANGED <<gate, job>>
           /\ ok /\ loc[t].why = "mint"
    <2> DEFINE m == [l EXCEPT !.acct = s.acct, !.after = "establish"]
    <2>1. Moves(t, "rotating", job[t], m)
        BY <1>8, Moved
    <2>2. /\ m.acct = s.acct /\ m.after = "establish" /\ m.rec.acct = 0 /\ m.answer.kind = "none"
          /\ m.root = loc[t].root
        BY <1>0 DEF Locals, Empty, None, Answered
    <2> HIDE DEF m
    <2>3. at'[t] = "rotating" /\ job'[t] = job[t] /\ loc'[t] = m /\ OthersStay(t)
        BY <2>1 DEF Moves, OthersStay
    <2>4. Employed(t)'
        BY <1>1, <1>5, <2>3 DEF CallKept, Employed
    <2>5. AcctsKnown(t)' /\ CopyKept(t)' /\ ~Carries(t)'
        BY <1>0, <1>2, <2>2, <2>3 DEF AcctsKnown, CopyKept, Carries
    <2>6. BuildKept(t)'
        <3>1. s.pair # None
            BY <1>1, <1>8 DEF CallKept, BuildKept
        <3> QED
            BY <1>4, <2>2, <2>3, <3>1 DEF BuildKept, Mine, Changing, Committing
    <2>7. RefreshKept(t)'
        <3>1. CASE job[t] = "signin"
            BY <2>3, <3>1 DEF RefreshKept, InRefresh
        <3>2. CASE job[t] # "signin"
            <4>1. job[t] \in Requests => loc[t].root = Mine(t).origin /\ store.pair # None
                BY <1>1, <1>5, <1>8 DEF CallKept, RefreshKept, InRefresh, Requests, HasBuried
            <4>2. s.origin = Mine(t).origin
                BY <1>1, <1>8, <3>2 DEF CallKept, BuildKept, SigningIn
            <4> QED
                BY <1>4, <2>2, <2>3, <4>1, <4>2 DEF RefreshKept, InRefresh, Mine, Requests
        <3> QED
            BY <3>1, <3>2
    <2> QED
        BY <1>6, <2>3, <2>4, <2>5, <2>6, <2>7 DEF CallKept
<1>9. CASE Established(t, s)
    BY <1>7, <1>9 DEF Established
<1>10. loc[t].why # "none" /\ (loc[t].why = "account" => loc[t].after = "establish")
    BY <1>1, <1>5 DEF CallKept, BuildKept
<1>11. loc[t].why \in {"refresh", "bury", "mint", "account"}
    BY <1>0, <1>10 DEF Locals
<1> HIDE DEF l, s, ok
<1>12. CASE loc[t].cancelled
    BY <1>7, <1>12 DEF AfterChange, s, ok
<1>13. CASE ~loc[t].cancelled /\ loc[t].why = "refresh"
    BY <1>7, <1>13 DEF AfterChange, s, ok
<1>14. CASE ~loc[t].cancelled /\ loc[t].why = "bury"
    BY <1>7, <1>14 DEF AfterChange, Buried, s, ok
<1>15. CASE ~loc[t].cancelled /\ loc[t].why = "mint"
    BY <1>8, <1>9, <1>15 DEF AfterChange, s, ok, l
<1>16. CASE ~loc[t].cancelled /\ loc[t].why = "account"
    BY <1>9, <1>10, <1>16 DEF AfterChange, AccountRefreshed, s, ok, l
<1> QED
    BY <1>11, <1>12, <1>13, <1>14, <1>15, <1>16
---------------------------------------------------------------------------------
\* What a call may write: a sign-in begins a new line, and anything else goes on with the saved one.
Written(t) == IF SigningIn(t) THEN [loc[t].rec EXCEPT !.origin = store.origin + 1] ELSE loc[t].rec

LEMMA WritesLine ==
    ASSUME Apart, TypeInv, LockInv, LineInv, NEW t \in Task, at[t] = "write", loc[t].expected \in {NoBase, store.pair}
    PROVE  /\ Written(t) \in Session /\ Written(t).acct <= service.accts
           /\ Tomb(Written(t)) /\ (Written(t).pair = None => loc[t].why = "bury")
           /\ Written(t).pair \in 0..service.pairs
           /\ Written(t).origin = (IF SigningIn(t) THEN store.origin + 1 ELSE store.origin)
           /\ \/ Written(t).pair = None
              \/ Carries(t) /\ Written(t).pair = loc[t].answer.value
              \/ Written(t).pair = store.pair /\ Written(t).origin = store.origin
<1> DEFINE l == loc[t]
           own == base[ClientOf[t]]
           new == Written(t)
<1>0. /\ l \in Locals /\ l.rec \in Session /\ ClientOf[t] \in Client
      /\ store \in Session /\ store.origin \in Nat /\ service.pairs \in Nat
      /\ Mine(t).pair # NoBase
    BY TokenAssumption DEF TypeInv, CallTypes, StoreTypes, Locals, Session, Pairs, Mine, NoBase
<1>1. /\ CallKept(t) /\ ClientKept(ClientOf[t])
      /\ history.saved \subseteq 0..service.pairs /\ store.pair \in history.saved
    BY <1>0 DEF LineInv, StoreKept
<1>2. at[t] \in Refreshing /\ at[t] \in Changing
    BY DEF Refreshing, Changing, Committing
<1>3. /\ new \in Session /\ new.pair = l.rec.pair /\ new.acct = l.rec.acct /\ new.expired = l.rec.expired
      /\ new.origin = (IF SigningIn(t) THEN store.origin + 1 ELSE l.rec.origin)
    BY <1>0 DEF Written, Session
<1> HIDE DEF new
<1>4. /\ l.why \in {"refresh", "bury", "mint", "account"}
      /\ l.why \in {"refresh", "mint"} => Carries(t)
    BY <1>0, <1>1, <1>2 DEF CallKept, BuildKept, Locals, TypeInv, CallTypes, WhyFits, Carries
<1>5. /\ l.why = "account" => l.rec.pair = own /\ own = Mine(t).pair /\ own # None
      /\ l.why = "bury" => l.rec.pair = None /\ l.rec.expired
      /\ l.why \in {"refresh", "mint"} => l.rec.pair = l.answer.value /\ l.rec.pair # None
      /\ ~SigningIn(t) => l.rec.origin = Mine(t).origin /\ l.expected = own
      /\ job[t] = "signin" => l.why \in {"mint", "account"}
    BY <1>1, <1>2 DEF CallKept, BuildKept
<1>6. ASSUME ~SigningIn(t) PROVE own = store.pair /\ own # None /\ own # NoBase
    <2>1. CASE job[t] = "signin"
        BY <1>0, <1>5, <1>6, <2>1 DEF SigningIn
    <2>2. CASE job[t] # "signin"
        <3>1. Works(t) /\ InRefresh(t)
            BY <1>2, <2>2, ApartRefreshes
        <3>2. own # NoBase
            BY <1>1, <3>1 DEF ClientKept, Works
        <3>3. store.pair # None
            BY <1>1, <3>1 DEF CallKept, RefreshKept, HasBuried
        <3> QED
            BY <1>5, <1>6, <3>2, <3>3
    <2> QED
        BY <2>1, <2>2
<1>7. ~SigningIn(t) => Mine(t).origin = store.origin
    BY <1>1, <1>6 DEF ClientKept, SavedLine, SameLine, Mine
<1>8. new.origin = (IF SigningIn(t) THEN store.origin + 1 ELSE store.origin)
    BY <1>3, <1>5, <1>7
<1>9. l.why = "account" => ~SigningIn(t)
    BY DEF SigningIn
<1>10. new.acct <= service.accts
    BY <1>1, <1>3 DEF CallKept, AcctsKnown
<1>11. Tomb(new) /\ (new.pair = None => l.why = "bury")
    BY <1>3, <1>4, <1>5 DEF Tomb
<1>12. \/ new.pair = None
       \/ Carries(t) /\ new.pair = l.answer.value
       \/ new.pair = store.pair /\ new.origin = store.origin
    BY <1>3, <1>4, <1>5, <1>6, <1>8, <1>9
<1>13. new.pair \in 0..service.pairs
    <2>1. Carries(t) => l.answer.value \in 1..service.pairs
        BY DEF LineInv, FreshPairs
    <2> QED
        BY <1>0, <1>1, <1>12, <2>1 DEF None
<1> QED
    BY <1>3, <1>8, <1>10, <1>11, <1>12, <1>13 DEF new

\* A save keeps the invariant, and the saved session is of no older line afterwards.
LEMMA WriteKept ==
    ASSUME Apart, TypeInv, TypeInv', LockInv, LineInv, NEW t \in Task, WriteStore(t)
    PROVE  LineInv' /\ store'.origin >= store.origin
<1> DEFINE l == loc[t]
           new == Written(t)
<1>0. /\ l \in Locals /\ ClientOf[t] \in Client /\ store \in Session /\ store.origin \in Nat
      /\ service.pairs \in Nat /\ service.accts \in Nat
      /\ at \in [Task -> Step] /\ loc \in [Task -> Locals]
    BY TokenAssumption DEF TypeInv, CallTypes, StoreTypes, Session, Pairs, Accts
<1>a. at[t] = "write" /\ at' = [at EXCEPT ![t] = "settle"] /\ UNCHANGED <<session, base, job, service>>
    BY DEF WriteStore, Go, clientVars
<1>1. CallKept(t) /\ StoreKept
    BY DEF LineInv
<1>2. at[t] \in Refreshing /\ at[t] \in Changing
    BY <1>0, <1>a DEF Refreshing, Changing, Committing
<1>3. CASE /\ Keep(t, [l EXCEPT !.rec = store, !.outcome = "newer"])
           /\ UNCHANGED <<store, history>>
    <2> DEFINE m == [l EXCEPT !.rec = store, !.outcome = "newer"]
    <2>1. Moves(t, "settle", job[t], m)
        BY <1>0, <1>a, <1>3, Moved
    <2>2. /\ m.rec = store /\ m.outcome = "newer"
          /\ m.why = l.why /\ m.after = l.after /\ m.root = l.root /\ m.acct = l.acct /\ m.answer = l.answer
        BY <1>0, <1>a DEF Locals
    <2> HIDE DEF m
    <2>3. at'[t] = "settle" /\ job'[t] = job[t] /\ loc'[t] = m /\ OthersStay(t)
        BY <2>1 DEF Moves, OthersStay
    <2>4. Issues
        BY <1>0, <1>a, <1>3, NothingIssued
    <2>5. Employed(t)' /\ AcctsKnown(t)' /\ ~Carries(t)'
        BY <1>0, <1>a, <1>1, <1>2, <2>2, <2>3 DEF CallKept, Employed, AcctsKnown, StoreKept, Carries
    <2>6. CopyKept(t)'
        BY <1>1, <1>3, <2>2, <2>3 DEF CopyKept, StoreKept, SavedLine, SameLine, Tomb
    <2>7. BuildKept(t)'
        BY <1>0, <1>a, <1>1, <1>2, <2>2, <2>3 DEF CallKept, BuildKept, Mine
    <2>8. RefreshKept(t)'
        BY <1>0, <1>a, <1>1, <1>2, <1>3, <2>2, <2>3 DEF CallKept, RefreshKept, InRefresh, HasBuried, Mine
    <2>9. LineInv'
        BY <1>0, <1>a, <2>3, <2>4, <2>5, <2>6, <2>7, <2>8, LineGoes DEF CallKept
    <2> QED
        BY <1>0, <1>a, <1>3, <2>9
<1>4. CASE /\ l.expected \in {NoBase, store.pair}
           /\ store' = new
           /\ history' = [history EXCEPT !.saved = @ \cup {new.pair}]
           /\ Keep(t, [l EXCEPT !.rec = new, !.outcome = "saved"])
    <2> DEFINE m == [l EXCEPT !.rec = new, !.outcome = "saved"]
    <2>1. Moves(t, "settle", job[t], m)
        BY <1>0, <1>a, <1>4, Moved
    <2>2. /\ m.rec = new /\ m.outcome = "saved"
          /\ m.why = l.why /\ m.after = l.after /\ m.root = l.root /\ m.acct = l.acct /\ m.answer = l.answer
        BY <1>0, <1>a DEF Locals
    <2> HIDE DEF m
    <2>3. at'[t] = "settle" /\ job'[t] = job[t] /\ loc'[t] = m /\ OthersStay(t)
        BY <2>1 DEF Moves, OthersStay
    <2>4. /\ new \in Session /\ new.acct <= service.accts
          /\ Tomb(new) /\ (new.pair = None => l.why = "bury")
          /\ new.pair \in 0..service.pairs
          /\ new.origin = (IF SigningIn(t) THEN store.origin + 1 ELSE store.origin)
          /\ \/ new.pair = None
             \/ Carries(t) /\ new.pair = l.answer.value
             \/ new.pair = store.pair /\ new.origin = store.origin
        BY <1>0, <1>a, <1>4, WritesLine
    <2>0. new.pair = l.rec.pair /\ new.expired = l.rec.expired /\ (~SigningIn(t) => new.origin = l.rec.origin)
        BY <1>0, <1>a DEF Written, Locals, Session
    <2> HIDE DEF new
    <2>5. "saved" \in DOMAIN history' /\ history'.saved = history.saved \cup {new.pair}
        BY <1>1, <1>4 DEF StoreKept
    <2>6. ASSUME NEW p, NEW o, SavedLine(p, o)
          PROVE  p \in history'.saved /\ (p # None /\ p = store'.pair => o = store'.origin)
        <3>1. Carries(t) => l.answer.value \notin history.saved
            BY DEF LineInv, FreshPairs
        <3> QED
            BY <1>4, <2>4, <2>5, <2>6, <3>1 DEF SavedLine, SameLine
    <2>7. StoreKept'
        BY <1>0, <1>a, <1>1, <1>4, <2>4, <2>5 DEF StoreKept, Tomb
    <2>8. ASSUME NEW c \in Client PROVE ClientKept(c)'
        <3>1. ClientKept(c)
            BY DEF LineInv
        <3> QED
            BY <1>0, <1>a, <2>6, <3>1 DEF ClientKept, SavedLine, SameLine
    <2>9. ASSUME NEW u \in Task \ {t} PROVE CallKept(u)'
        <3>0. at'[u] = at[u] /\ job'[u] = job[u] /\ loc'[u] = loc[u] /\ CallKept(u)
            BY <2>3 DEF OthersStay, LineInv
        <3>1. Employed(u)' /\ AcctsKnown(u)'
            BY <1>0, <1>a, <3>0 DEF CallKept, Employed, AcctsKnown
        <3>2. InRefresh(u) => store'.pair # None
            <4>1. l.why = "bury" => job[t] # "signin"
                BY <1>1, <1>2 DEF CallKept, BuildKept
            <4> QED
                BY <1>2, <1>4, <2>4, <4>1, ApartRefreshes
        <3>3. CopyKept(u)'
            <4>1. /\ loc[u].rec = loc'[u].rec
                  /\ at[u] \in {"install", "decide"} \/ (at[u] = "settle" /\ loc[u].outcome \in {"saved", "newer"}) =>
                         SavedLine(loc[u].rec.pair, loc[u].rec.origin) /\ Tomb(loc[u].rec)
                BY <3>0 DEF CallKept, CopyKept
            <4>2. at[u] = "decide" => InRefresh(u)
                BY DEF LockInv, JobFits, InRefresh, Refreshing
            <4> QED
                BY <2>6, <3>0, <3>2, <4>1, <4>2 DEF CopyKept, SavedLine, SameLine, Tomb
        <3>4. BuildKept(u)'
            BY <1>0, <1>a, <3>0 DEF CallKept, BuildKept, Mine, SigningIn
        <3>5. RefreshKept(u)'
            BY <1>0, <1>a, <3>0, <3>2 DEF CallKept, RefreshKept, InRefresh, Mine
        <3> QED
            BY <3>1, <3>3, <3>4, <3>5 DEF CallKept
    <2>10. CallKept(t)'
        <3>1. Employed(t)' /\ AcctsKnown(t)'
            BY <1>0, <1>a, <1>1, <1>2, <2>2, <2>3, <2>4 DEF CallKept, Employed, AcctsKnown
        <3>2. CopyKept(t)'
            BY <1>4, <2>2, <2>3, <2>4, <2>5 DEF CopyKept, SavedLine, SameLine, Tomb
        <3>3. BuildKept(t)'
            BY <1>0, <1>a, <1>1, <1>2, <2>0, <2>2, <2>3 DEF CallKept, BuildKept, Mine, SigningIn
        <3>4. RefreshKept(t)'
            BY <1>0, <1>a, <1>1, <1>2, <1>4, <2>2, <2>3, <2>4 DEF CallKept, RefreshKept, InRefresh, HasBuried, Mine
        <3> QED
            BY <3>1, <3>2, <3>3, <3>4 DEF CallKept
    <2>11. FreshPairs'
        <3>1. ASSUME NEW u \in Task, Carries(u)'
              PROVE  u # t /\ Carries(u) /\ loc'[u].answer.value = loc[u].answer.value
            BY <2>3, <3>1 DEF OthersStay, Carries
        <3>2. ASSUME NEW u \in Task \ {t}, Carries(u) PROVE loc[u].answer.value # new.pair
            BY <1>1, <2>4, <3>2 DEF LineInv, FreshPairs, StoreKept, None
        <3> QED
            BY <1>0, <1>a, <2>5, <3>1, <3>2 DEF LineInv, FreshPairs
    <2>12. store'.origin >= store.origin
        BY <1>0, <1>a, <1>4, <2>4
    <2> QED
        BY <2>7, <2>8, <2>9, <2>10, <2>11, <2>12 DEF LineInv
<1> QED
    BY <1>3, <1>4 DEF WriteStore, Written
---------------------------------------------------------------------------------
\* A step of no call.
LEMMA LineStays ==
    ASSUME TypeInv, TypeInv', LineInv, Issues, UNCHANGED <<session, base, at, job, loc>>
    PROVE  LineInv'
<1>0. /\ service.accts \in Nat /\ service'.accts \in Nat /\ service.pairs \in Nat /\ service'.pairs \in Nat
      /\ store.acct \in Nat /\ \A d \in Client : session[d].acct \in Nat
    BY DEF TypeInv, StoreTypes, Accts, Pairs, Session
<1>1. StoreKept'
    BY <1>0 DEF LineInv, StoreKept, Issues, Tomb
<1>2. ASSUME NEW d \in Client PROVE ClientKept(d)'
    <2>1. ClientKept(d)
        BY DEF LineInv
    <2> QED
        BY <1>0, <2>1 DEF ClientKept, SavedLine, SameLine, Issues
<1>3. ASSUME NEW u \in Task PROVE CallKept(u)'
    BY OthersKept DEF SameOwn
<1>4. FreshPairs'
    BY <1>0 DEF LineInv, FreshPairs, Carries, Issues
<1> QED
    BY <1>1, <1>2, <1>3, <1>4 DEF LineInv

\* A refresh that has failed for good renews its session, or gives it up.
LEMMA BuryGoes ==
    ASSUME Apart, TypeInv, TypeInv', LockInv, LineInv, Issues, UNCHANGED <<session, base, job>>,
           NEW t \in Task, InRefresh(t), store.pair # None,
           NEW l \in Locals, l.root = Mine(t).origin, l.answer.kind = "acct" => l.answer.value <= service.accts,
           l.rec.acct <= service.accts, l.acct <= service.accts, Bury(t, l)
    PROVE  LineInv'
<1> DEFINE m == [l EXCEPT !.why = "bury", !.spend = Mine(t).pair]
<1>1. Moves(t, "lock", job[t], m)
    BY Moved DEF Bury
<1>2. m.why = "bury" /\ m.root = l.root /\ m.answer = l.answer /\ m.rec = l.rec /\ m.acct = l.acct
    BY DEF Locals
<1> HIDE DEF m
<1>3. at'[t] = "lock" /\ job'[t] = job[t] /\ loc'[t] = m /\ OthersStay(t)
    BY <1>1 DEF Moves, OthersStay
<1> QED
    BY <1>2, <1>3, RefreshGoes

LEMMA RenewGoes ==
    ASSUME Apart, TypeInv, TypeInv', LockInv, LineInv, Issues, UNCHANGED <<session, base, job>>,
           NEW t \in Task, InRefresh(t), store.pair # None,
           NEW l \in Locals, l.root = Mine(t).origin, l.answer.kind = "acct" => l.answer.value <= service.accts,
           l.rec.acct <= service.accts, l.acct <= service.accts, RenewOrBury(t, l)
    PROVE  LineInv'
<1>1. CASE Mine(t).acct = None
    BY <1>1, BuryGoes DEF RenewOrBury
<1>2. CASE Mine(t).acct # None
    <2> DEFINE m == [l EXCEPT !.acct = Mine(t).acct, !.acctRoot = Mine(t).origin]
    <2>1. Moves(t, "minting", job[t], m)
        BY <1>2, Moved DEF RenewOrBury
    <2>2. m.acct = Mine(t).acct /\ m.acctRoot = Mine(t).origin /\ m.root = l.root /\ m.answer = l.answer /\ m.rec = l.rec
        BY DEF Locals
    <2> HIDE DEF m
    <2>3. at'[t] = "minting" /\ job'[t] = job[t] /\ loc'[t] = m /\ OthersStay(t)
        BY <2>1 DEF Moves, OthersStay
    <2> QED
        BY <2>2, <2>3, RefreshGoes
<1> QED
    BY <1>1, <1>2

\* An answer of a service: what it issues is new, and what it refuses it does not accept.
Asks == {<<"refreshing", "refreshed">>, <<"minting", "minted">>, <<"rotating", "rotated">>, <<"login", "loggedin">>}

LEMMA AnswerGoes ==
    ASSUME Apart, TypeInv, TypeInv', LockInv, LineInv, Issues, UNCHANGED <<session, base, job>>,
           NEW t \in Task, OthersStay(t), <<at[t], at'[t]>> \in Asks,
           NEW a \in Answer, loc'[t] = [loc[t] EXCEPT !.answer = a],
           a.kind = "pair" => a.value = service.pairs + 1 /\ service'.pairs = service.pairs + 1,
           a.kind = "acct" => a.value <= service'.accts /\ (at[t] = "rotating" => loc[t].acct \in service.acctLive),
           a.kind = "refused" /\ at[t] = "minting" => loc[t].acct \notin service.acctLive
    PROVE  LineInv'
<1> DEFINE m == loc'[t]
<1>0. loc[t] \in Locals /\ ClientOf[t] \in Client /\ service.accts \in Nat /\ service'.accts \in Nat
    BY TokenAssumption DEF TypeInv, CallTypes, StoreTypes, Accts
<1>1. CallKept(t)
    BY DEF LineInv
<1>2. /\ m.answer = a /\ m.rec = loc[t].rec /\ m.acct = loc[t].acct /\ m.acctRoot = loc[t].acctRoot
      /\ m.root = loc[t].root /\ m.after = loc[t].after /\ m.why = loc[t].why
    BY <1>0 DEF Locals
<1>3. loc[t].acct \in Nat /\ loc[t].rec.acct \in Nat
    BY <1>0 DEF Locals, Accts, Session
<1>4. \/ at[t] = "refreshing" /\ at'[t] = "refreshed"
      \/ at[t] = "minting" /\ at'[t] = "minted"
      \/ at[t] = "rotating" /\ at'[t] = "rotated"
      \/ at[t] = "login" /\ at'[t] = "loggedin"
    BY DEF Asks
<1> HIDE DEF m
<1>5. Employed(t)'
    BY <1>1, <1>4 DEF CallKept, Employed, Refreshing
<1>6. AcctsKnown(t)'
    BY <1>0, <1>1, <1>2, <1>3 DEF CallKept, AcctsKnown, Issues, m
<1>7. CopyKept(t)'
    BY <1>4 DEF CopyKept
<1>8. BuildKept(t)'
    BY <1>1, <1>2, <1>4 DEF CallKept, BuildKept, Changing, Committing, Mine, m
<1>9. RefreshKept(t)'
    <2>1. loc[t].acct \in service'.acctLive => loc[t].acct \in service.acctLive
        BY <1>0, <1>1 DEF CallKept, AcctsKnown, Locals, Issues
    <2>2. CASE InRefresh(t)
        BY <1>1, <1>2, <1>4, <2>1, <2>2 DEF CallKept, RefreshKept, InRefresh, HasBuried, Mine, Issues, m
    <2>3. CASE ~InRefresh(t)
        BY <1>4, <2>3 DEF RefreshKept, InRefresh, Refreshing
    <2> QED
        BY <2>2, <2>3
<1>10. Carries(t)' => a.kind = "pair" /\ m.answer.value = a.value
    BY <1>2 DEF Carries, m
<1> QED
    BY <1>5, <1>6, <1>7, <1>8, <1>9, <1>10, LineGoes DEF CallKept, m
---------------------------------------------------------------------------------
\* Every step of such clients keeps the invariant, and the line of the saved session.
LEMMA LineStep ==
    Apart /\ Lasting /\ TypeInv /\ LockInv /\ LineInv /\ [Next]_vars => LineInv' /\ store'.origin >= store.origin
<1> SUFFICES ASSUME Apart, Lasting, TypeInv, LockInv, LineInv, [Next]_vars PROVE LineInv' /\ store'.origin >= store.origin
    OBVIOUS
<1>a. TypeInv'
    BY TypeStep
<1>b. /\ store \in Session /\ store.origin \in Nat /\ service.accts \in Nat /\ service.pairs \in Nat
      /\ service \in [pairs : Pairs, accts : Accts, live : SUBSET Pairs, acctLive : SUBSET Accts,
                      lapsed : SUBSET Pairs, outdated : SUBSET Pairs]
    BY DEF TypeInv, StoreTypes, Session, Accts, Pairs
<1>c. \A t \in Task : ClientOf[t] \in Client /\ loc[t] \in Locals /\ CallKept(t) /\ ClientKept(ClientOf[t])
                      /\ Mine(t) \in Session
    BY TokenAssumption DEF TypeInv, CallTypes, StoreTypes, LineInv, Mine
<1>d. UNCHANGED store => store'.origin >= store.origin
    BY <1>b
<1>e. StoreKept
    BY DEF LineInv
<1>f. UNCHANGED <<store, service>> /\ (UNCHANGED history \/ \E f \in {"spent", "received", "accts"} : \E x : history' = [history EXCEPT ![f] = x])
          => Issues
    BY NothingIssued
\* A call that has ended, sends its request, or has yet to look at the store.
<1>g. ASSUME NEW t \in Task, at'[t] \in Free, OthersStay(t), UNCHANGED <<store, session, base, service, history>>,
             Employed(t)',
             loc'[t] = loc[t] \/ (loc'[t].acct = 0 /\ loc'[t].rec.acct = 0 /\ loc'[t].answer.kind = "none")
      PROVE  LineInv'
    <2>1. AcctsKnown(t)'
        BY <1>b, <1>c, <1>g DEF CallKept, AcctsKnown
    <2> QED
        BY <1>a, <1>f, <1>g, <2>1, FreeKept, LineGoes
<1>h. ASSUME NEW t \in Task, End(t) \/ \E s, again : SendRequest(t, s, again), Issues, UNCHANGED <<session, base>>
      PROVE  LineInv'
    <2>1. OthersStay(t) /\ CallKept(t)' /\ ~Carries(t)'
        BY <1>a, <1>h, EndFree, SendFree
    <2> QED
        BY <1>a, <1>h, <2>1, LineGoes
\* A refresh that is past its look at the store.
<1>i. ASSUME NEW t \in Task, at[t] = "decide", MustRefresh(t)
      PROVE  InRefresh(t) /\ job[t] \in Requests /\ store.pair # None
    <2>1. InRefresh(t) /\ job[t] \in Requests
        BY <1>i DEF LockInv, JobFits, InRefresh, Refreshing, Requests
    <2>2. loc[t].rec.pair # None
        BY <1>c, <1>i DEF CallKept, CopyKept, Tomb, MustRefresh, StoredDead
    <2> QED
        BY <1>c, <1>i, <2>1, <2>2 DEF CallKept, CopyKept
<1>j. ASSUME NEW t \in Task, at[t] \in {"refreshing", "refreshed", "minting", "minted", "rotating", "rotated", "lock", "start", "write"},
             job[t] # "signin"
      PROVE  InRefresh(t) /\ job[t] \in Requests /\ store.pair # None /\ loc[t].root = Mine(t).origin
    <2>1. InRefresh(t) /\ job[t] \in Requests
        BY <1>c, <1>j DEF CallKept, Employed, InRefresh, Refreshing, Requests
    <2> QED
        BY <1>c, <1>j, <2>1 DEF CallKept, RefreshKept, HasBuried
<1>k. \A t \in Task : /\ loc[t].acct <= service.accts /\ loc[t].rec.acct <= service.accts
                      /\ Mine(t).acct <= service.accts
    BY <1>c DEF CallKept, AcctsKnown, ClientKept, Mine
<1>l. Empty \in Session /\ Empty.acct = 0 /\ \A t \in Task : Mine(t).acct \in Accts /\ Mine(t).origin \in Nat
    BY <1>c, TokenAssumption DEF Empty, Session, None, Pairs, Accts
<1>1. ASSUME NEW t \in Task, BeginCall(t) PROVE LineInv' /\ UNCHANGED store
    <2>0. ASSUME NEW kind \in {"load", "read", "command", "signin"}, NEW step \in {"loading", "login", "request", "gate"}, NEW l,
                 step = "loading" => kind = "load", kind \in Jobs[t],
                 Moves(t, step, kind, l), (l = loc[t]) \/ (l.acct = 0 /\ l.rec.acct = 0 /\ l.answer.kind = "none"),
                 UNCHANGED <<store, session, base, service, history>>
          PROVE  LineInv'
        <3>1. at'[t] = step /\ job'[t] = kind /\ loc'[t] = l /\ OthersStay(t)
            BY <2>0 DEF Moves, OthersStay
        <3>2. Employed(t)'
            BY <2>0, <3>1 DEF Employed, Refreshing
        <3> QED
            BY <1>g, <2>0, <3>1, <3>2 DEF Free
    <2>1. UNCHANGED loc => Keep(t, loc[t])
        BY DEF Keep, TypeInv, CallTypes
    <2>2. CASE BeginLoad(t)
        <3>1. Moves(t, "loading", "load", loc[t])
            BY <2>1, <2>2, Moved DEF BeginLoad, Go
        <3> QED
            BY <2>0, <2>2, <3>1 DEF BeginLoad, Begin, clientVars
    <2>3. CASE BeginSignIn(t)
        <3>1. Moves(t, "login", "signin", loc[t])
            BY <2>1, <2>3, Moved DEF BeginSignIn, Go
        <3> QED
            BY <2>0, <2>3, <3>1 DEF BeginSignIn, Begin, clientVars
    <2>4. CASE BeginRequest(t)
        <3>1. PICK kind \in {"read", "command"} : kind \in Jobs[t] /\ job' = [job EXCEPT ![t] = kind]
            BY <2>4 DEF BeginRequest, Begin
        <3>2. UNCHANGED <<store, session, base, service, history>>
            BY <2>4 DEF BeginRequest, clientVars
        <3>3. CASE at' = [at EXCEPT ![t] = "request"] /\ Keep(t, [Blank EXCEPT !.used = Mine(t).pair])
            <4> DEFINE l == [Blank EXCEPT !.used = Mine(t).pair]
            <4>1. Moves(t, "request", kind, l)
                BY <3>1, <3>3, Moved
            <4>2. l.acct = 0 /\ l.rec.acct = 0 /\ l.answer.kind = "none"
                BY DEF Blank, Empty, None, Answered
            <4> HIDE DEF l
            <4> QED
                BY <2>0, <3>1, <3>2, <4>1, <4>2
        <3>4. CASE at' = [at EXCEPT ![t] = "gate"] /\ Keep(t, loc[t])
            <4>1. Moves(t, "gate", kind, loc[t])
                BY <3>1, <3>4, Moved
            <4> QED
                BY <2>0, <3>1, <3>2, <4>1
        <3> QED
            BY <2>1, <2>4, <3>3, <3>4 DEF BeginRequest, Go
    <2>5. ~BeginAlarms(t)
        BY DEF BeginAlarms, Lasting
    <2>6. UNCHANGED store
        BY <1>1, <2>5 DEF BeginCall, BeginLoad, BeginSignIn, BeginRequest
    <2> QED
        BY <1>1, <2>2, <2>3, <2>4, <2>5, <2>6 DEF BeginCall
<1>2. ASSUME NEW t \in Task, ReadStore(t) PROVE LineInv' /\ UNCHANGED store
    <2> DEFINE l == [loc[t] EXCEPT !.rec = store]
    <2>0. UNCHANGED <<store, session, base, job, service, history>>
        BY <1>2 DEF ReadStore, clientVars
    <2>1. PICK step \in {"install", "decide"} :
              /\ at' = [at EXCEPT ![t] = step] /\ Keep(t, l)
              /\ at[t] = (IF step = "install" THEN "loading" ELSE "gated")
        BY <1>2 DEF ReadStore, Go
    <2>2. Moves(t, step, job[t], l)
        BY <2>0, <2>1, Moved
    <2>3. l.rec = store /\ l.acct = loc[t].acct /\ l.answer = loc[t].answer
        BY <1>c DEF Locals
    <2> HIDE DEF l
    <2>4. at'[t] = step /\ job'[t] = job[t] /\ loc'[t] = l /\ OthersStay(t)
        BY <2>2 DEF Moves, OthersStay
    <2>5. Employed(t)' /\ AcctsKnown(t)' /\ ~Carries(t)'
        BY <1>c, <1>e, <2>0, <2>1, <2>3, <2>4 DEF CallKept, Employed, AcctsKnown, StoreKept, Carries, Refreshing
    <2>6. CopyKept(t)'
        BY <1>e, <2>0, <2>3, <2>4 DEF CopyKept, SavedLine, SameLine, StoreKept, Tomb
    <2>7. BuildKept(t)' /\ RefreshKept(t)'
        BY <2>4 DEF BuildKept, RefreshKept, InRefresh, Refreshing, Changing, Committing
    <2> QED
        BY <1>a, <1>f, <2>0, <2>4, <2>5, <2>6, <2>7, LineGoes DEF CallKept
<1>3. ASSUME NEW t \in Task, ReadFails(t) \/ RequestAnswered(t) \/ GateFindsDead(t) \/ FindDead(t) \/ SkipRefresh(t)
      PROVE  LineInv' /\ UNCHANGED store
    <2>1. /\ UNCHANGED <<store, session, base, service, history>>
          /\ End(t) \/ \E s, again : SendRequest(t, s, again)
        BY <1>3 DEF ReadFails, RequestAnswered, GateFindsDead, FindDead, SkipRefresh, clientVars
    <2> QED
        BY <1>f, <1>h, <2>1
<1>4. ASSUME NEW t \in Task, InstallLoaded(t) \/ AdoptStored(t) PROVE LineInv' /\ UNCHANGED store
    <2>1. /\ UNCHANGED <<store, service, history>> /\ at[t] \in {"install", "decide"}
          /\ Install(ClientOf[t], loc[t].rec)
          /\ End(t) \/ \E s, again : SendRequest(t, s, again)
        BY <1>4 DEF InstallLoaded, AdoptStored
    <2>2. loc[t].rec \in Session /\ SavedLine(loc[t].rec.pair, loc[t].rec.origin)
        BY <1>c, <2>1 DEF CallKept, CopyKept, Locals
    <2>3. /\ ClientKept(ClientOf[t])'
          /\ \A d \in Client \ {ClientOf[t]} : base'[d] = base[d] /\ session'[d] = session[d]
        BY <1>a, <1>c, <1>f, <1>k, <2>1, <2>2, InstallKept
    <2>4. OthersStay(t) /\ CallKept(t)' /\ ~Carries(t)'
        BY <1>a, <2>1, EndFree, SendFree
    <2>5. at[t] \in Refreshing \cup {"install", "loggedin"}
        BY <2>1 DEF Refreshing
    <2> QED
        BY <1>a, <1>f, <2>1, <2>3, <2>4, <2>5, LineMove
<1>5. ASSUME NEW t \in Task, ServiceRejects(t) \/ TakeGate(t) PROVE LineInv' /\ UNCHANGED store
    <2>0. UNCHANGED <<store, session, base, job, loc, service, history>>
        BY <1>5 DEF ServiceRejects, TakeGate, clientVars
    <2>1. PICK step \in {"rejected", "gated"} : at' = [at EXCEPT ![t] = step] /\ at[t] = (IF step = "rejected" THEN "request" ELSE "gate")
        BY <1>5 DEF ServiceRejects, TakeGate, Go
    <2>2. Keep(t, loc[t])
        BY <2>0 DEF Keep, TypeInv, CallTypes
    <2>3. Moves(t, step, job[t], loc[t])
        BY <2>0, <2>1, <2>2, Moved
    <2>4. at'[t] = step /\ job'[t] = job[t] /\ loc'[t] = loc[t] /\ OthersStay(t)
        BY <2>3 DEF Moves, OthersStay
    <2>5. Employed(t)'
        <3>1. step = "gated" => job[t] \in Requests
            BY <2>1 DEF LockInv, JobFits, Requests
        <3> QED
            BY <1>c, <2>4, <3>1 DEF CallKept, Employed, Refreshing
    <2> QED
        BY <1>g, <2>0, <2>4, <2>5 DEF Free
<1>6. ASSUME NEW t \in Task, ReadRejected(t) PROVE LineInv' /\ UNCHANGED store
    <2>0. UNCHANGED <<store, session, base, service, history>>
        BY <1>6 DEF ReadRejected, clientVars
    <2>1. CASE End(t)
        BY <1>f, <1>h, <2>0, <2>1
    <2>2. CASE /\ at' = [at EXCEPT ![t] = "gate"]
               /\ Keep(t, [Blank EXCEPT !.stale = loc[t].used])
               /\ UNCHANGED <<gate, job>>
        <3> DEFINE l == [Blank EXCEPT !.stale = loc[t].used]
        <3>1. Moves(t, "gate", job[t], l)
            BY <2>2, Moved
        <3>2. l.acct = 0 /\ l.rec.acct = 0 /\ l.answer.kind = "none"
            BY DEF Blank, Empty, None, Answered
        <3> HIDE DEF l
        <3>3. at'[t] = "gate" /\ job'[t] = job[t] /\ loc'[t] = l /\ OthersStay(t)
            BY <3>1 DEF Moves, OthersStay
        <3>4. Employed(t)'
            BY <1>c, <3>3 DEF CallKept, Employed, Refreshing
        <3> QED
            BY <1>g, <2>0, <3>2, <3>3, <3>4 DEF Free
    <2> QED
        BY <1>6, <2>0, <2>1, <2>2 DEF ReadRejected, Go
<1>7. ASSUME NEW t \in Task, CommandRejected(t) PROVE LineInv' /\ UNCHANGED store
    <2> DEFINE c == ClientOf[t]
    <2>0. UNCHANGED <<store, base, service, history>> /\ End(t)
        BY <1>7 DEF CommandRejected
    <2>1. /\ \A d \in Client \ {c} : session'[d] = session[d]
          /\ \A f \in {"pair", "acct", "origin"} : session'[c][f] = session[c][f]
        BY <1>7, <1>c DEF CommandRejected, TypeInv, StoreTypes, Session
    <2>2. OthersStay(t) /\ CallKept(t)' /\ ~Carries(t)'
        BY <1>a, <2>0, EndFree
    <2>3. SameOwn(c)
        BY <2>0, <2>1 DEF SameOwn
    <2>4. ClientKept(c)'
        BY <1>c, <2>0, <2>1 DEF ClientKept, SavedLine, SameLine
    <2> QED
        BY <1>a, <1>f, <2>0, <2>1, <2>2, <2>3, <2>4, LineMove
<1>8. ASSUME NEW t \in Task, SpendToken(t) PROVE LineInv' /\ UNCHANGED store
    <2> DEFINE l == [loc[t] EXCEPT !.rec = Empty, !.spend = Mine(t).pair, !.root = Mine(t).origin]
    <2>0. UNCHANGED <<store, session, base, job, service, history>> /\ at[t] = "decide" /\ MustRefresh(t)
        BY <1>8 DEF SpendToken, Go, clientVars
    <2>1. Moves(t, "refreshing", job[t], l)
        BY <1>8, <2>0, Moved DEF SpendToken, Go
    <2>2. l.root = Mine(t).origin /\ l.rec.acct = 0 /\ l.acct = loc[t].acct /\ l.answer = loc[t].answer
        BY <1>c DEF Locals, Empty, None
    <2> HIDE DEF l
    <2>3. at'[t] = "refreshing" /\ job'[t] = job[t] /\ loc'[t] = l /\ OthersStay(t)
        BY <2>1 DEF Moves, OthersStay
    <2>4. job[t] \in Requests /\ store.pair # None
        BY <1>i, <2>0
    <2>5. Employed(t)' /\ AcctsKnown(t)' /\ ~Carries(t)'
        BY <1>b, <1>c, <2>0, <2>2, <2>3, <2>4 DEF CallKept, Employed, AcctsKnown, Carries
    <2>6. CopyKept(t)' /\ BuildKept(t)'
        BY <2>3 DEF CopyKept, BuildKept, Changing, Committing
    <2>7. RefreshKept(t)'
        BY <2>0, <2>2, <2>3, <2>4 DEF RefreshKept, Mine
    <2> QED
        BY <1>a, <1>f, <2>0, <2>3, <2>5, <2>6, <2>7, LineGoes DEF CallKept
<1>9. ASSUME NEW t \in Task, NoRefreshToken(t) PROVE LineInv' /\ UNCHANGED store
    <2> DEFINE l == [loc[t] EXCEPT !.rec = Empty, !.root = Mine(t).origin]
    <2>0. UNCHANGED <<store, session, base, job, service, history>> /\ at[t] = "decide" /\ MustRefresh(t)
        BY <1>9 DEF NoRefreshToken, clientVars
    <2>1. RenewOrBury(t, l)
        BY <1>9 DEF NoRefreshToken
    <2>2. /\ l \in Locals /\ l.root = Mine(t).origin /\ l.rec.acct = 0
          /\ l.acct = loc[t].acct /\ l.answer = loc[t].answer
        BY <1>c, <1>l DEF Locals
    <2> HIDE DEF l
    <2>3. InRefresh(t) /\ store.pair # None
        BY <1>i, <2>0
    <2>4. l.answer.kind = "acct" => l.answer.value <= service.accts
        BY <1>c, <2>2 DEF CallKept, AcctsKnown
    <2> QED
        BY <1>a, <1>b, <1>f, <1>k, <2>0, <2>1, <2>2, <2>3, <2>4, RenewGoes
<1>10. ASSUME NEW t \in Task, RefreshAnswered(t) PROVE LineInv' /\ UNCHANGED store
    <2>0. /\ UNCHANGED <<store, session, base, service>> /\ at[t] = "refreshed"
          /\ UNCHANGED history \/ \E x : history' = [history EXCEPT !.received = x]
        BY <1>10 DEF RefreshAnswered, clientVars
    <2>1. Issues
        BY <1>f, <2>0
    <2>2. job[t] # "signin"
        BY <2>0 DEF LockInv, JobFits
    <2>3. InRefresh(t) /\ job[t] \in Requests /\ store.pair # None /\ loc[t].root = Mine(t).origin
        BY <1>j, <2>0, <2>2
    <2>4. CASE End(t)
        BY <1>h, <2>0, <2>1, <2>4
    <2>5. CASE UNCHANGED job /\ RenewOrBury(t, [loc[t] EXCEPT !.answer = Answered("none", 0)])
        <3> DEFINE l == [loc[t] EXCEPT !.answer = Answered("none", 0)]
        <3>1. /\ l \in Locals /\ l.root = loc[t].root /\ l.rec = loc[t].rec /\ l.acct = loc[t].acct
              /\ l.answer.kind = "none"
            BY <1>c DEF Locals, Answered, Answer
        <3> HIDE DEF l
        <3> QED
            BY <1>a, <1>k, <2>0, <2>1, <2>3, <2>5, <3>1, RenewGoes DEF l
    <2>6. CASE /\ loc[t].answer.kind = "pair"
               /\ at' = [at EXCEPT ![t] = "lock"]
               /\ Keep(t, [loc[t] EXCEPT !.why = "refresh"])
               /\ UNCHANGED <<gate, job>>
        <3> DEFINE l == [loc[t] EXCEPT !.why = "refresh"]
        <3>1. Moves(t, "lock", job[t], l)
            BY <2>6, Moved
        <3>2. /\ l.why = "refresh" /\ l.root = loc[t].root /\ l.rec = loc[t].rec /\ l.acct = loc[t].acct
              /\ l.answer = loc[t].answer
            BY <1>c DEF Locals
        <3> HIDE DEF l
        <3>3. at'[t] = "lock" /\ job'[t] = job[t] /\ loc'[t] = l /\ OthersStay(t)
            BY <3>1 DEF Moves, OthersStay
        <3>4. Employed(t)' /\ AcctsKnown(t)' /\ CopyKept(t)'
            BY <1>c, <2>0, <2>3, <3>2, <3>3 DEF CallKept, Employed, AcctsKnown, CopyKept
        <3>5. BuildKept(t)'
            BY <2>2, <3>2, <3>3 DEF BuildKept
        <3>6. RefreshKept(t)'
            BY <2>0, <2>3, <3>2, <3>3 DEF RefreshKept, Mine
        <3>7. Carries(t)
            BY <2>0, <2>6 DEF Carries
        <3> QED
            BY <1>a, <2>0, <2>1, <3>2, <3>3, <3>4, <3>5, <3>6, <3>7, LineGoes DEF CallKept
    <2> QED
        BY <1>10, <2>0, <2>4, <2>5, <2>6 DEF RefreshAnswered
<1>11. ASSUME NEW t \in Task, LoginAnswered(t) PROVE LineInv' /\ UNCHANGED store
    <2> DEFINE c == ClientOf[t]
               n == loc[t].answer.value
               l == [Blank EXCEPT !.acct = n]
    <2>0. UNCHANGED <<store, base, service, history>> /\ at[t] = "loggedin"
        BY <1>11 DEF LoginAnswered
    <2>1. CASE End(t) /\ UNCHANGED session
        BY <1>f, <1>h, <2>0, <2>1
    <2>2. CASE /\ loc[t].answer.kind = "acct"
               /\ session' = [session EXCEPT ![c].acct = n]
               /\ at' = [at EXCEPT ![t] = "minting"]
               /\ Keep(t, l)
               /\ UNCHANGED <<gate, job>>
        <3>1. Moves(t, "minting", job[t], l)
            BY <2>2, Moved
        <3>2. n <= service.accts
            BY <1>c, <2>2 DEF CallKept, AcctsKnown
        <3>3. l.acct = n /\ l.rec.acct = 0 /\ l.answer.kind = "none"
            BY DEF Blank, Empty, None, Answered
        <3>4. /\ \A d \in Client \ {c} : session'[d] = session[d]
              /\ session'[c].pair = session[c].pair /\ session'[c].origin = session[c].origin /\ session'[c].acct = n
            BY <1>c, <2>2 DEF TypeInv, StoreTypes, Session
        <3> HIDE DEF l, n
        <3>5. at'[t] = "minting" /\ job'[t] = job[t] /\ loc'[t] = l /\ OthersStay(t)
            BY <3>1 DEF Moves, OthersStay
        <3>6. job[t] = "signin" /\ job[t] \in Jobs[t]
            BY <1>c, <2>0 DEF LockInv, JobFits, CallKept, Employed
        <3>7. CallKept(t)'
            BY <1>b, <2>0, <3>2, <3>3, <3>5, <3>6
               DEF CallKept, Employed, AcctsKnown, CopyKept, BuildKept, RefreshKept, InRefresh, Changing, Committing, Requests
        <3>8. ClientKept(c)'
            BY <1>c, <2>0, <3>2, <3>4 DEF ClientKept, SavedLine, SameLine
        <3>9. ~Carries(t)'
            BY <3>5 DEF Carries
        <3> QED
            BY <1>a, <1>f, <2>0, <3>4, <3>5, <3>7, <3>8, <3>9, LineMove
    <2> QED
        BY <1>11, <2>0, <2>1, <2>2 DEF LoginAnswered
<1>12. ASSUME NEW t \in Task, MintAnswered(t) PROVE LineInv' /\ UNCHANGED store
    <2> DEFINE none == [loc[t] EXCEPT !.answer = Answered("none", 0)]
    <2>0. UNCHANGED <<store, session, base, service, history>> /\ at[t] = "minted"
        BY <1>12 DEF MintAnswered
    <2>1. Issues
        BY <1>f, <2>0
    <2>2. CASE End(t)
        BY <1>h, <2>0, <2>1, <2>2
    <2>3. /\ none \in Locals /\ none.root = loc[t].root /\ none.rec = loc[t].rec /\ none.acct = loc[t].acct
          /\ none.answer.kind = "none"
        BY <1>c DEF Locals, Answered, Answer
    <2> HIDE DEF none
    <2>4. ASSUME job[t] # "signin"
          PROVE  InRefresh(t) /\ job[t] \in Requests /\ store.pair # None /\ loc[t].root = Mine(t).origin
        BY <1>j, <2>0, <2>4
    <2>5. CASE UNCHANGED job /\ job[t] # "signin" /\ Bury(t, none)
        BY <1>a, <1>k, <2>0, <2>1, <2>3, <2>4, <2>5, BuryGoes
    <2>6. CASE /\ job[t] # "signin" /\ loc[t].answer.kind = "refused"
               /\ RefreshAccount(t, none, "renew") /\ UNCHANGED <<gate, job>>
        <3> DEFINE l == [none EXCEPT !.acct = Mine(t).acct, !.after = "renew"]
        <3>1. Moves(t, "rotating", job[t], l)
            BY <2>6, Moved DEF RefreshAccount
        <3>2. /\ l.acct = Mine(t).acct /\ l.after = "renew" /\ l.root = none.root /\ l.rec = none.rec
              /\ l.answer = none.answer
            BY <2>3 DEF Locals
        <3> HIDE DEF l
        <3>3. at'[t] = "rotating" /\ job'[t] = job[t] /\ loc'[t] = l /\ OthersStay(t)
            BY <3>1 DEF Moves, OthersStay
        <3>4. Mine(t).acct = loc[t].acct /\ loc[t].acct \notin service.acctLive
            BY <1>c, <2>0, <2>4, <2>6 DEF CallKept, RefreshKept
        <3> QED
            BY <1>a, <1>k, <2>0, <2>1, <2>3, <2>4, <2>6, <3>2, <3>3, <3>4, RefreshGoes
    <2>7. CASE /\ loc[t].answer.kind = "pair"
               /\ at' = [at EXCEPT ![t] = "lock"]
               /\ Keep(t, [loc[t] EXCEPT !.why = "mint"])
               /\ UNCHANGED <<gate, job>>
        <3> DEFINE l == [loc[t] EXCEPT !.why = "mint"]
        <3>1. Moves(t, "lock", job[t], l)
            BY <2>7, Moved
        <3>2. /\ l.why = "mint" /\ l.root = loc[t].root /\ l.rec = loc[t].rec /\ l.acct = loc[t].acct
              /\ l.answer = loc[t].answer /\ l.acctRoot = loc[t].acctRoot
            BY <1>c DEF Locals
        <3> HIDE DEF l
        <3>3. at'[t] = "lock" /\ job'[t] = job[t] /\ loc'[t] = l /\ OthersStay(t)
            BY <3>1 DEF Moves, OthersStay
        <3>4. Employed(t)' /\ AcctsKnown(t)' /\ CopyKept(t)'
            BY <1>c, <2>0, <3>2, <3>3 DEF CallKept, Employed, AcctsKnown, CopyKept, Refreshing
        <3>5. BuildKept(t)'
            BY <3>2, <3>3 DEF BuildKept
        <3>6. RefreshKept(t)'
            BY <1>c, <2>0, <3>2, <3>3 DEF CallKept, RefreshKept, InRefresh, Refreshing, HasBuried, Mine
        <3>7. Carries(t)
            BY <2>0, <2>7 DEF Carries
        <3> QED
            BY <1>a, <2>0, <2>1, <3>2, <3>3, <3>4, <3>5, <3>6, <3>7, LineGoes DEF CallKept
    <2> QED
        BY <1>12, <2>0, <2>2, <2>5, <2>6, <2>7 DEF MintAnswered, none
<1>13. ASSUME NEW t \in Task, AccountAnswered(t) PROVE LineInv' /\ UNCHANGED store
    <2> DEFINE none == [loc[t] EXCEPT !.answer = Answered("none", 0)]
    <2>0. /\ UNCHANGED <<store, session, base, service>> /\ at[t] = "rotated"
          /\ UNCHANGED history \/ \E x : history' = [history EXCEPT !.accts = x]
        BY <1>13 DEF AccountAnswered, clientVars
    <2>1. Issues
        BY <1>f, <2>0
    <2>2. CASE End(t) \/ \E s, again : SendRequest(t, s, again)
        BY <1>h, <2>0, <2>1, <2>2
    <2>3. CASE Established(t, Mine(t))
        BY <2>2, <2>3 DEF Established
    <2>4. /\ none \in Locals /\ none.root = loc[t].root /\ none.rec = loc[t].rec /\ none.acct = loc[t].acct
          /\ none.answer.kind = "none"
        BY <1>c DEF Locals, Answered, Answer
    <2> HIDE DEF none
    <2>5. CASE loc[t].after = "renew" /\ UNCHANGED job /\ Bury(t, none)
        <3>1. job[t] # "signin"
            BY <1>c, <2>0, <2>5 DEF CallKept, BuildKept
        <3>2. InRefresh(t) /\ store.pair # None /\ loc[t].root = Mine(t).origin
            BY <1>j, <2>0, <3>1
        <3> QED
            BY <1>a, <1>k, <2>0, <2>1, <2>4, <2>5, <3>2, BuryGoes
    <2>6. CASE /\ loc[t].answer.kind = "acct"
               /\ at' = [at EXCEPT ![t] = "lock"]
               /\ Keep(t, [loc[t] EXCEPT !.why = "account"])
               /\ UNCHANGED <<gate, job>>
        <3> DEFINE l == [loc[t] EXCEPT !.why = "account"]
        <3>1. Moves(t, "lock", job[t], l)
            BY <2>6, Moved
        <3>2. /\ l.why = "account" /\ l.root = loc[t].root /\ l.rec = loc[t].rec /\ l.acct = loc[t].acct
              /\ l.answer = loc[t].answer /\ l.after = loc[t].after
            BY <1>c DEF Locals
        <3> HIDE DEF l
        <3>3. at'[t] = "lock" /\ job'[t] = job[t] /\ loc'[t] = l /\ OthersStay(t)
            BY <3>1 DEF Moves, OthersStay
        <3>4. Employed(t)' /\ AcctsKnown(t)' /\ CopyKept(t)' /\ ~Carries(t)'
            BY <1>c, <2>0, <2>6, <3>2, <3>3 DEF CallKept, Employed, AcctsKnown, CopyKept, Carries, Refreshing
        <3>5. BuildKept(t)'
            <4>1. loc[t].after = "renew" /\ job[t] # "signin" => FALSE
                BY <1>c, <1>j, <2>0, <2>6 DEF CallKept, RefreshKept
            <4>2. loc[t].after = "establish" /\ Mine(t).pair = base[ClientOf[t]] /\ base[ClientOf[t]] # None
                BY <1>c, <2>0, <4>1 DEF CallKept, BuildKept
            <4>3. Mine(t)' = Mine(t) /\ base'[ClientOf[t]] = base[ClientOf[t]]
                BY <2>0 DEF Mine
            <4> HIDE DEF Mine
            <4> QED
                BY <3>2, <3>3, <4>2, <4>3 DEF BuildKept
        <3>6. RefreshKept(t)'
            BY <1>c, <2>0, <3>2, <3>3 DEF CallKept, RefreshKept, InRefresh, Refreshing, HasBuried, Mine
        <3> QED
            BY <1>a, <2>0, <2>1, <3>3, <3>4, <3>5, <3>6, LineGoes DEF CallKept
    <2> QED
        BY <1>13, <2>0, <2>2, <2>3, <2>5, <2>6 DEF AccountAnswered, none
\* An answer of a service.
<1>m. ASSUME NEW t \in Task, NEW from, NEW to, <<from, to>> \in Asks, Go(t, from, to), NEW a \in Answer,
             Keep(t, [loc[t] EXCEPT !.answer = a]), UNCHANGED <<session, base, job>>, Issues,
             \/ a.kind \in {"failed", "spent"}
             \/ a.kind = "refused" /\ (from = "minting" => loc[t].acct \notin service.acctLive)
             \/ a.kind = "pair" /\ a.value = service.pairs + 1 /\ service'.pairs = service.pairs + 1
             \/ /\ a.kind = "acct" /\ a.value <= service'.accts
                /\ from = "rotating" => loc[t].acct \in service.acctLive
      PROVE  LineInv'
    <2>1. Moves(t, to, job[t], [loc[t] EXCEPT !.answer = a])
        BY <1>m, Moved DEF Go
    <2>2. at[t] = from /\ at'[t] = to /\ loc'[t] = [loc[t] EXCEPT !.answer = a] /\ OthersStay(t)
        BY <1>m, <2>1 DEF Moves, OthersStay, Go
    <2> QED
        BY <1>a, <1>m, <2>2, AnswerGoes
<1>n. /\ \A k \in {"pair", "acct", "spent", "refused", "failed"}, v \in Nat :
             Answered(k, v) \in Answer /\ Answered(k, v).kind = k /\ Answered(k, v).value = v
      /\ service.pairs + 1 \in Nat /\ service.accts + 1 \in Nat /\ "saved" \in DOMAIN history
    BY <1>b, <1>e DEF Answered, Answer, StoreKept
<1>14. ASSUME NEW t \in Task, ServiceRefresh(t) PROVE LineInv' /\ UNCHANGED store
    <2> DEFINE n == service.pairs + 1
    <2>0. UNCHANGED <<store, session, base, job>> /\ <<"refreshing", "refreshed">> \in Asks
        BY <1>14 DEF ServiceRefresh, Untouched, clientVars, Asks
    <2>1. CASE /\ Reply(t, "refreshing", "refreshed", "pair", n)
               /\ service' = [service EXCEPT !.pairs = n, !.live = (@ \ {loc[t].spend}) \cup {n}]
               /\ history' = [history EXCEPT !.spent = @ \cup {loc[t].spend}]
        <3>1. service'.pairs = n /\ service'.accts = service.accts /\ service'.acctLive = service.acctLive
            BY <1>b, <2>1
        <3>2. Issues
            BY <1>b, <1>n, <2>0, <2>1, <3>1 DEF Issues
        <3>3. PICK a \in {Answered("pair", n), Answered("failed", 0)} : Keep(t, [loc[t] EXCEPT !.answer = a])
            BY <2>1 DEF Reply
        <3>4. Go(t, "refreshing", "refreshed")
            BY <2>1 DEF Reply
        <3> QED
            BY <1>m, <1>n, <2>0, <3>1, <3>2, <3>3, <3>4
    <2>2. CASE UNCHANGED <<service, history>> /\ \E k \in {"spent", "failed"} : Refuse(t, "refreshing", "refreshed", k)
        <3>1. PICK k \in {"spent", "failed"} : Go(t, "refreshing", "refreshed") /\ Keep(t, [loc[t] EXCEPT !.answer = Answered(k, 0)])
            BY <2>2 DEF Refuse
        <3> QED
            BY <1>f, <1>m, <1>n, <2>0, <2>2, <3>1
    <2> QED
        BY <1>14, <2>0, <2>1, <2>2 DEF ServiceRefresh
<1>15. ASSUME NEW t \in Task, ServiceMint(t) PROVE LineInv' /\ UNCHANGED store
    <2> DEFINE n == service.pairs + 1
    <2>0. UNCHANGED <<store, session, base, job, history>> /\ <<"minting", "minted">> \in Asks
        BY <1>15 DEF ServiceMint, Untouched, clientVars, Asks
    <2>1. CASE /\ Reply(t, "minting", "minted", "pair", n)
               /\ service' = [service EXCEPT !.pairs = n, !.live = @ \cup {n}]
        <3>1. service'.pairs = n /\ service'.accts = service.accts /\ service'.acctLive = service.acctLive
            BY <1>b, <2>1
        <3>2. Issues
            BY <1>b, <1>n, <2>0, <3>1 DEF Issues
        <3>3. PICK a \in {Answered("pair", n), Answered("failed", 0)} : Keep(t, [loc[t] EXCEPT !.answer = a])
            BY <2>1 DEF Reply
        <3>4. Go(t, "minting", "minted")
            BY <2>1 DEF Reply
        <3> QED
            BY <1>m, <1>n, <2>0, <3>1, <3>2, <3>3, <3>4
    <2>2. CASE /\ UNCHANGED service
               /\ \E k \in {"refused", "failed"} :
                      /\ Refuse(t, "minting", "minted", k)
                      /\ k = "refused" => loc[t].acct \notin service.acctLive
        <3>1. PICK k \in {"refused", "failed"} : /\ Go(t, "minting", "minted") /\ Keep(t, [loc[t] EXCEPT !.answer = Answered(k, 0)])
                                                 /\ k = "refused" => loc[t].acct \notin service.acctLive
            BY <2>2 DEF Refuse
        <3> QED
            BY <1>f, <1>m, <1>n, <2>0, <2>2, <3>1
    <2> QED
        BY <1>15, <2>0, <2>1, <2>2 DEF ServiceMint, Lasting
<1>16. ASSUME NEW t \in Task, ServiceAccount(t) PROVE LineInv' /\ UNCHANGED store
    <2> DEFINE n == service.accts + 1
    <2>0. UNCHANGED <<store, session, base, job, history>> /\ <<"rotating", "rotated">> \in Asks
        BY <1>16 DEF ServiceAccount, Untouched, clientVars, Asks
    <2>1. CASE /\ loc[t].acct \in service.acctLive
               /\ Reply(t, "rotating", "rotated", "acct", n)
               /\ service' = [service EXCEPT !.accts = n, !.acctLive = (@ \ {loc[t].acct}) \cup {n}]
        <3>1. service'.pairs = service.pairs /\ service'.accts = n /\ service'.acctLive \subseteq service.acctLive \cup {n}
            BY <1>b, <2>1
        <3>2. Issues
            BY <1>b, <1>n, <2>0, <3>1 DEF Issues, Accts
        <3>3. PICK a \in {Answered("acct", n), Answered("failed", 0)} : Keep(t, [loc[t] EXCEPT !.answer = a])
            BY <2>1 DEF Reply
        <3>4. Go(t, "rotating", "rotated")
            BY <2>1 DEF Reply
        <3> QED
            BY <1>m, <1>n, <2>0, <2>1, <3>1, <3>2, <3>3, <3>4
    <2>2. CASE UNCHANGED service /\ \E k \in {"refused", "failed"} : Refuse(t, "rotating", "rotated", k)
        <3>1. PICK k \in {"refused", "failed"} : Go(t, "rotating", "rotated") /\ Keep(t, [loc[t] EXCEPT !.answer = Answered(k, 0)])
            BY <2>2 DEF Refuse
        <3> QED
            BY <1>f, <1>m, <1>n, <2>0, <2>2, <3>1
    <2> QED
        BY <1>16, <2>0, <2>1, <2>2 DEF ServiceAccount
<1>17. ASSUME NEW t \in Task, ServiceLogin(t) PROVE LineInv' /\ UNCHANGED store
    <2> DEFINE n == service.accts + 1
    <2>0. UNCHANGED <<store, session, base, job, history>> /\ <<"login", "loggedin">> \in Asks
        BY <1>17 DEF ServiceLogin, Untouched, clientVars, Asks
    <2>1. CASE /\ Reply(t, "login", "loggedin", "acct", n)
               /\ service' = [service EXCEPT !.accts = n, !.acctLive = @ \cup {n}]
        <3>1. service'.pairs = service.pairs /\ service'.accts = n /\ service'.acctLive \subseteq service.acctLive \cup {n}
            BY <1>b, <2>1
        <3>2. Issues
            BY <1>b, <1>n, <2>0, <3>1 DEF Issues, Accts
        <3>3. PICK a \in {Answered("acct", n), Answered("failed", 0)} : Keep(t, [loc[t] EXCEPT !.answer = a])
            BY <2>1 DEF Reply
        <3>4. Go(t, "login", "loggedin")
            BY <2>1 DEF Reply
        <3> QED
            BY <1>m, <1>n, <2>0, <3>1, <3>2, <3>3, <3>4
    <2>2. CASE UNCHANGED service /\ Refuse(t, "login", "loggedin", "failed")
        <3>1. Go(t, "login", "loggedin") /\ Keep(t, [loc[t] EXCEPT !.answer = Answered("failed", 0)])
            BY <2>2 DEF Refuse
        <3> QED
            BY <1>f, <1>m, <1>n, <2>0, <2>2, <3>1
    <2> QED
        BY <1>17, <2>0, <2>1, <2>2 DEF ServiceLogin
\* The change of a session.
<1>18. ASSUME NEW t \in Task, TakeChanging(t) PROVE LineInv' /\ UNCHANGED store
    <2> DEFINE s == Built(t, Mine(t))
               l == [loc[t] EXCEPT !.rec = s]
               n == loc[t].answer.value
    <2>0. UNCHANGED <<store, session, base, job, service, history>> /\ at[t] = "lock"
        BY <1>18 DEF TakeChanging, Go, clientVars
    <2>1. Moves(t, "start", job[t], l)
        BY <1>18, <2>0, Moved DEF TakeChanging, Go
    <2>2. at[t] \in Refreshing /\ at[t] \in Changing
        BY <2>0 DEF Refreshing, Changing, Committing
    <2>3. /\ loc[t].why # "none"
          /\ loc[t].why = "account" => /\ loc[t].after = "establish" /\ Mine(t).pair = base[ClientOf[t]]
                                       /\ base[ClientOf[t]] # None /\ loc[t].answer.kind = "acct"
          /\ job[t] = "signin" => loc[t].why \in {"mint", "account"}
          /\ loc[t].why \in {"refresh", "mint"} => loc[t].answer.kind = "pair"
        BY <1>c, <2>2 DEF CallKept, BuildKept, TypeInv, CallTypes, WhyFits
    <2>4. loc[t].why \in {"refresh", "bury", "mint", "account"}
        BY <1>c, <2>3 DEF Locals
    <2>5. job[t] # "signin" =>
              /\ loc[t].root = Mine(t).origin /\ store.pair # None
              /\ loc[t].why = "mint" => loc[t].acctRoot = Mine(t).origin
        BY <1>c, <1>j, <2>0 DEF CallKept, RefreshKept
    <2>6. loc[t].why \in {"refresh", "mint"} => Carries(t) /\ n \in 1..service.pairs
        BY <2>0, <2>3 DEF Carries, LineInv, FreshPairs
    <2>7. /\ s.acct \in {Mine(t).acct} \cup (IF loc[t].why = "account" THEN {n} ELSE {})
          /\ loc[t].why \in {"refresh", "mint"} => s.pair = n
          /\ loc[t].why = "account" => s.pair = Mine(t).pair
          /\ loc[t].why = "bury" => s.pair = None /\ s.expired
          /\ s.origin = (CASE loc[t].why \in {"refresh", "bury"} -> loc[t].root
                           [] loc[t].why = "mint" -> loc[t].acctRoot
                           [] OTHER -> Mine(t).origin)
        BY <1>c, <2>4 DEF Built, Session
    <2>8. s.acct <= service.accts
        BY <1>c, <1>k, <2>3, <2>7 DEF CallKept, AcctsKnown
    <2> HIDE DEF s
    <2>9. /\ l.rec = s /\ l.why = loc[t].why /\ l.after = loc[t].after /\ l.root = loc[t].root /\ l.acct = loc[t].acct
          /\ l.acctRoot = loc[t].acctRoot /\ l.answer = loc[t].answer
        BY <1>c DEF Locals
    <2> HIDE DEF l
    <2>10. at'[t] = "start" /\ job'[t] = job[t] /\ loc'[t] = l /\ OthersStay(t)
        BY <2>1 DEF Moves, OthersStay
    <2>11. Employed(t)' /\ AcctsKnown(t)' /\ CopyKept(t)'
        BY <1>c, <2>0, <2>2, <2>8, <2>9, <2>10 DEF CallKept, Employed, AcctsKnown, CopyKept
    <2>12. BuildKept(t)'
        <3>1. Mine(t)' = Mine(t) /\ base'[ClientOf[t]] = base[ClientOf[t]]
            BY <2>0 DEF Mine
        <3>2. s.pair # None \/ loc[t].why \notin {"refresh", "mint"}
            BY <1>b, <2>6, <2>7 DEF None
        <3>3. (job[t] = "signin" /\ loc[t].why = "mint") \/ s.origin = Mine(t).origin
            BY <2>3, <2>4, <2>5, <2>7
        <3> HIDE DEF Mine
        <3> QED
            BY <2>3, <2>7, <2>9, <2>10, <3>1, <3>2, <3>3 DEF BuildKept, SigningIn
    <2>13. RefreshKept(t)'
        BY <1>c, <2>0, <2>2, <2>9, <2>10 DEF CallKept, RefreshKept, InRefresh, HasBuried, Mine
    <2>14. Carries(t)' => Carries(t) /\ loc'[t].answer.value = n
        BY <2>0, <2>9, <2>10 DEF Carries
    <2> QED
        BY <1>a, <1>f, <2>0, <2>10, <2>11, <2>12, <2>13, <2>14, LineGoes DEF CallKept
<1>19. ASSUME NEW t \in Task, StartCommit(t) PROVE LineInv' /\ UNCHANGED store
    <2> DEFINE e == IF SigningIn(t) THEN NoBase ELSE base[ClientOf[t]]
               l == [loc[t] EXCEPT !.expected = e]
    <2>0. UNCHANGED <<store, session, base, job, service, history>> /\ at[t] = "start"
        BY <1>19 DEF StartCommit, Go, clientVars
    <2>1. Moves(t, "write", job[t], l)
        BY <1>19, <2>0, Moved DEF StartCommit, Go
    <2>2. at[t] \in Refreshing /\ at[t] \in Changing
        BY <2>0 DEF Refreshing, Changing, Committing
    <2>3. /\ l.rec = loc[t].rec /\ l.why = loc[t].why /\ l.after = loc[t].after /\ l.root = loc[t].root
          /\ l.acct = loc[t].acct /\ l.acctRoot = loc[t].acctRoot /\ l.answer = loc[t].answer /\ l.expected = e
        BY <1>c DEF Locals
    <2> HIDE DEF l
    <2>4. at'[t] = "write" /\ job'[t] = job[t] /\ loc'[t] = l /\ OthersStay(t)
        BY <2>1 DEF Moves, OthersStay
    <2>5. Employed(t)' /\ AcctsKnown(t)' /\ CopyKept(t)'
        BY <1>c, <2>0, <2>2, <2>3, <2>4 DEF CallKept, Employed, AcctsKnown, CopyKept
    <2>6. BuildKept(t)'
        BY <1>c, <2>0, <2>2, <2>3, <2>4 DEF CallKept, BuildKept, SigningIn, Mine
    <2>7. RefreshKept(t)'
        BY <1>c, <2>0, <2>2, <2>3, <2>4 DEF CallKept, RefreshKept, InRefresh, HasBuried, Mine
    <2>8. Carries(t)' => Carries(t) /\ loc'[t].answer.value = loc[t].answer.value
        BY <2>0, <2>3, <2>4 DEF Carries
    <2> QED
        BY <1>a, <1>f, <2>0, <2>4, <2>5, <2>6, <2>7, <2>8, LineGoes DEF CallKept
<1>20. ASSUME NEW t \in Task, StoreFails(t) PROVE LineInv' /\ UNCHANGED store
    <2> DEFINE l == [loc[t] EXCEPT !.outcome = "failed"]
    <2>0. UNCHANGED <<store, session, base, job, service, history>> /\ at[t] = "write"
        BY <1>20 DEF StoreFails, Go, clientVars
    <2>1. Moves(t, "settle", job[t], l)
        BY <1>20, <2>0, Moved DEF StoreFails, Go
    <2>2. at[t] \in Refreshing /\ at[t] \in Changing
        BY <2>0 DEF Refreshing, Changing, Committing
    <2>3. /\ l.rec = loc[t].rec /\ l.why = loc[t].why /\ l.after = loc[t].after /\ l.root = loc[t].root
          /\ l.acct = loc[t].acct /\ l.acctRoot = loc[t].acctRoot /\ l.answer = loc[t].answer /\ l.outcome = "failed"
        BY <1>c DEF Locals
    <2> HIDE DEF l
    <2>4. at'[t] = "settle" /\ job'[t] = job[t] /\ loc'[t] = l /\ OthersStay(t)
        BY <2>1 DEF Moves, OthersStay
    <2>5. Employed(t)' /\ AcctsKnown(t)' /\ CopyKept(t)' /\ ~Carries(t)'
        BY <1>c, <2>0, <2>2, <2>3, <2>4 DEF CallKept, Employed, AcctsKnown, CopyKept, Carries
    <2>6. BuildKept(t)'
        BY <1>c, <2>0, <2>2, <2>3, <2>4 DEF CallKept, BuildKept, SigningIn, Mine
    <2>7. RefreshKept(t)'
        BY <1>c, <2>0, <2>2, <2>3, <2>4 DEF CallKept, RefreshKept, InRefresh, HasBuried, Mine
    <2> QED
        BY <1>a, <1>f, <2>0, <2>4, <2>5, <2>6, <2>7, LineGoes DEF CallKept
<1>21. ASSUME NEW t \in Task, SettleSaved(t) \/ SettleNewer(t) PROVE LineInv' /\ UNCHANGED store
    <2>1. /\ UNCHANGED <<store, service, history>> /\ at[t] = "settle" /\ loc[t].outcome \in {"saved", "newer"}
          /\ Install(ClientOf[t], loc[t].rec) /\ AfterChange(t, loc[t].rec, loc[t].outcome = "saved")
        <3>1. CASE SettleSaved(t)
            <4>1. (loc[t].outcome = "saved") = TRUE
                BY <3>1 DEF SettleSaved
            <4> QED
                BY <3>1, <4>1 DEF SettleSaved
        <3>2. CASE SettleNewer(t)
            <4>1. (loc[t].outcome = "saved") = FALSE
                BY <3>2 DEF SettleNewer
            <4> QED
                BY <3>2, <4>1 DEF SettleNewer
        <3> QED
            BY <1>21, <3>1, <3>2
    <2> QED
        BY <1>a, <2>1, SettlesKept
<1>22. ASSUME NEW t \in Task, SettleFailed(t) PROVE LineInv' /\ UNCHANGED store
    <2> DEFINE c == ClientOf[t]
    <2>0. UNCHANGED <<store, base, service, history>> /\ at[t] = "settle" /\ End(t)
        BY <1>22 DEF SettleFailed
    <2>1. at[t] \in Refreshing /\ at[t] \in Changing
        BY <2>0 DEF Refreshing, Changing, Committing
    <2>2. /\ \A d \in Client \ {c} : session'[d] = session[d]
          /\ session'[c].acct = session[c].acct
          /\ session'[c].origin \in {session[c].origin} \cup (IF loc[t].why = "refresh" THEN {loc[t].root} ELSE {})
        <3> DEFINE s == Built(t, session[c])
        <3>1. \/ UNCHANGED session
              \/ loc[t].why = "refresh" /\ session' = [session EXCEPT ![c] = s]
            BY <1>22 DEF SettleFailed
        <3>2. loc[t].why = "refresh" => s.acct = session[c].acct /\ s.origin = loc[t].root
            BY <1>c DEF Built, Session, Mine
        <3> HIDE DEF s
        <3>3. session \in [Client -> Session] /\ c \in Client
            BY <1>c DEF TypeInv, StoreTypes
        <3> QED
            BY <3>1, <3>2, <3>3
    <2>3. session'[c].origin = session[c].origin
        <3>1. CASE loc[t].why = "refresh"
            <4>1. job[t] # "signin"
                BY <1>c, <2>1, <3>1 DEF CallKept, BuildKept
            <4>2. InRefresh(t)
                BY <2>1, <4>1, ApartRefreshes
            <4>3. loc[t].root = session[c].origin
                BY <1>c, <2>0, <4>2 DEF CallKept, RefreshKept, Mine
            <4> QED
                BY <2>2, <4>3
        <3> QED
            BY <2>2, <3>1
    <2>4. ClientKept(c)'
        BY <1>c, <2>0, <2>2, <2>3 DEF ClientKept, SavedLine, SameLine
    <2>5. OthersStay(t) /\ CallKept(t)' /\ ~Carries(t)'
        BY <1>a, <2>0, EndFree
    <2> QED
        BY <1>a, <1>f, <2>0, <2>1, <2>2, <2>4, <2>5, LineMove
<1>23. ASSUME NEW t \in Task, Cancel(t) PROVE LineInv' /\ UNCHANGED store
    <2>0. UNCHANGED <<store, session, base, service, history>>
        BY <1>23 DEF Cancel, clientVars
    <2>1. CASE End(t)
        BY <1>f, <1>h, <2>0, <2>1
    <2>2. CASE at[t] \in Committing /\ Keep(t, [loc[t] EXCEPT !.cancelled = TRUE]) /\ UNCHANGED <<at, job>>
        <3> DEFINE l == [loc[t] EXCEPT !.cancelled = TRUE]
        <3>1. at' = [at EXCEPT ![t] = at[t]]
            BY <2>2 DEF TypeInv, CallTypes
        <3>2. Moves(t, at[t], job[t], l)
            BY <2>2, <3>1, Moved
        <3>3. \A f \in {"rec", "why", "after", "root", "acct", "acctRoot", "answer", "expected", "outcome"} : l[f] = loc[t][f]
            BY <1>c DEF Locals
        <3> HIDE DEF l
        <3>4. at'[t] = at[t] /\ job'[t] = job[t] /\ loc'[t] = l /\ OthersStay(t)
            BY <3>2 DEF Moves, OthersStay
        <3>5. at[t] \in Refreshing
            BY <2>2 DEF Refreshing, Committing
        <3>6. Employed(t)' /\ AcctsKnown(t)' /\ CopyKept(t)'
            BY <1>c, <2>0, <3>3, <3>4 DEF CallKept, Employed, AcctsKnown, CopyKept, SavedLine, SameLine, Tomb
        <3>7. BuildKept(t)'
            BY <1>c, <2>0, <3>3, <3>4 DEF CallKept, BuildKept, SigningIn, Mine
        <3>8. RefreshKept(t)'
            BY <1>c, <2>0, <3>3, <3>4 DEF CallKept, RefreshKept, InRefresh, HasBuried, Mine
        <3>9. Carries(t)' => Carries(t) /\ loc'[t].answer.value = loc[t].answer.value
            BY <3>3, <3>4 DEF Carries
        <3> QED
            BY <1>a, <1>f, <2>0, <3>4, <3>6, <3>7, <3>8, <3>9, LineGoes DEF CallKept
    <2> QED
        BY <1>23, <2>0, <2>1, <2>2 DEF Cancel
<1>24. ASSUME Elapse \/ UNCHANGED vars PROVE LineInv' /\ UNCHANGED store
    <2>1. UNCHANGED <<store, session, base, at, job, loc, history>>
        BY <1>24 DEF Elapse, vars, clientVars, taskVars
    <2>2. service'.pairs = service.pairs /\ service'.accts = service.accts /\ service'.acctLive \subseteq service.acctLive
        BY <1>24, <1>b DEF Elapse, vars
    <2>3. Issues
        BY <1>b, <1>n, <2>1, <2>2 DEF Issues
    <2> QED
        BY <1>a, <2>1, <2>3, LineStays
<1>25. ASSUME NEW t \in Task, WriteStore(t) PROVE LineInv' /\ store'.origin >= store.origin
    BY <1>a, <1>25, WriteKept
<1>26. ASSUME NEW t \in Task, Advance(t), ~WriteStore(t) PROVE LineInv' /\ UNCHANGED store
    <2>1. CASE \/ ReadStore(t) \/ ReadFails(t) \/ InstallLoaded(t) \/ RequestAnswered(t) \/ ServiceRejects(t)
               \/ ReadRejected(t) \/ CommandRejected(t) \/ TakeGate(t) \/ GateFindsDead(t)
        BY <1>2, <1>3, <1>4, <1>5, <1>6, <1>7, <2>1
    <2>2. CASE FindDead(t) \/ AdoptStored(t) \/ SkipRefresh(t) \/ SpendToken(t) \/ NoRefreshToken(t)
        BY <1>3, <1>4, <1>8, <1>9, <2>2
    <2>3. CASE \/ RefreshAnswered(t) \/ LoginAnswered(t) \/ MintAnswered(t) \/ AccountAnswered(t)
               \/ ServiceRefresh(t) \/ ServiceMint(t) \/ ServiceAccount(t) \/ ServiceLogin(t)
        BY <1>10, <1>11, <1>12, <1>13, <1>14, <1>15, <1>16, <1>17, <2>3
    <2>4. CASE \/ TakeChanging(t) \/ StartCommit(t) \/ StoreFails(t)
               \/ SettleSaved(t) \/ SettleNewer(t) \/ SettleFailed(t)
        BY <1>18, <1>19, <1>20, <1>21, <1>22, <2>4
    <2> QED
        BY <1>26, <2>1, <2>2, <2>3, <2>4 DEF Advance
<1> QED
    BY <1>d, <1>1, <1>23, <1>24, <1>25, <1>26 DEF Next

\* At first every client that has loaded the session holds the saved one.
LEMMA LineInit == Apart /\ Init => LineInv
<1> SUFFICES ASSUME Apart, Init PROVE LineInv
    OBVIOUS
<1>1. First.pair = 1 /\ First.acct = 1 /\ First.origin = 0 /\ Empty.acct = 0 /\ First.pair # None
    BY DEF First, Empty, None
<1>2. Blank.acct = 0 /\ Blank.rec.acct = 0 /\ Blank.answer.kind = "none"
    BY <1>1 DEF Blank, None, Answered
<1>3. StoreKept
    BY <1>1 DEF Init, StoreKept, Tomb
<1>4. ASSUME NEW c \in Client PROVE ClientKept(c)
    <2>1. /\ history.saved = {1} /\ service.accts = 1 /\ store = First
          /\ base[c] = (IF c \in Loaded THEN 1 ELSE NoBase) /\ session[c] = IF c \in Loaded THEN First ELSE Empty
        BY <1>1 DEF Init
    <2>2. session[c].acct \in {0, 1} /\ (c \in Loaded => session[c].origin = 0 /\ base[c] = 1)
        BY <1>1, <2>1
    <2> QED
        BY <1>1, <2>1, <2>2 DEF ClientKept, SavedLine, SameLine, NoBase
<1>5. ASSUME NEW t \in Task PROVE CallKept(t) /\ ~Carries(t)
    <2>1. at[t] = "idle" /\ job[t] = "none" /\ loc[t] = Blank /\ service.accts = 1
        BY DEF Init
    <2> QED
        BY <1>2, <2>1 DEF CallKept, Employed, AcctsKnown, CopyKept, BuildKept, RefreshKept, InRefresh,
                          Carries, Refreshing, Changing, Committing
<1>6. FreshPairs
    BY <1>5 DEF FreshPairs
<1> QED
    BY <1>3, <1>4, <1>5, <1>6 DEF LineInv

\* For any clients that refresh their session in one process without being signed in there, and
\* any sign-ins of clients that do nothing else, whatever fails, is lost or cancelled, and as long
\* as account tokens do not run out (Lasting: _renew_from_account, which refreshes one that did,
\* breaks this without it, TokenRenewalRefused.cfg): a save that is not a sign-in never replaces the saved session by one of an earlier sign-in, since
\* what _change builds and compares against (_commit) is of the saved session's own line.
THEOREM TokenSignInKept == Apart /\ Lasting => (Spec => SignInKept)
<1> SUFFICES ASSUME Apart, Lasting PROVE Spec => SignInKept
    OBVIOUS
<1> DEFINE Inv == TypeInv /\ LockInv /\ LineInv
           Kept == store'.origin >= store.origin
<1>1. Init => Inv
    BY TypeInit, LockInit, LineInit
<1>2. Inv /\ [Next]_vars => Inv' /\ Kept
    BY TypeStep, LockStep, LineStep
<1>3. Inv /\ [Next]_vars => [Kept]_store
    BY <1>2
<1>4. SignInKept <=> [][Kept]_store
    BY DEF SignInKept
<1> QED
    BY <1>1, <1>2, <1>3, <1>4, PTL DEF Spec
=================================================================================
