----------------------------- MODULE FileStoreProofs -----------------------------
(***************************************************************************)
(* Proofs about FileStore, for any callers, store objects, processes and      *)
(* sessions: its types, the inductive invariant Inv, and that it implements   *)
(* the one-step register of SessionStore.                                     *)
(***************************************************************************)
EXTENDS FileStore, TLAPS

USE StoreAssumption DEF Locked, Step

\* Every step keeps every variable of the file store in its type.
LEMMA TypeStep == TypeOK /\ RequestFits /\ WholeRecord /\ [Next]_vars => TypeOK'
<1> SUFFICES ASSUME TypeOK, RequestFits, WholeRecord, [Next]_vars PROVE TypeOK'
    OBVIOUS
<1> USE DEF TypeOK, Session, Store!Session, Store!Request, Store!NoRequest, Store!Outcome,
        Store!Nothing, Store!Saved, Store!Error, Store!Found, TempFile, NoTemp, Goto, Conclude, End
<1>1. ASSUME NEW c \in Caller, Call(c) PROVE TypeOK'
    BY <1>1 DEF Call
<1>2. ASSUME NEW c \in Caller, CancelWaiting(c) PROVE TypeOK'
    BY <1>2 DEF CancelWaiting
<1>3. ASSUME NEW c \in Caller, Load(c) PROVE TypeOK'
    BY <1>3 DEF Load
<1>4. ASSUME NEW c \in Caller, TakeTurn(c) PROVE TypeOK'
    BY <1>4 DEF TakeTurn
<1>5. ASSUME NEW c \in Caller, TakeFlock(c) PROVE TypeOK'
    BY <1>5 DEF TakeFlock
<1>6. ASSUME NEW c \in Caller, Proceed(c) PROVE TypeOK'
    BY <1>6 DEF Proceed
<1>7. ASSUME NEW c \in Caller, Decline(c) PROVE TypeOK'
    BY <1>7 DEF Decline
<1>8. ASSUME NEW c \in Caller, MakeTemp(c) PROVE TypeOK'
    BY <1>8 DEF MakeTemp, RequestFits
<1>9. ASSUME NEW c \in Caller, WriteTemp(c) PROVE TypeOK'
    BY <1>9 DEF WriteTemp, RequestFits, WholeRecord
<1>10. ASSUME NEW c \in Caller, Rename(c) PROVE TypeOK'
    BY <1>10 DEF Rename, RequestFits, WholeRecord
<1>11. ASSUME NEW c \in Caller, SyncDirectory(c) PROVE TypeOK'
    BY <1>11 DEF SyncDirectory
<1>12. ASSUME NEW c \in Caller, WriteFails(c) PROVE TypeOK'
    BY <1>12 DEF WriteFails
<1>13. ASSUME NEW c \in Caller, Unlock(c) PROVE TypeOK'
    BY <1>13 DEF Unlock
<1>14. ASSUME NEW c \in Caller, Leave(c) PROVE TypeOK'
    BY <1>14 DEF Leave
<1>15. ASSUME NEW p \in Process, Crash(p) PROVE TypeOK'
    BY <1>15 DEF Crash, Perish, In
<1>16. ASSUME PowerLoss PROVE TypeOK'
    BY <1>16 DEF PowerLoss, Perish
<1>17. ASSUME Damage PROVE TypeOK'
    BY <1>17 DEF Damage
<1>18. ASSUME UNCHANGED vars PROVE TypeOK'
    BY <1>18 DEF vars
<1>19. ASSUME NEW c \in Caller, LockFails(c) PROVE TypeOK'
    BY <1>19 DEF LockFails
<1>20. ASSUME NEW c \in Caller, ProceedUnread(c) PROVE TypeOK'
    BY <1>20 DEF ProceedUnread, RequestFits, Store!Unconditional
<1> QED
    BY <1>1, <1>2, <1>3, <1>4, <1>5, <1>6, <1>7, <1>8, <1>9, <1>10, <1>11, <1>12, <1>13, <1>14,
       <1>15, <1>16, <1>17, <1>18, <1>19, <1>20 DEF Next, Work

\* Every step keeps the invariant: only the holder of the flock writes the record, and it
\* lets nobody in between its comparison and its rename.
LEMMA InvStep == TypeOK /\ Inv /\ [Next]_vars => Inv'
<1> SUFFICES ASSUME TypeOK, Inv, [Next]_vars PROVE Inv'
    OBVIOUS
<1> USE DEF TypeOK, Inv, FlockExclusive, NoLostUpdate, WholeRecord, RequestFits, Matches, Goto, Conclude
<1>1. ASSUME NEW c \in Caller, Call(c) PROVE Inv'
    BY <1>1 DEF Call, Store!Request
<1>2. ASSUME NEW c \in Caller, CancelWaiting(c) PROVE Inv'
    BY <1>2 DEF CancelWaiting
<1>3. ASSUME NEW c \in Caller, Load(c) PROVE Inv'
    BY <1>3 DEF Load
<1>4. ASSUME NEW c \in Caller, TakeTurn(c) PROVE Inv'
    BY <1>4 DEF TakeTurn
<1>5. ASSUME NEW c \in Caller, TakeFlock(c) PROVE Inv'
    BY <1>5 DEF TakeFlock
<1>6. ASSUME NEW c \in Caller, Proceed(c) PROVE Inv'
    BY <1>6 DEF Proceed
<1>7. ASSUME NEW c \in Caller, Decline(c) PROVE Inv'
    BY <1>7 DEF Decline
<1>8. ASSUME NEW c \in Caller, MakeTemp(c) PROVE Inv'
    BY <1>8 DEF MakeTemp
<1>9. ASSUME NEW c \in Caller, WriteTemp(c) PROVE Inv'
    BY <1>9 DEF WriteTemp
<1>10. ASSUME NEW c \in Caller, Rename(c) PROVE Inv'
    BY <1>10 DEF Rename
<1>11. ASSUME NEW c \in Caller, SyncDirectory(c) PROVE Inv'
    BY <1>11 DEF SyncDirectory
<1>12. ASSUME NEW c \in Caller, WriteFails(c) PROVE Inv'
    BY <1>12 DEF WriteFails
<1>13. ASSUME NEW c \in Caller, Unlock(c) PROVE Inv'
    BY <1>13 DEF Unlock
<1>14. ASSUME NEW c \in Caller, Leave(c) PROVE Inv'
    BY <1>14 DEF Leave, End, Store!NoRequest
<1>15. ASSUME NEW p \in Process, Crash(p) PROVE Inv'
    BY <1>15 DEF Crash, Perish, In, End, Store!NoRequest
<1>16. ASSUME PowerLoss PROVE Inv'
    BY <1>16 DEF PowerLoss, Perish, End, Store!NoRequest
<1>17. ASSUME Damage PROVE Inv'
    BY <1>17 DEF Damage
<1>18. ASSUME UNCHANGED vars PROVE Inv'
    BY <1>18 DEF vars
<1>19. ASSUME NEW c \in Caller, LockFails(c) PROVE Inv'
    BY <1>19 DEF LockFails
<1>20. ASSUME NEW c \in Caller, ProceedUnread(c) PROVE Inv'
    BY <1>20 DEF ProceedUnread, Store!Unconditional
<1> QED
    BY <1>1, <1>2, <1>3, <1>4, <1>5, <1>6, <1>7, <1>8, <1>9, <1>10, <1>11, <1>12, <1>13, <1>14,
       <1>15, <1>16, <1>17, <1>18, <1>19, <1>20 DEF Next, Work

\* Before the first call no lock is held and the record is whole.
LEMMA InitCorrect == Init => TypeOK /\ Inv
BY DEF Init, TypeOK, Inv, FlockExclusive, NoLostUpdate, WholeRecord, RequestFits, Session, Store!Session,
       Store!Request, Store!NoRequest, Store!Outcome, Store!Nothing, TempFile, NoTemp

\* For any callers, objects and processes: types are kept, the flocked work is exclusive, a
\* conditional write still matches the record when it replaces it, and what replaces it is a
\* whole session.
THEOREM FileStoreInvariant == Spec => [](TypeOK /\ Inv)
<1>1. Init => TypeOK /\ Inv
    BY InitCorrect
<1>2. TypeOK /\ Inv /\ [Next]_vars => (TypeOK /\ Inv)'
    BY TypeStep, InvStep DEF Inv
<1> QED
    BY <1>1, <1>2, PTL DEF Spec

\* Whatever dies or fails, the record of session.py's file, the temporary files and every
\* call's request and answer keep their types.
THEOREM FileStoreTyped == Spec => []TypeOK
<1>1. TypeOK /\ Inv => TypeOK
    OBVIOUS
<1> QED
    BY <1>1, FileStoreInvariant, PTL

-----------------------------------------------------------------------------------
\* The initial states of the file store are initial states of the register.
LEMMA InitRefines == Init => Store!Init
BY DEF Init, Store!Init, Session, StageOf

\* Every step of the file store is a step of the register or leaves it unchanged.
LEMMA StepRefines == TypeOK /\ Inv /\ [Next]_vars => [Store!Next]_(Store!storeVars)
<1> SUFFICES ASSUME TypeOK, Inv, [Next]_vars PROVE [Store!Next]_(Store!storeVars)
    OBVIOUS
<1> DEFINE stage == [c \in Caller |-> StageOf(pc[c])]
<1> USE DEF Goto, Conclude, TypeOK
<1>1. ASSUME NEW c \in Caller, Call(c) PROVE Store!Invoke(c)
    <2>1. PICK a \in Store!Request :
            /\ Goto(c, "idle", IF a.op = "load" THEN "load" ELSE "turn")
            /\ arg' = [arg EXCEPT ![c] = a]
        BY <1>1 DEF Call
    <2>2. stage[c] = "idle" /\ stage' = [stage EXCEPT ![c] = "called"]
        BY <2>1 DEF StageOf
    <2> QED
        BY <1>1, <2>1, <2>2 DEF Call, Store!Invoke
<1>2. ASSUME NEW c \in Caller, CancelWaiting(c) PROVE Store!Fail(c)
    BY <1>2 DEF CancelWaiting, Store!Fail, Store!Finish, Store!Expected, Store!End, End, Matches, StageOf, Inv, RequestFits, NoLostUpdate, WholeRecord
<1>3. ASSUME NEW c \in Caller, Load(c) PROVE Store!Load(c) \/ Store!Fail(c)
    BY <1>3 DEF Load, Store!Load, Store!Fail, Store!Finish, StageOf, Inv, RequestFits
<1>4. ASSUME NEW c \in Caller, TakeTurn(c) PROVE UNCHANGED Store!storeVars
    BY <1>4 DEF TakeTurn, Store!storeVars, StageOf
<1>5. ASSUME NEW c \in Caller, TakeFlock(c) PROVE UNCHANGED Store!storeVars
    BY <1>5 DEF TakeFlock, Store!storeVars, StageOf
<1>6. ASSUME NEW c \in Caller, Proceed(c) PROVE UNCHANGED Store!storeVars
    BY <1>6 DEF Proceed, Store!storeVars, StageOf
<1>7. ASSUME NEW c \in Caller, MakeTemp(c) PROVE UNCHANGED Store!storeVars
    BY <1>7 DEF MakeTemp, Store!storeVars, StageOf
<1>8. ASSUME NEW c \in Caller, WriteTemp(c) PROVE UNCHANGED Store!storeVars
    BY <1>8 DEF WriteTemp, Store!storeVars, StageOf
<1>9. ASSUME NEW c \in Caller, Unlock(c) PROVE UNCHANGED Store!storeVars
    BY <1>9 DEF Unlock, Store!storeVars, StageOf
<1>10. ASSUME NEW c \in Caller, Decline(c) PROVE Store!Decline(c)
    BY <1>10 DEF Decline, Store!Decline, Store!Finish, Store!Expected, Store!End, End, Matches, StageOf, Inv, RequestFits, NoLostUpdate, WholeRecord
<1>11. ASSUME NEW c \in Caller, Rename(c) PROVE Store!Apply(c)
    <2>1. stage[c] = "called" /\ stage' = [stage EXCEPT ![c] = "applied"]
        BY <1>11 DEF Rename, StageOf
    <2>2. pc[c] = "rename" /\ file' = temp[c].session /\ readable' = (temp[c].state = "complete")
        BY <1>11 DEF Rename
    <2>3. temp[c] = [state |-> "complete", session |-> arg[c].session]
        BY <2>2 DEF Inv, WholeRecord
    <2>4. file' = arg[c].session /\ readable' = TRUE
        <3>1. temp[c].session = arg[c].session /\ temp[c].state = "complete"
            BY <2>3
        <3> QED
            BY <2>2, <3>1, Zenon
    <2>5. arg[c].op \in {"save", "replace"}
        BY <2>2 DEF Inv, RequestFits
    <2>6. arg[c].op = "replace" => Store!Expected(c)
        BY <2>2 DEF Inv, NoLostUpdate, Matches, Store!Expected
    <2>7. arg[c].op = "save" \/ (arg[c].op = "replace" /\ Store!Expected(c))
        BY <2>5, <2>6
    <2> QED
        BY <1>11, <2>1, <2>4, <2>7 DEF Rename, Store!Apply
<1>12. ASSUME NEW c \in Caller, SyncDirectory(c) PROVE Store!Settle(c)
    BY <1>12 DEF SyncDirectory, Store!Settle, Store!Finish, Store!Expected, Store!End, End, Matches, StageOf, Inv, RequestFits, NoLostUpdate, WholeRecord
<1>13. ASSUME NEW c \in Caller, WriteFails(c) PROVE Store!Fail(c)
    <2>1. PICK step \in {"make", "write", "rename", "sync"} : Conclude(c, step, Store!Error)
        BY <1>13 DEF WriteFails
    <2>2. stage[c] \in {"called", "applied"} /\ stage' = [stage EXCEPT ![c] = "done"]
        BY <2>1 DEF StageOf
    <2> QED
        BY <1>13, <2>1, <2>2 DEF WriteFails, Store!Fail, Store!Finish
<1>14. ASSUME NEW c \in Caller, Leave(c) PROVE Store!Return(c)
    BY <1>14 DEF Leave, Store!Return, Store!Finish, Store!Expected, Store!End, End, Matches, StageOf, Inv, RequestFits, NoLostUpdate, WholeRecord
<1>15. ASSUME NEW p \in Process, Crash(p) PROVE Store!Crash(In(p))
    BY <1>15 DEF Crash, Perish, End, Store!Crash, Store!End, StageOf
<1>16. ASSUME PowerLoss PROVE Store!PowerLoss
    BY <1>16 DEF PowerLoss, Perish, End, Store!PowerLoss, Store!End, StageOf
<1>17. ASSUME Damage PROVE Store!Damage
    BY <1>17 DEF Damage, Store!Damage
<1>18. ASSUME UNCHANGED vars PROVE UNCHANGED Store!storeVars
    BY <1>18 DEF vars, Store!storeVars
<1>20. ASSUME NEW c \in Caller, LockFails(c) PROVE Store!Fail(c)
    BY <1>20 DEF LockFails, Store!Fail, Store!Finish, StageOf
<1>21. ASSUME NEW c \in Caller, ProceedUnread(c) PROVE Store!Misread(c)
    BY <1>21 DEF ProceedUnread, Store!Misread, StageOf, Inv, RequestFits
<1>19. \A p \in Process : In(p) \in SUBSET Caller
    BY DEF In
<1> QED
    BY <1>1, <1>2, <1>3, <1>4, <1>5, <1>6, <1>7, <1>8, <1>9, <1>10, <1>11, <1>12, <1>13, <1>14,
       <1>15, <1>16, <1>17, <1>18, <1>19, <1>20, <1>21 DEF Next, Work, Store!Next

\* A file shared by any number of store objects and processes behaves, for its callers, as the
\* one-step register: load, save and replace each take effect at one moment.
THEOREM FileStoreImplementsRegister == Spec => ImplementsStore
<1>1. Spec => Store!Init
    BY InitRefines, PTL DEF Spec
<1>2. Spec => [][Store!Next]_(Store!storeVars)
    BY FileStoreInvariant, StepRefines, PTL DEF Spec
<1> QED
    BY <1>1, <1>2 DEF ImplementsStore, Store!Spec
=================================================================================
